------------------------ MODULE DatasetPlatformProofs ------------------------
(***************************************************************************)
(* What holds of the whole platform with either executor, for every number *)
(* of datasets, requests, names and runs, and whatever fails.              *)
(***************************************************************************)
EXTENDS DatasetPlatform, DatasetSettledProofs

\* PlatformWellFormed made inductive: a request to import a dataset names its table.
PlatformInv ==
    /\ PlatformWellFormed
    /\ \A h \in Handlers : req[h].op = "import" => req[h].final_table_name # 0

-----------------------------------------------------------------------------
(* The executor inside the backend *)

\* Its tasks and its callbacks that fail keep the state well formed.
LEMMA LocalWellFormed == WellFormed /\ LocalNext => WellFormed'
  <1> SUFFICES ASSUME RunsInv, RequestsInv, StoreInv, LocalNext
               PROVE  RunsInv' /\ RequestsInv' /\ StoreInv'
    BY Parts, PTL
  <1> USE DEF pgVars, catalogVars, airflowVars, backendVars
  <1>1. ASSUME NEW r \in Runs, local_run_staging(r)
        PROVE  RunsInv' /\ RequestsInv' /\ StoreInv'
    <2>1. run[r].kind = "staging" /\ run[r].step = "ingest" /\ run[r] \in DagRun
          /\ RunWellFormed(run[r]) /\ lastRun' = lastRun
      BY <1>1 DEF local_run_staging, RunsInv
    <2>2. run' = Goto(r, "success") \/ run' = Goto(r, "failed")
      BY <1>1 DEF local_run_staging
    <2>3. RunsInv'
      BY <2>1, <2>2, GotoWellFormed DEF RunSteps
    <2>4. run[r].source \in Uploads
      BY <2>1, ConstantsAssumption DEF DagRun, RunWellFormed, NoRun, Uploads
    <2>5. staging' \in {staging, staging \cup {run[r].source}}
      BY <1>1 DEF local_run_staging
    <2>6. StoreInv' /\ RequestsInv'
      BY <1>1, <2>4, <2>5 DEF local_run_staging, StoreInv, RequestsInv
    <2> QED
      BY <2>3, <2>6
  <1>2. ASSUME NEW r \in Runs, local_reingest(r)
        PROVE  RunsInv' /\ RequestsInv' /\ StoreInv'
    <2>1. run[r].kind = "reimport" /\ run[r].step = "ingest" /\ lastRun' = lastRun
      BY <1>2 DEF local_reingest
    <2>2. run' = Goto(r, "transform") \/ run' = Goto(r, "failed")
      BY <1>2 DEF local_reingest
    <2>3. RunsInv'
      BY <2>1, <2>2, GotoWellFormed DEF RunSteps, TaskSteps
    <2>4. temp' \in {temp, temp \cup {r}}
      BY <1>2 DEF local_reingest
    <2>5. StoreInv' /\ RequestsInv'
      BY <1>2, <2>4 DEF local_reingest, StoreInv, RequestsInv
    <2> QED
      BY <2>3, <2>5
  <1>3. ASSUME NEW r \in Runs, local_drop(r)
        PROVE  RunsInv' /\ RequestsInv' /\ StoreInv'
    <2>1. run[r].kind # "staging"
      BY <1>3, ProcessRunNamesTable DEF local_drop, ProcessKinds
    <2>2. RunsInv'
      BY <1>3, <2>1, GotoWellFormed DEF local_drop, RunSteps, TaskSteps
    <2>3. StoreInv' /\ RequestsInv'
      BY <1>3 DEF local_drop, StoreInv, RequestsInv
    <2> QED
      BY <2>2, <2>3
  <1>4. ASSUME NEW r \in Runs, local_transform(r)
        PROVE  RunsInv' /\ RequestsInv' /\ StoreInv'
    <2>1. /\ run[r].step = "transform" /\ lastRun' = lastRun
          /\ run[r].kind \in ProcessKinds
          /\ run[r].link \in Links
          /\ run[r].final_table_name \in Names
      BY <1>4, ProcessRunNamesTable DEF local_transform
    <2>2. RunsInv'
      <3>1. CASE run' = [run EXCEPT ![r] = [@ EXCEPT !.step = "clean", !.wrote = TRUE]]
        <4> DEFINE x == [run[r] EXCEPT !.step = "clean", !.wrote = TRUE]
        <4>1. run[r] \in DagRun /\ RunWellFormed(run[r]) /\ run[r] # NoRun
          BY <2>1 DEF RunsInv, NoRun, ProcessKinds
        <4>2. x \in DagRun
          BY <4>1 DEF DagRun, RunSteps, TaskSteps
        <4>3. x.kind = run[r].kind /\ x.step = "clean" /\ x.link = run[r].link
              /\ x.final_table_name = run[r].final_table_name
          BY <4>1 DEF DagRun
        <4>4. RunWellFormed(x)
          BY <2>1, <4>3, ConstantsAssumption DEF RunWellFormed, Names, ProcessKinds
        <4> HIDE DEF x
        <4>5. run' = [run EXCEPT ![r] = x]
          BY <3>1 DEF x
        <4> QED
          BY <2>1, <4>1, <4>2, <4>4, <4>5 DEF RunsInv
      <3>2. CASE run' = Goto(r, "failed")
        BY <2>1, <3>2, GotoWellFormed DEF RunSteps, ProcessKinds
      <3> QED
        BY <1>4, <3>1, <3>2 DEF local_transform, no_data_to_write
    <2>3. StoreInv' /\ RequestsInv'
      BY <1>4, <2>1 DEF local_transform, StoreInv, RequestsInv
    <2> QED
      BY <2>2, <2>3
  <1>5. ASSUME NEW r \in Runs, local_clean(r)
        PROVE  RunsInv' /\ RequestsInv' /\ StoreInv'
    <2>1. run[r].step = "clean" /\ lastRun' = lastRun
          /\ (run' = Goto(r, "success") \/ run' = Goto(r, "failed"))
      BY <1>5 DEF local_clean
    <2>2. RunsInv'
      BY <2>1, GotoWellFormed DEF RunSteps
    <2>3. StoreInv' /\ RequestsInv'
      BY <1>5 DEF local_clean, StoreInv, RequestsInv
    <2> QED
      BY <2>2, <2>3
  <1>6. ASSUME NEW r \in Runs, local_callback_lost(r)
        PROVE  RunsInv' /\ RequestsInv' /\ StoreInv'
    <2>1. RunsInv'
      BY <1>6, GotoWellFormed DEF local_callback_lost, CallbackCalled, RunSteps
    <2>2. StoreInv' /\ RequestsInv'
      BY <1>6 DEF local_callback_lost, StoreInv, RequestsInv
    <2> QED
      BY <2>1, <2>2
  <1> QED
    BY <1>1, <1>2, <1>3, <1>4, <1>5, <1>6 DEF LocalNext, LocalStep

\* A restart, which ends the runs of the backend and forgets its requests, keeps the
\* state well formed.
LEMMA RestartWellFormed == WellFormed /\ restart => WellFormed'
  <1> SUFFICES ASSUME RunsInv, RequestsInv, StoreInv, restart
               PROVE  RunsInv' /\ RequestsInv' /\ StoreInv'
    BY Parts, PTL
  <1> USE DEF pgVars, catalogVars, airflowVars, backendVars
  <1>1. run \in [Runs -> DagRun] /\ lastRun' = lastRun
    BY DEF RunsInv, restart
  <1>2. ASSUME NEW r \in Runs, Active(r) \/ run[r].step \in {"success", "failed"}
        PROVE  /\ [run[r] EXCEPT !.step = "cancelled"] \in DagRun
               /\ run[r] # NoRun
               /\ RunWellFormed([run[r] EXCEPT !.step = "cancelled"])
    <2>1. RunWellFormed(run[r])
      BY DEF RunsInv
    <2>2. run[r] # NoRun
      BY <1>2 DEF Active, TaskSteps, NoRun
    <2> QED
      BY <1>1, <2>1, <2>2 DEF DagRun, RunSteps, RunWellFormed
  <1>3. RunsInv'
    <2>1. CASE run' = local_registry_lost
      BY <1>1, <1>2, <2>1 DEF RunsInv, local_registry_lost
    <2>2. CASE run' = run
      BY <1>1, <2>2 DEF RunsInv
    <2> QED
      BY <2>1, <2>2 DEF restart
  <1>4. RequestsInv'
    BY DefaultsTyped DEF restart, RequestsInv, RequestWellFormed, Idle
  <1>5. StoreInv'
    BY DEF restart, StoreInv
  <1> QED
    BY <1>3, <1>4, <1>5

-----------------------------------------------------------------------------
(* The administration *)

\* A copied record, a request to import a table or a dataset, and a deletion keep the
\* state well formed.
LEMMA AdministrationWellFormed ==
    ASSUME WellFormed, NEW airflow \in BOOLEAN, AdministrationNext(airflow)
    PROVE  WellFormed'
  <1> SUFFICES ASSUME RunsInv, RequestsInv, StoreInv
               PROVE  RunsInv' /\ RequestsInv' /\ StoreInv'
    BY Parts, PTL
  <1> USE DEF pgVars, catalogVars, airflowVars, backendVars
  <1>1. ASSUME NEW l \in Links, copy_record(l)
        PROVE  RunsInv' /\ RequestsInv' /\ StoreInv'
    BY <1>1 DEF copy_record, RunsInv, RequestsInv, StoreInv
  <1>2. ASSUME NEW h \in Handlers, NEW l \in Links, NEW n \in Names, import_table_data(h, l, n)
        PROVE  RunsInv' /\ RequestsInv' /\ StoreInv'
    <2> DEFINE q == [Idle EXCEPT !.op = "restore", !.link = l, !.final_table_name = n]
    <2>1. n \in 0..MaxNames
      BY ConstantsAssumption DEF Names
    <2>2. q \in Request /\ q.op = "restore" /\ q.link = l
      <3>1. q \in Request
        BY <2>1, DefaultsTyped DEF Request
      <3> QED
        BY <3>1 DEF Idle
    <2>3. req' = [req EXCEPT ![h] = q]
      BY <1>2 DEF import_table_data
    <2> HIDE DEF q
    <2>4. RequestsInv'
      BY <2>2, <2>3, StartWellFormed DEF RequestWellFormed
    <2>5. RunsInv' /\ StoreInv'
      BY <1>2 DEF import_table_data, RunsInv, StoreInv
    <2> QED
      BY <2>4, <2>5
  <1>3. ASSUME NEW h \in Handlers, NEW l \in Links, NEW n \in Names,
               import_integrity_link(h, l, n)
        PROVE  RunsInv' /\ RequestsInv' /\ StoreInv'
    <2> DEFINE q(attach) == [Idle EXCEPT !.op = "import", !.link = l,
                                         !.final_table_name = n, !.flag = attach]
    <2>1. n \in 0..MaxNames
      BY ConstantsAssumption DEF Names
    <2>2. ASSUME NEW attach \in BOOLEAN
          PROVE  q(attach) \in Request /\ q(attach).op = "import" /\ q(attach).link = l
      <3>1. q(attach) \in Request
        BY <2>1, DefaultsTyped DEF Request
      <3> QED
        BY <3>1 DEF Idle
    <2>3. PICK attach \in BOOLEAN : req' = [req EXCEPT ![h] = q(attach)]
      BY <1>3 DEF import_integrity_link, Importing
    <2>4. layers' \in {layers, layers \cup {layer(l, n)}}
      BY <1>3 DEF import_integrity_link, attach_layer
    <2> HIDE DEF q
    <2>5. RequestsInv'
      BY <2>2, <2>3, StartWellFormed DEF RequestWellFormed
    <2>6. layer(l, n) \in Organizations \X Names
      BY ConstantsAssumption DEF layer
    <2>7. RunsInv' /\ StoreInv'
      BY <1>3, <2>4, <2>6 DEF import_integrity_link, RunsInv, StoreInv
    <2> QED
      BY <2>5, <2>7
  <1>4. ASSUME NEW h \in Handlers, NEW l \in Links, NEW delete_layer \in BOOLEAN,
               NEW delete_metadata \in BOOLEAN,
               delete_integrity_link_admin(h, l, airflow, delete_layer, delete_metadata)
        PROVE  RunsInv' /\ RequestsInv' /\ StoreInv'
    <2> DEFINE q == [Idle EXCEPT !.op = IF delete_layer THEN "delete" ELSE "remove",
                        !.link = l, !.staging_table_name = row[l].staging_table_name,
                        !.final_table_name = row[l].final_table_name,
                        !.flag = delete_metadata /\ row[l].metadata_id]
    <2>1. row[l] \in IntegrityLink
      BY DEF StoreInv
    <2>2. (delete_metadata /\ row[l].metadata_id) \in BOOLEAN
      OBVIOUS
    <2>3. q \in Request /\ q.op \in {"delete", "remove"} /\ q.link = l
      BY <2>1, <2>2, DefaultsTyped DEF Request, IntegrityLink, UserOps, Idle
    <2>4. req' = [req EXCEPT ![h] = q]
      BY <1>4 DEF delete_integrity_link_admin, Deleting
    <2> HIDE DEF q
    <2>5. RequestsInv'
      BY <2>3, <2>4, StartWellFormed DEF RequestWellFormed
    <2>6. RunsInv'
      <3>1. CASE run' = Cancelled(runs_to_cancel(l))
        BY <1>4, <3>1, CancelledWellFormed
        DEF delete_integrity_link_admin, runs_to_cancel, Unfinished
      <3>2. CASE UNCHANGED run
        BY <1>4, <3>2 DEF delete_integrity_link_admin, RunsInv
      <3> QED
        BY <1>4, <3>1, <3>2 DEF delete_integrity_link_admin
    <2>7. dag' \in [Links -> IngestionDag]
      BY <1>4, DefaultsTyped DEF delete_integrity_link_admin, StoreInv
    <2>8. StoreInv'
      BY <1>4, <2>7 DEF delete_integrity_link_admin, StoreInv
    <2> QED
      BY <2>5, <2>6, <2>8
  <1> QED
    BY <1>1, <1>2, <1>3, <1>4 DEF AdministrationNext

\* What an import gives a dataset: its row, and the run that makes its table again.
LEMMA ImportTyped ==
    ASSUME NEW l \in Links, NEW n \in Names, NEW attach \in BOOLEAN, NEW schedule \in BOOLEAN
    PROVE  /\ ImportedRow(n, attach, schedule) \in IntegrityLink
           /\ ReimportRun(l, n) \in DagRun
           /\ RunWellFormed(ReimportRun(l, n))
  <1>1. n \in 0..MaxNames /\ n # 0 /\ Imported \in 0..(MaxRuns + 1)
    BY ConstantsAssumption DEF Names, Imported
  <1>2. ImportedRow(n, attach, schedule) \in IntegrityLink
    <2> DEFINE d == IF attach THEN n ELSE 0
               t == IF attach THEN Imported ELSE 0
    <2>1. d \in 0..MaxNames /\ t \in 0..(MaxRuns + 1)
      BY <1>1, ConstantsAssumption
    <2>2. ImportedRow(n, attach, schedule) =
             [Blank EXCEPT !.state = "live", !.final_table_name = n, !.metadata_id = TRUE,
                           !.schedule = schedule, !.data_id = d, !.last_retrieval = t]
      BY DEF ImportedRow
    <2> HIDE DEF d, t
    <2> QED
      BY <1>1, <2>1, <2>2, DefaultsTyped DEF IntegrityLink
  <1>3. ReimportRun(l, n) \in DagRun
    BY <1>1, DefaultsTyped DEF ReimportRun, DagRun, RunSteps, TaskSteps
  <1>4. /\ ReimportRun(l, n).kind = "reimport" /\ ReimportRun(l, n).step = "ingest"
        /\ ReimportRun(l, n).link = l /\ ReimportRun(l, n).final_table_name = n
    BY DEF ReimportRun, NoRun
  <1> QED
    BY <1>1, <1>2, <1>3, <1>4 DEF RunWellFormed

\* The ends of these requests keep the state well formed too.
LEMMA GoesOnWellFormed ==
    ASSUME WellFormed, NEW airflow, AdministrationGoesOn(airflow),
           \A h \in Handlers : req[h].op = "import" => req[h].final_table_name # 0
    PROVE  WellFormed'
  <1> SUFFICES ASSUME RunsInv, RequestsInv, StoreInv
               PROVE  RunsInv' /\ RequestsInv' /\ StoreInv'
    BY Parts, PTL
  <1> USE DEF pgVars, catalogVars, airflowVars, backendVars
  <1>1. ASSUME NEW h \in Handlers, restore_table(h)
        PROVE  RunsInv' /\ RequestsInv' /\ StoreInv'
    <2>1. req[h].link \in Links
      BY <1>1 DEF restore_table, RequestsInv, RequestWellFormed
    <2>2. RequestsInv'
      BY <1>1, IdleWellFormed DEF restore_table
    <2>3. RunsInv' /\ StoreInv'
      BY <1>1, <2>1 DEF restore_table, RunsInv, StoreInv
    <2> QED
      BY <2>2, <2>3
  <1>2. ASSUME NEW h \in Handlers, import_integrity_link_commit(h)
        PROVE  RunsInv' /\ RequestsInv' /\ StoreInv'
    <2>1. PICK l \in Links, n \in Names : l = req[h].link /\ n = req[h].final_table_name
      BY <1>2, ConstantsAssumption
      DEF import_integrity_link_commit, RequestsInv, Request, RequestWellFormed, Names
    <2>2. RequestsInv'
      BY <1>2, IdleWellFormed DEF import_integrity_link_commit
    <2>3. [Blank EXCEPT !.state = "removed"] \in IntegrityLink
      BY DefaultsTyped DEF IntegrityLink
    <2>4. row' = row \/ \E x \in IntegrityLink : row' = [row EXCEPT ![l] = x]
      BY <1>2, <2>1, <2>3, ImportTyped DEF import_integrity_link_commit, Recurrence
    <2>5. row' \in [Links -> IntegrityLink]
      BY <2>4 DEF StoreInv
    <2>6. StoreInv'
      BY <1>2, <2>5 DEF import_integrity_link_commit, StoreInv
    <2>7. UNCHANGED <<run, lastRun>> \/ Trigger(ReimportRun(l, n))
      BY <1>2, <2>1 DEF import_integrity_link_commit
    <2>8. RunsInv'
      BY <2>7, ImportTyped, TriggerWellFormed DEF RunsInv
    <2> QED
      BY <2>2, <2>6, <2>8
  <1>3. ASSUME NEW h \in Handlers, remove_dataset(h, airflow)
        PROVE  RunsInv' /\ RequestsInv' /\ StoreInv'
    <2>1. [Blank EXCEPT !.state = "removed"] \in IntegrityLink
      BY DefaultsTyped DEF IntegrityLink
    <2>2. RequestsInv'
      BY <1>3, IdleWellFormed DEF remove_dataset
    <2>3. StoreInv'
      BY <1>3, <2>1 DEF remove_dataset, StoreInv
    <2>4. RunsInv'
      <3>1. CASE UNCHANGED <<run, lastRun>>
        BY <3>1 DEF RunsInv
      <3>2. ASSUME NEW purged \in SUBSET Unfinished(req[h].link), run' = Cancelled(purged)
            PROVE  RunsInv'
        BY <1>3, <3>2, CancelledWellFormed DEF remove_dataset, Unfinished
      <3> QED
        BY <1>3, <3>1, <3>2 DEF remove_dataset
    <2> QED
      BY <2>2, <2>3, <2>4
  <1> QED
    BY <1>1, <1>2, <1>3 DEF AdministrationGoesOn

-----------------------------------------------------------------------------
(* What a step does to runs, requests, rows and DAGs. *)

\* A run that wrote rows, or a refresh of Airflow, whose last task decides alone.
Wrote(r) == run[r].wrote \/ (Airflow /\ re_ingests(r))

\* A run of process_dag reaches its end this way only.
Written(r) ==
    run[r].kind \in ProcessKinds /\ run[r].step \in {"clean", "success"} => Wrote(r)

\* Rows written stay written, a run ends well only after them, and no run is scheduled
\* without Airflow.
RunsFollow ==
    \A r \in Runs :
       /\ Wrote(r) => Wrote(r)'
       /\ Written(r) => Written(r)'
       /\ Airflow \/ run'[r].kind \in {run[r].kind, "staging", "manual", "reimport"}

\* An import names a table, a publication is about a run that succeeded.
RequestsFollow ==
    \A h \in Handlers :
       /\ req'[h].op = "import" => req'[h] = req[h] \/ req'[h].final_table_name # 0
       /\ req'[h].op = "publish" =>
             \/ req'[h] = req[h]
             \/ \E r \in Runs : /\ req'[h].run = r
                                /\ run[r].kind \in ProcessKinds /\ run[r].step = "success"

\* A retrieval date is one the row had, that of a publication, or of no run.
RowsFollow ==
    \A l \in Links : Live(l)' =>
       \/ Live(l) /\ row'[l].last_retrieval = row[l].last_retrieval
       \/ row'[l].last_retrieval \in {0, Imported}
       \/ \E h \in Handlers : /\ req[h].op = "publish"
                              /\ row'[l].last_retrieval = req[h].run

DagsFollow == Airflow \/ \A l \in Links : dag'[l] \in {dag[l], NoDag}

Follow == RunsFollow /\ RequestsFollow /\ RowsFollow /\ DagsFollow

\* Whatever does not change follows.
LEMMA SameFollow ==
    ASSUME UNCHANGED task_executor
    PROVE  /\ UNCHANGED run => RunsFollow
           /\ UNCHANGED req => RequestsFollow
           /\ UNCHANGED row => RowsFollow
           /\ UNCHANGED dag => DagsFollow
  BY DEF RunsFollow, RequestsFollow, RowsFollow, DagsFollow, Wrote, Written, Airflow,
         re_ingests, Live

\* Runs that only move from task to task, once rows are written where that matters.
LEMMA GotoFollow ==
    ASSUME WellFormed, UNCHANGED task_executor, NEW r \in Runs, NEW step,
           run' = Goto(r, step),
           step \in {"clean", "success"} /\ run[r].kind \in ProcessKinds /\ Written(r)
              => Wrote(r)
    PROVE  RunsFollow
  <1>1. run \in [Runs -> DagRun]
    BY DEF WellFormed, TypeOK
  <1>2. ASSUME NEW s \in Runs
        PROVE  /\ run'[s].kind = run[s].kind /\ run'[s].wrote = run[s].wrote
               /\ run'[s].step = IF s = r THEN step ELSE run[s].step
    BY <1>1 DEF Goto, DagRun
  <1>3. ASSUME NEW s \in Runs
        PROVE  Wrote(s)' <=> Wrote(s)
    BY <1>2 DEF Wrote, Airflow, re_ingests
  <1> QED
    BY <1>2, <1>3 DEF RunsFollow, Written

\* Runs that are cancelled.
LEMMA CancelledFollow ==
    ASSUME WellFormed, UNCHANGED task_executor, NEW S, run' = Cancelled(S)
    PROVE  RunsFollow
  <1>1. run \in [Runs -> DagRun]
    BY DEF WellFormed, TypeOK
  <1>2. ASSUME NEW s \in Runs
        PROVE  /\ run'[s].kind = run[s].kind /\ run'[s].wrote = run[s].wrote
               /\ run'[s].step \in {run[s].step, "cancelled"}
    BY <1>1 DEF Cancelled, DagRun
  <1>3. ASSUME NEW s \in Runs
        PROVE  Wrote(s)' <=> Wrote(s)
    BY <1>2 DEF Wrote, Airflow, re_ingests
  <1> QED
    BY <1>2, <1>3 DEF RunsFollow, Written

\* A run that writes its rows.
LEMMA WritesFollow ==
    ASSUME WellFormed, UNCHANGED task_executor, NEW r \in Runs,
           run' = [run EXCEPT ![r] = [@ EXCEPT !.step = "clean", !.wrote = TRUE]]
    PROVE  RunsFollow
  <1>1. run \in [Runs -> DagRun]
    BY DEF WellFormed, TypeOK
  <1>2. ASSUME NEW s \in Runs
        PROVE  /\ run'[s].kind = run[s].kind
               /\ IF s = r THEN run'[s].wrote ELSE run'[s] = run[s]
    BY <1>1 DEF DagRun
  <1>3. ASSUME NEW s \in Runs
        PROVE  /\ Wrote(s) => Wrote(s)'
               /\ s = r => Wrote(s)'
               /\ s # r => (Wrote(s)' <=> Wrote(s))
    BY <1>2 DEF Wrote, Airflow, re_ingests
  <1> QED
    BY <1>2, <1>3 DEF RunsFollow, Written

\* A new run.
LEMMA NewRunFollow ==
    ASSUME WellFormed, UNCHANGED task_executor, NEW conf,
           run' = [run EXCEPT ![lastRun + 1] = conf],
           conf.step \notin {"clean", "success"},
           Airflow \/ conf.kind \in {"staging", "manual", "reimport"}
    PROVE  RunsFollow
  <1>1. run \in [Runs -> DagRun] /\ lastRun \in 0..MaxRuns
        /\ \A r \in Runs : r > lastRun => run[r] = NoRun
    BY DEF WellFormed, TypeOK
  <1>2. ASSUME NEW s \in Runs, s # lastRun + 1
        PROVE  run'[s] = run[s]
    BY <1>1, <1>2
  <1>3. ASSUME lastRun + 1 \in Runs
        PROVE  run'[lastRun + 1] = conf /\ ~Wrote(lastRun + 1)
    BY <1>1, <1>3, ConstantsAssumption DEF Runs, Wrote, NoRun, re_ingests
  <1>4. ASSUME NEW s \in Runs, s # lastRun + 1
        PROVE  Wrote(s)' <=> Wrote(s)
    BY <1>2, <1>4 DEF Wrote, Airflow, re_ingests
  <1> QED
    BY <1>2, <1>3, <1>4 DEF RunsFollow, Written

\* A triggered run.
LEMMA TriggerFollow ==
    ASSUME WellFormed, UNCHANGED task_executor, NEW conf, Trigger(conf),
           conf.step \notin {"clean", "success"},
           conf.kind \in {"staging", "manual", "reimport"}
    PROVE  RunsFollow
  BY NewRunFollow, SameFollow DEF Trigger

\* A request that neither publishes nor imports, or that names the table it imports.
LEMMA RequestFollow ==
    ASSUME WellFormed, NEW h \in Handlers, NEW q, req' = [req EXCEPT ![h] = q],
           q.op # "publish", q.op = "import" => q.final_table_name # 0
    PROVE  RequestsFollow
  <1>1. \A k \in Handlers : req'[k] = IF k = h THEN q ELSE req[k]
    BY DEF WellFormed, TypeOK
  <1> QED
    BY <1>1 DEF RequestsFollow

\* A handler that goes idle.
LEMMA IdleFollow ==
    ASSUME WellFormed, NEW h \in Handlers, req' = [req EXCEPT ![h] = Idle]
    PROVE  RequestsFollow
  <1>1. Idle.op = "idle"
    BY DEF Idle
  <1> QED
    BY <1>1, RequestFollow

\* One row that changes, and keeps its retrieval date or has none.
LEMMA RowFollow ==
    ASSUME WellFormed, NEW l, NEW x, row' = [row EXCEPT ![l] = x],
           l \in Links /\ x.state = "live" =>
              \/ Live(l) /\ x.last_retrieval = row[l].last_retrieval
              \/ x.last_retrieval \in {0, Imported}
    PROVE  RowsFollow
  BY DEF WellFormed, TypeOK, RowsFollow, Live

-----------------------------------------------------------------------------
(* Each part of the platform follows. *)

\* The staging routes.
LEMMA StagingFollow ==
    ASSUME WellFormed, StagingNext, UNCHANGED task_executor
    PROVE  Follow
  <1> USE DEF backendVars, airflowVars
  <1>1. row \in [Links -> IntegrityLink]
    BY DEF WellFormed, TypeOK
  <1>2. ASSUME NEW l, NEW u, NEW isFile, Trigger(StagingRun(l, u, isFile))
        PROVE  RunsFollow
    <2>1. StagingRun(l, u, isFile).kind = "staging" /\ StagingRun(l, u, isFile).step = "ingest"
      BY DEF StagingRun, NoRun
    <2> QED
      BY <1>2, <2>1, TriggerFollow
  <1>3. ASSUME NEW l \in Links, NEW isFile \in BOOLEAN, submit_staging(l, isFile)
        PROVE  Follow
    <2> DEFINE x == [Blank EXCEPT !.state = "live", !.staging_table_name = lastUpload + 1,
                                  !.is_file = isFile]
    <2>1. x.last_retrieval = 0
      BY DEF Blank
    <2>2. row' = [row EXCEPT ![l] = x] /\ UNCHANGED <<req, dag>>
      BY <1>3 DEF submit_staging
    <2> HIDE DEF x
    <2>3. RowsFollow
      BY <2>1, <2>2, RowFollow
    <2>4. RunsFollow
      BY <1>2, <1>3 DEF submit_staging
    <2> QED
      BY <2>2, <2>3, <2>4, SameFollow DEF Follow
  <1>4. ASSUME NEW h \in Handlers, NEW l \in Links, NEW isFile \in BOOLEAN,
               edit_staging_commit(h, l, isFile)
        PROVE  Follow
    <2> DEFINE x == [row[l] EXCEPT !.staging_table_name = lastUpload + 1, !.is_file = isFile]
               q == [Idle EXCEPT !.op = "edit", !.link = l, !.upload = lastUpload + 1,
                                 !.staging_table_name = row[l].staging_table_name,
                                 !.flag = isFile]
    <2>1. x.last_retrieval = row[l].last_retrieval /\ q.op = "edit"
      BY <1>1 DEF IntegrityLink, Idle
    <2>2. /\ row' = [row EXCEPT ![l] = x] /\ req' = [req EXCEPT ![h] = q]
          /\ Live(l) /\ UNCHANGED <<run, dag>>
      BY <1>4 DEF edit_staging_commit
    <2> HIDE DEF x, q
    <2>3. RowsFollow /\ RequestsFollow
      BY <2>1, <2>2, RowFollow, RequestFollow
    <2> QED
      BY <2>2, <2>3, SameFollow DEF Follow
  <1>5. ASSUME NEW h \in Handlers, edit_staging_trigger(h)
        PROVE  Follow
    <2>1. RunsFollow /\ UNCHANGED <<row, dag>>
      BY <1>2, <1>5 DEF edit_staging_trigger
    <2>2. RequestsFollow
      BY <1>5, IdleFollow DEF edit_staging_trigger
    <2> QED
      BY <2>1, <2>2, SameFollow DEF Follow
  <1>6. ASSUME NEW r \in Runs, staging_dag_success_callback(r)
        PROVE  Follow
    <2>1. RunsFollow
      BY <1>6, GotoFollow DEF staging_dag_success_callback, CallbackCalled
    <2>2. UNCHANGED <<row, req, dag>>
      BY <1>6 DEF staging_dag_success_callback
    <2> QED
      BY <2>1, <2>2, SameFollow DEF Follow
  <1>7. ASSUME NEW h \in Handlers, NEW r \in Runs, staging_dag_failure_callback(h, r)
        PROVE  Follow
    <2>1. RunsFollow
      BY <1>7, GotoFollow DEF staging_dag_failure_callback, CallbackCalled
    <2>2. UNCHANGED <<row, dag>>
      BY <1>7 DEF staging_dag_failure_callback
    <2>3. req' = req \/ \E q : req' = [req EXCEPT ![h] = q] /\ q.op = "rollback"
      BY <1>7, FailureCallbackDecides, Parts
    <2>4. RequestsFollow
      BY <2>3, RequestFollow, SameFollow
    <2> QED
      BY <2>1, <2>2, <2>4, SameFollow DEF Follow
  <1>8. ASSUME NEW h \in Handlers, rollback_drop(h)
        PROVE  Follow
    <2>1. UNCHANGED <<row, run, dag>>
      BY <1>8 DEF rollback_drop
    <2>2. \E q : req' = [req EXCEPT ![h] = q] /\ q.op = "discard"
      BY <1>8, RollbackGoesOn, Parts
    <2>3. RequestsFollow
      BY <2>2, RequestFollow
    <2> QED
      BY <2>1, <2>3, SameFollow DEF Follow
  <1>9. ASSUME NEW h \in Handlers, rollback_commit(h)
        PROVE  Follow
    <2> DEFINE x == [Blank EXCEPT !.state = "rolled_back"]
    <2>1. RequestsFollow
      BY <1>9, IdleFollow DEF rollback_commit
    <2>2. UNCHANGED <<run, dag>> /\ (UNCHANGED row \/ row' = [row EXCEPT ![req[h].link] = x])
      BY <1>9 DEF rollback_commit
    <2>3. x.state = "rolled_back"
      BY DEF Blank
    <2> HIDE DEF x
    <2>4. RowsFollow
      BY <2>2, <2>3, RowFollow, SameFollow
    <2> QED
      BY <2>1, <2>2, <2>4, SameFollow DEF Follow
  <1> QED
    BY <1>3, <1>4, <1>5, <1>6, <1>7, <1>8, <1>9 DEF StagingNext

\* The process routes.
LEMMA ProcessFollow ==
    ASSUME WellFormed, ProcessNext, UNCHANGED task_executor
    PROVE  Follow
  <1> USE DEF backendVars, airflowVars
  <1>1. row \in [Links -> IntegrityLink]
    BY DEF WellFormed, TypeOK
  <1>2. ASSUME NEW l \in Links, remove_ingestion_dag(l)
        PROVE  RunsFollow /\ DagsFollow
    <2>1. RunsFollow
      BY <1>2, CancelledFollow, SameFollow DEF remove_ingestion_dag
    <2>2. DagsFollow
      BY <1>2 DEF remove_ingestion_dag, DagsFollow, WellFormed, TypeOK
    <2> QED
      BY <2>1, <2>2
  <1>3. ASSUME NEW h \in Handlers, NEW l \in Links, NEW recurrence \in BOOLEAN,
               process_staging_data_prepare(h, l, recurrence)
        PROVE  Follow
    <2> DEFINE q(name) == [Idle EXCEPT !.op = "process", !.link = l,
                   !.staging_table_name = row[l].staging_table_name,
                   !.final_table_name = name, !.flag = recurrence]
    <2>1. \A name : q(name).op = "process"
      BY DEF Idle
    <2>2. UNCHANGED req \/ \E name : req' = [req EXCEPT ![h] = q(name)]
      BY <1>3 DEF process_staging_data_prepare
    <2> HIDE DEF q
    <2>3. RequestsFollow
      BY <2>1, <2>2, RequestFollow, SameFollow
    <2>4. RunsFollow /\ DagsFollow /\ UNCHANGED row
      BY <1>2, <1>3, SameFollow DEF process_staging_data_prepare
    <2> QED
      BY <2>3, <2>4, SameFollow DEF Follow
  <1>4. ASSUME NEW h \in Handlers, process_staging_data_commit(h)
        PROVE  Follow
    <2> DEFINE x == [row[req[h].link] EXCEPT !.final_table_name = req[h].final_table_name,
                               !.schedule = req[h].flag, !.metadata_id = TRUE]
    <2>1. RequestsFollow /\ UNCHANGED dag
      BY <1>4, IdleFollow DEF process_staging_data_commit
    <2>2. req[h].link \in Links => x.state = row[req[h].link].state
                                   /\ x.last_retrieval = row[req[h].link].last_retrieval
      BY <1>1 DEF IntegrityLink
    <2>3. \/ row' = [row EXCEPT ![req[h].link] = x] /\ Live(req[h].link) /\ Trigger(ManualRun(h))
          \/ UNCHANGED <<row, run, lastRun>>
      BY <1>4 DEF process_staging_data_commit
    <2> HIDE DEF x
    <2>4. RowsFollow
      BY <2>2, <2>3, RowFollow, SameFollow
    <2>5. ManualRun(h).kind = "manual" /\ ManualRun(h).step \in {"drop", "transform"}
      BY DEF ManualRun, NoRun
    <2>6. RunsFollow
      BY <2>3, <2>5, TriggerFollow, SameFollow
    <2> QED
      BY <2>1, <2>4, <2>6, SameFollow DEF Follow
  <1>5. ASSUME NEW h \in Handlers, NEW r \in Runs, process_dag_success_publish(h, r)
        PROVE  Follow
    <2> DEFINE q(published) == [Idle EXCEPT !.op = "publish", !.link = run[r].link,
                   !.run = r, !.final_table_name = run[r].final_table_name,
                   !.flag = published]
    <2>1. \A published : q(published).op = "publish" /\ q(published).run = r
      BY DEF Idle
    <2>2. UNCHANGED req \/ \E published : req' = [req EXCEPT ![h] = q(published)]
      BY <1>5 DEF process_dag_success_publish
    <2>3. run[r].kind \in ProcessKinds /\ run[r].step = "success"
      BY <1>5 DEF process_dag_success_publish
    <2> HIDE DEF q
    <2>4. UNCHANGED req \/ \E y : /\ \A k \in Handlers : req'[k] = IF k = h THEN y ELSE req[k]
                                  /\ y.op = "publish" /\ y.run = r
      BY <2>1, <2>2 DEF WellFormed, TypeOK
    <2>5. RequestsFollow
      BY <2>3, <2>4 DEF RequestsFollow
    <2>6. RunsFollow /\ UNCHANGED <<row, dag>>
      BY <1>5, GotoFollow DEF process_dag_success_publish, CallbackCalled
    <2> QED
      BY <2>5, <2>6, SameFollow DEF Follow
  <1>6. ASSUME NEW h \in Handlers, process_dag_success_commit(h)
        PROVE  Follow
    <2> DEFINE x == retrieved(h)
    <2>1. RequestsFollow /\ UNCHANGED <<run, dag>>
      BY <1>6, IdleFollow DEF process_dag_success_commit
    <2>2. req[h].link \in Links => x.last_retrieval = req[h].run
      BY <1>1 DEF retrieved, IntegrityLink
    <2>3. UNCHANGED row \/ row' = [row EXCEPT ![req[h].link] = x]
      BY <1>6 DEF process_dag_success_commit
    <2>4. req[h].op = "publish"
      BY <1>6 DEF process_dag_success_commit
    <2> HIDE DEF x
    <2>5. \A l \in Links : row'[l] = row[l] \/ row'[l].last_retrieval = req[h].run
      BY <1>1, <2>2, <2>3
    <2>6. RowsFollow
      BY <2>4, <2>5 DEF RowsFollow, Live
    <2> QED
      BY <2>1, <2>6, SameFollow DEF Follow
  <1>7. ASSUME NEW r \in Runs, process_dag_failure_callback(r)
        PROVE  Follow
    <2>1. RunsFollow /\ UNCHANGED <<row, req, dag>>
      BY <1>7, GotoFollow DEF process_dag_failure_callback, CallbackCalled
    <2> QED
      BY <2>1, SameFollow DEF Follow
  <1> QED
    BY <1>3, <1>4, <1>5, <1>6, <1>7 DEF ProcessNext

\* Airflow.
LEMMA AirflowFollow ==
    ASSUME WellFormed, Airflow, AirflowNext, UNCHANGED task_executor
    PROVE  Follow
  <1> USE DEF backendVars
  <1>1. RowsFollow /\ RequestsFollow /\ DagsFollow
    <2>1. UNCHANGED <<row, req>>
      BY DEF AirflowNext, RunStep, initial_ingestion, refresh_ingestion,
          drop_previous_final_table, read_transform_write_task, clean_staging_table_task,
          callback_lost, load_scheduled_integrity_links, trigger_process_dag
    <2> QED
      BY <2>1, SameFollow DEF DagsFollow
  <1>2. ASSUME NEW r \in Runs, RunStep(r)
        PROVE  RunsFollow
    <2>1. CASE initial_ingestion(r)
      BY <2>1, GotoFollow DEF initial_ingestion, ProcessKinds
    <2>2. CASE refresh_ingestion(r)
      <3>1. Wrote(r)
        BY <2>2 DEF refresh_ingestion, Wrote
      <3> QED
        BY <2>2, <3>1, GotoFollow DEF refresh_ingestion
    <2>3. CASE drop_previous_final_table(r)
      BY <2>3, GotoFollow DEF drop_previous_final_table
    <2>4. CASE read_transform_write_task(r)
      <3>1. CASE run' = Goto(r, after_failure(r))
        <4>1. after_failure(r) = "clean" => Wrote(r)
          BY DEF after_failure, Wrote
        <4>2. after_failure(r) # "success"
          BY DEF after_failure
        <4> QED
          BY <3>1, <4>1, <4>2, GotoFollow
      <3>2. CASE run' = [run EXCEPT ![r] = [@ EXCEPT !.step = "clean", !.wrote = TRUE]]
        BY <3>2, WritesFollow
      <3> QED
        BY <2>4, <3>1, <3>2 DEF read_transform_write_task
    <2>5. CASE clean_staging_table_task(r)
      <3>1. Written(r) /\ run[r].kind \in ProcessKinds => Wrote(r)
        BY <2>5 DEF clean_staging_table_task, Written
      <3>2. run' = Goto(r, "success") \/ run' = Goto(r, "failed")
        BY <2>5 DEF clean_staging_table_task
      <3> QED
        BY <3>1, <3>2, GotoFollow
    <2> QED
      BY <1>2, <2>1, <2>2, <2>3, <2>4, <2>5 DEF RunStep
  <1>3. ASSUME NEW r \in Runs, callback_lost(r)
        PROVE  RunsFollow
    BY <1>3, GotoFollow DEF callback_lost, CallbackCalled
  <1>4. ASSUME NEW l \in Links, load_scheduled_integrity_links(l)
        PROVE  RunsFollow
    BY <1>4, SameFollow DEF load_scheduled_integrity_links
  <1>5. ASSUME NEW l \in Links, trigger_process_dag(l)
        PROVE  RunsFollow
    <2>1. ScheduledRun(l).step = "ingest"
      BY DEF ScheduledRun, NoRun
    <2> QED
      BY <1>5, <2>1, NewRunFollow DEF trigger_process_dag
  <1> QED
    BY <1>1, <1>2, <1>3, <1>4, <1>5 DEF AirflowNext, Follow

\* Deletions by users, and schedules.
LEMMA DeletionFollow ==
    ASSUME WellFormed, DeletionNext, UNCHANGED task_executor
    PROVE  Follow
  <1> USE DEF backendVars, airflowVars
  <1>1. row \in [Links -> IntegrityLink] /\ dag \in [Links -> IngestionDag]
        /\ req \in [Handlers -> Request]
    BY DEF WellFormed, TypeOK
  <1>2. ASSUME NEW l \in Links, update_schedule(l)
        PROVE  Follow
    <2> DEFINE x == [row[l] EXCEPT !.schedule = TRUE]
    <2>1. x.last_retrieval = row[l].last_retrieval
      BY <1>1 DEF IntegrityLink
    <2>2. row' = [row EXCEPT ![l] = x] /\ Live(l) /\ UNCHANGED <<run, req, dag>>
      BY <1>2 DEF update_schedule
    <2> HIDE DEF x
    <2>3. RowsFollow
      BY <2>1, <2>2, RowFollow
    <2> QED
      BY <2>2, <2>3, SameFollow DEF Follow
  <1>3. ASSUME NEW h \in Handlers, NEW l \in Links, clear_schedule(h, l)
        PROVE  Follow
    <2> DEFINE q == [Idle EXCEPT !.op = "unschedule", !.link = l]
    <2>1. q.op = "unschedule"
      BY DEF Idle
    <2>2. req' = [req EXCEPT ![h] = q] /\ UNCHANGED row /\ remove_ingestion_dag(l)
      BY <1>3 DEF clear_schedule
    <2> HIDE DEF q
    <2>3. RequestsFollow
      BY <2>1, <2>2, RequestFollow
    <2>4. RunsFollow /\ DagsFollow
      BY <1>1, <2>2, CancelledFollow, SameFollow DEF remove_ingestion_dag, DagsFollow
    <2> QED
      BY <2>2, <2>3, <2>4, SameFollow DEF Follow
  <1>4. ASSUME NEW h \in Handlers, clear_schedule_commit(h)
        PROVE  Follow
    <2> DEFINE x == [row[req[h].link] EXCEPT !.schedule = FALSE]
    <2>1. RequestsFollow /\ UNCHANGED <<run, dag>>
      BY <1>4, IdleFollow DEF clear_schedule_commit
    <2>2. req[h].link \in Links => x.last_retrieval = row[req[h].link].last_retrieval
      BY <1>1 DEF IntegrityLink
    <2>3. \/ UNCHANGED row
          \/ row' = [row EXCEPT ![req[h].link].schedule = FALSE] /\ Live(req[h].link)
      BY <1>4 DEF clear_schedule_commit
    <2>4. \/ UNCHANGED row
          \/ row' = [row EXCEPT ![req[h].link] = x] /\ Live(req[h].link)
      BY <2>3
    <2> HIDE DEF x
    <2>5. RowsFollow
      BY <2>2, <2>4, RowFollow, SameFollow
    <2> QED
      BY <2>1, <2>5, SameFollow DEF Follow
  <1>5. ASSUME NEW h \in Handlers, NEW l \in Links, delete_dataset_cancel(h, l)
        PROVE  Follow
    <2> DEFINE q == [Idle EXCEPT !.op = "delete", !.link = l,
                        !.staging_table_name = row[l].staging_table_name,
                        !.final_table_name = row[l].final_table_name,
                        !.flag = row[l].metadata_id]
    <2>1. q.op = "delete"
      BY DEF Idle
    <2>2. (UNCHANGED req \/ req' = [req EXCEPT ![h] = q]) /\ UNCHANGED row
      BY <1>5 DEF delete_dataset_cancel
    <2> HIDE DEF q
    <2>3. RequestsFollow
      BY <2>1, <2>2, RequestFollow, SameFollow
    <2>4. RunsFollow /\ DagsFollow
      BY <1>1, <1>5, CancelledFollow, SameFollow DEF delete_dataset_cancel, DagsFollow
    <2> QED
      BY <2>2, <2>3, <2>4, SameFollow DEF Follow
  <1>6. ASSUME NEW h \in Handlers, delete_dataset_data(h)
        PROVE  Follow
    <2> DEFINE q == [req[h] EXCEPT !.op = "forget"]
    <2>1. q.op = "forget"
      BY <1>1 DEF Request
    <2>2. req' = [req EXCEPT ![h] = q] /\ UNCHANGED <<row, run, dag>>
      BY <1>6 DEF delete_dataset_data
    <2> HIDE DEF q
    <2> QED
      BY <2>1, <2>2, RequestFollow, SameFollow DEF Follow
  <1>7. ASSUME NEW h \in Handlers, delete_dataset_row(h)
        PROVE  Follow
    <2> DEFINE x == [Blank EXCEPT !.state = "deleted"]
    <2>1. RequestsFollow /\ RunsFollow /\ UNCHANGED dag
      BY <1>7, IdleFollow, CancelledFollow DEF delete_dataset_row
    <2>2. x.state = "deleted"
      BY DEF Blank
    <2>3. row' = [row EXCEPT ![req[h].link] = x]
      BY <1>7 DEF delete_dataset_row
    <2> HIDE DEF x
    <2>4. RowsFollow
      BY <2>2, <2>3, RowFollow
    <2> QED
      BY <2>1, <2>4, SameFollow DEF Follow
  <1> QED
    BY <1>2, <1>3, <1>4, <1>5, <1>6, <1>7 DEF DeletionNext

\* The executor inside the backend.
LEMMA LocalFollow ==
    ASSUME WellFormed, LocalNext, UNCHANGED task_executor
    PROVE  Follow
  <1> USE DEF backendVars
  <1>1. RowsFollow /\ RequestsFollow /\ DagsFollow
    <2>1. UNCHANGED <<row, req, dag>>
      BY DEF LocalNext, LocalStep, local_run_staging, local_reingest, local_drop,
             local_transform, local_clean, local_callback_lost
    <2> QED
      BY <2>1, SameFollow
  <1>2. ASSUME NEW r \in Runs, LocalStep(r)
        PROVE  RunsFollow
    <2>1. CASE local_run_staging(r)
      BY <2>1, GotoFollow DEF local_run_staging, ProcessKinds
    <2>2. CASE local_reingest(r)
      BY <2>2, GotoFollow DEF local_reingest
    <2>3. CASE local_drop(r)
      BY <2>3, GotoFollow DEF local_drop
    <2>4. CASE local_transform(r)
      BY <2>4, GotoFollow, WritesFollow DEF local_transform, no_data_to_write
    <2>5. CASE local_clean(r)
      <3>1. Written(r) /\ run[r].kind \in ProcessKinds => Wrote(r)
        BY <2>5 DEF local_clean, Written
      <3>2. run' = Goto(r, "success") \/ run' = Goto(r, "failed")
        BY <2>5 DEF local_clean
      <3> QED
        BY <3>1, <3>2, GotoFollow
    <2> QED
      BY <1>2, <2>1, <2>2, <2>3, <2>4, <2>5 DEF LocalStep
  <1>3. ASSUME NEW r \in Runs, local_callback_lost(r)
        PROVE  RunsFollow
    BY <1>3, GotoFollow DEF local_callback_lost, CallbackCalled
  <1> QED
    BY <1>1, <1>2, <1>3 DEF LocalNext, Follow

\* A restart.
LEMMA RestartFollow ==
    ASSUME WellFormed, restart, UNCHANGED task_executor
    PROVE  Follow
  <1> USE DEF backendVars
  <1>1. RunsFollow
    <2> DEFINE S == {r \in Runs : Active(r) \/ run[r].step \in {"success", "failed"}}
    <2>1. local_registry_lost = Cancelled(S)
      BY DEF local_registry_lost, Cancelled
    <2> QED
      BY <2>1, CancelledFollow, SameFollow DEF restart
  <1>2. RequestsFollow
    BY DEF restart, RequestsFollow, Idle
  <1> QED
    BY <1>1, <1>2, SameFollow DEF restart, Follow

\* The administration: an import names a table.
LEMMA AdministrationFollow ==
    ASSUME WellFormed, NEW airflow \in BOOLEAN, airflow => Airflow,
           AdministrationNext(airflow), UNCHANGED task_executor
    PROVE  Follow
  <1> USE DEF backendVars, airflowVars
  <1>1. ASSUME NEW l \in Links, copy_record(l)
        PROVE  Follow
    BY <1>1, SameFollow DEF copy_record, Follow
  <1>2. ASSUME NEW h \in Handlers, NEW l \in Links, NEW n \in Names, import_table_data(h, l, n)
        PROVE  Follow
    <2> DEFINE q == [Idle EXCEPT !.op = "restore", !.link = l, !.final_table_name = n]
    <2>1. q.op = "restore"
      BY DEF Idle
    <2>2. req' = [req EXCEPT ![h] = q] /\ UNCHANGED <<row, run, dag>>
      BY <1>2 DEF import_table_data
    <2> HIDE DEF q
    <2> QED
      BY <2>1, <2>2, RequestFollow, SameFollow DEF Follow
  <1>3. ASSUME NEW h \in Handlers, NEW l \in Links, NEW n \in Names,
               import_integrity_link(h, l, n)
        PROVE  Follow
    <2> DEFINE q(attach) == [Idle EXCEPT !.op = "import", !.link = l,
                                         !.final_table_name = n, !.flag = attach]
    <2>1. \A attach : q(attach).op = "import" /\ q(attach).final_table_name = n
      BY DEF Idle
    <2>2. (\E attach : req' = [req EXCEPT ![h] = q(attach)]) /\ UNCHANGED <<row, run, dag>>
      BY <1>3 DEF import_integrity_link, Importing
    <2>3. n # 0
      BY ConstantsAssumption DEF Names
    <2> HIDE DEF q
    <2> QED
      BY <2>1, <2>2, <2>3, RequestFollow, SameFollow DEF Follow
  <1>4. ASSUME NEW h \in Handlers, NEW l \in Links, NEW delete_layer \in BOOLEAN,
               NEW delete_metadata \in BOOLEAN,
               delete_integrity_link_admin(h, l, airflow, delete_layer, delete_metadata)
        PROVE  Follow
    <2> DEFINE q == [Idle EXCEPT !.op = IF delete_layer THEN "delete" ELSE "remove",
                        !.link = l, !.staging_table_name = row[l].staging_table_name,
                        !.final_table_name = row[l].final_table_name,
                        !.flag = delete_metadata /\ row[l].metadata_id]
    <2>1. q.op \in {"delete", "remove"}
      BY DEF Idle
    <2>2. req' = [req EXCEPT ![h] = q] /\ UNCHANGED row
      BY <1>4 DEF delete_integrity_link_admin, Deleting
    <2> HIDE DEF q
    <2>3. RequestsFollow
      BY <2>1, <2>2, RequestFollow
    <2>4. RunsFollow
      BY <1>4, CancelledFollow, SameFollow DEF delete_integrity_link_admin
    <2>5. DagsFollow
      BY <1>4 DEF delete_integrity_link_admin, DagsFollow
    <2> QED
      BY <2>2, <2>3, <2>4, <2>5, SameFollow DEF Follow
  <1> QED
    BY <1>1, <1>2, <1>3, <1>4 DEF AdministrationNext

\* The ends of these requests.
LEMMA GoesOnFollow ==
    ASSUME WellFormed, NEW airflow, AdministrationGoesOn(airflow), UNCHANGED task_executor
    PROVE  Follow
  <1> USE DEF backendVars, airflowVars
  <1> DEFINE removed == [Blank EXCEPT !.state = "removed"]
  <1>1. removed.state = "removed"
    BY DEF Blank
  <1> HIDE DEF removed
  <1>2. ASSUME NEW h \in Handlers, restore_table(h)
        PROVE  Follow
    <2>1. RequestsFollow /\ UNCHANGED <<row, run, dag>>
      BY <1>2, IdleFollow DEF restore_table
    <2> QED
      BY <2>1, SameFollow DEF Follow
  <1>3. ASSUME NEW h \in Handlers, import_integrity_link_commit(h)
        PROVE  Follow
    <2> DEFINE l == req[h].link
               n == req[h].final_table_name
    <2>1. RequestsFollow /\ UNCHANGED dag
      BY <1>3, IdleFollow DEF import_integrity_link_commit
    <2>2. \A attach, schedule :
             ImportedRow(n, attach, schedule).last_retrieval \in {0, Imported}
      BY DEF ImportedRow, Blank
    <2>3. ReimportRun(l, n).kind = "reimport" /\ ReimportRun(l, n).step = "ingest"
      BY DEF ReimportRun, NoRun
    <2>4. \/ UNCHANGED row
          \/ \E attach, schedule : row' = [row EXCEPT ![l] = ImportedRow(n, attach, schedule)]
          \/ row' = [row EXCEPT ![l] = removed]
      BY <1>3 DEF import_integrity_link_commit, removed
    <2>5. UNCHANGED run \/ Trigger(ReimportRun(l, n))
      BY <1>3 DEF import_integrity_link_commit
    <2> HIDE DEF l, n
    <2>6. RowsFollow
      BY <1>1, <2>2, <2>4, RowFollow, SameFollow
    <2>7. RunsFollow
      BY <2>3, <2>5, TriggerFollow, SameFollow
    <2> QED
      BY <2>1, <2>6, <2>7, SameFollow DEF Follow
  <1>4. ASSUME NEW h \in Handlers, remove_dataset(h, airflow)
        PROVE  Follow
    <2>1. RequestsFollow /\ RunsFollow /\ UNCHANGED dag
      BY <1>4, IdleFollow, CancelledFollow, SameFollow DEF remove_dataset
    <2>2. row' = [row EXCEPT ![req[h].link] = removed]
      BY <1>4 DEF remove_dataset, removed
    <2>3. RowsFollow
      BY <1>1, <2>2, RowFollow
    <2> QED
      BY <2>1, <2>3, SameFollow DEF Follow
  <1> QED
    BY <1>2, <1>3, <1>4 DEF AdministrationGoesOn

-----------------------------------------------------------------------------
(* The theorems *)

\* The steps of the platform are those of its parts.
LEMMA PlatformParts ==
    ASSUME PlatformNext
    PROVE  /\ UNCHANGED task_executor
           /\ \/ Airflow /\ Next
              \/ StagingNext \/ ProcessNext \/ DeletionNext
              \/ Local /\ LocalNext
              \/ AdministrationNext(Airflow) \/ AdministrationGoesOn(Airflow)
              \/ restart
  BY DEF PlatformNext, AirflowPlatform, LocalPlatform, ThreadGoesOn, Administration,
         StagingNext, ProcessNext, DeletionNext

\* Every one of them follows.
LEMMA PlatformFollow ==
    ASSUME WellFormed, [PlatformNext]_platformVars
    PROVE  Follow
  <1>1. CASE UNCHANGED platformVars
    BY <1>1, SameFollow DEF platformVars, vars, Follow
  <1>2. CASE PlatformNext
    <2>1. Airflow \in BOOLEAN
      BY DEF Airflow
    <2> QED
      BY <1>2, <2>1, PlatformParts, StagingFollow, ProcessFollow, AirflowFollow,
         DeletionFollow, LocalFollow, AdministrationFollow, GoesOnFollow, RestartFollow
      DEF Next
  <1> QED
    BY <1>1, <1>2

\* And keeps PlatformInv.
LEMMA PlatformStep == PlatformInv /\ [PlatformNext]_platformVars => PlatformInv'
  <1> SUFFICES ASSUME PlatformInv, [PlatformNext]_platformVars
               PROVE  PlatformInv'
    OBVIOUS
  <1>1. WellFormed /\ Follow
    BY PlatformFollow DEF PlatformInv, PlatformWellFormed
  <1>2. WellFormed'
    <2>1. CASE UNCHANGED platformVars
      BY <1>1, <2>1 DEF platformVars, vars, WellFormed, TypeOK
    <2>2. CASE PlatformNext
      <3>1. Airflow \in BOOLEAN
        BY DEF Airflow
      <3>2. \A h \in Handlers : req[h].op = "import" => req[h].final_table_name # 0
        BY DEF PlatformInv
      <3> QED
        BY <1>1, <2>2, <3>1, <3>2, PlatformParts, StagingWellFormed, ProcessWellFormed,
           AirflowWellFormed, DeletionWellFormed, LocalWellFormed,
           AdministrationWellFormed, GoesOnWellFormed, RestartWellFormed
        DEF Next
    <2> QED
      BY <2>1, <2>2
  <1>3. UNCHANGED task_executor
    BY DEF PlatformNext, platformVars
  <1>4. Local' => \A l \in Links, r \in Runs : dag'[l] = NoDag /\ run'[r].kind # "scheduled"
    BY <1>1, <1>3 DEF PlatformInv, PlatformWellFormed, Follow, RunsFollow, DagsFollow,
                      Local, Airflow
  <1>5. \A h \in Handlers : req'[h].op = "import" => req'[h].final_table_name # 0
    BY <1>1 DEF PlatformInv, Follow, RequestsFollow
  <1> QED
    BY <1>2, <1>3, <1>4, <1>5 DEF PlatformInv, PlatformWellFormed

\* From the beginning on.
LEMMA PlatformInvAlways == PlatformSpec => []PlatformInv
  <1>1. PlatformInit => PlatformInv
    BY InitWellFormed DEF PlatformInit, PlatformInv, PlatformWellFormed, Init, NoRun, Idle
  <1> QED
    BY <1>1, PlatformStep, PTL DEF PlatformSpec

\* The types of the lifecycle hold of the whole platform with either executor, and
\* without Airflow nothing is scheduled (PlatformWellFormed, local_executor.py).
THEOREM PlatformWellFormedAlways == PlatformSpec => []PlatformWellFormed
  <1>1. PlatformInv => PlatformWellFormed
    BY DEF PlatformInv
  <1> QED
    BY <1>1, PlatformInvAlways, PTL

\* RetrievedWasWritten made inductive: so does a request that publishes a run.
RetrievedInv ==
    /\ \A r \in Runs : Written(r)
    /\ \A h \in Handlers : req[h].op = "publish" => req[h].run \in Runs /\ Wrote(req[h].run)
    /\ RetrievedWasWritten

\* The retrieval date of a dataset is that of a run that wrote its rows, or of a refresh
\* by Airflow, with either executor and through restarts, imports, lost callbacks and
\* deletions (RetrievedWasWritten; process.py dag_success_callback).
THEOREM RetrievedWasWrittenAlways == PlatformSpec => []RetrievedWasWritten
  <1>1. PlatformInit => RetrievedInv
    BY DEF PlatformInit, Init, RetrievedInv, RetrievedWasWritten, Written, NoRun, Idle,
           Blank, Live, ProcessKinds
  <1>2. ASSUME PlatformWellFormed, RetrievedInv, [PlatformNext]_platformVars
        PROVE  RetrievedInv'
    <2>1. WellFormed /\ Follow
      BY <1>2, PlatformFollow DEF PlatformWellFormed
    <2>2. ASSUME NEW r \in Runs
          PROVE  (Wrote(r) => Wrote(r)') /\ Written(r)'
      BY <1>2, <2>1 DEF RetrievedInv, Follow, RunsFollow
    <2>3. ASSUME NEW h \in Handlers, req'[h].op = "publish"
          PROVE  \E r \in Runs : req'[h].run = r /\ Wrote(r)'
      <3>1. CASE req'[h] = req[h]
        BY <1>2, <2>2, <2>3, <3>1 DEF RetrievedInv
      <3>2. ASSUME NEW r \in Runs, req'[h].run = r,
                   run[r].kind \in ProcessKinds, run[r].step = "success"
            PROVE  Wrote(r)'
        BY <1>2, <2>2, <3>2 DEF RetrievedInv, Written
      <3> QED
        BY <2>1, <2>3, <3>1, <3>2 DEF Follow, RequestsFollow
    <2>4. 0 \notin Runs /\ Imported \notin Runs
      BY ConstantsAssumption DEF Runs, Imported
    <2>5. ASSUME NEW l \in Links, Live(l)', NEW r \in Runs, row'[l].last_retrieval = r
          PROVE  Wrote(r)'
      <3>1. CASE Live(l) /\ row'[l].last_retrieval = row[l].last_retrieval
        BY <1>2, <2>2, <2>5, <3>1 DEF RetrievedInv, RetrievedWasWritten, Wrote
      <3>2. ASSUME NEW h \in Handlers, req[h].op = "publish", r = req[h].run
            PROVE  Wrote(r)'
        BY <1>2, <2>2, <3>2 DEF RetrievedInv
      <3> QED
        BY <2>1, <2>4, <2>5, <3>1, <3>2 DEF Follow, RowsFollow
    <2> QED
      BY <2>2, <2>3, <2>5 DEF RetrievedInv, RetrievedWasWritten, Wrote, Airflow, re_ingests
  <1>3. RetrievedInv => RetrievedWasWritten
    BY DEF RetrievedInv
  <1> QED
    BY <1>1, <1>2, <1>3, PlatformWellFormedAlways, PTL DEF PlatformSpec

\* When clean_staging_table_task never raises, no refresh by Airflow leaves its temp_
\* table, although administrators import and delete datasets and the backend restarts
\* meanwhile (RefreshCleansUp; transformation.py clean_on_failure).
THEOREM RefreshCleansUpAlways ==
    ASSUME "cleanup" \notin Faults
    PROVE  PlatformSpec => []RefreshCleansUp
  <1> DEFINE Cleaned == Airflow => TempInv
  <1>1. PlatformInit => Cleaned
    BY DEF PlatformInit, Init, TempInv
  <1>2. ASSUME PlatformWellFormed, Cleaned, [PlatformNext]_platformVars
        PROVE  Cleaned'
    <2> SUFFICES ASSUME Airflow'
                 PROVE  TempInv'
      OBVIOUS
    <2> USE DEF pgVars, airflowVars
    <2>1. UNCHANGED task_executor
      BY <1>2 DEF PlatformNext, platformVars
    <2>2. Airflow /\ WellFormed /\ TempInv
      BY <1>2, <2>1 DEF Airflow, PlatformWellFormed
    <2>3. ~Local
      BY <2>2 DEF Airflow, Local
    <2>4. CASE [Next]_vars
      BY <2>2, <2>4, TempStep
    <2>5. CASE UNCHANGED <<run, temp>>
      BY <2>2, <2>5 DEF TempInv, re_ingests
    <2>6. CASE AdministrationNext(Airflow)
      <3>1. ASSUME NEW h \in Handlers, NEW l \in Links, NEW delete_layer \in BOOLEAN,
                   NEW delete_metadata \in BOOLEAN,
                   delete_integrity_link_admin(h, l, Airflow, delete_layer, delete_metadata)
            PROVE  UNCHANGED temp /\ (UNCHANGED run \/ run' = Cancelled(runs_to_cancel(l)))
        BY <3>1 DEF delete_integrity_link_admin
      <3>2. UNCHANGED temp /\ (UNCHANGED run \/ \E S : run' = Cancelled(S))
        BY <2>6, <3>1 DEF AdministrationNext, copy_record, import_table_data,
           import_integrity_link
      <3> QED
        BY <2>2, <2>5, <3>2, CancelledTemp
    <2>7. CASE AdministrationGoesOn(Airflow)
      <3>1. ASSUME NEW h \in Handlers, import_integrity_link_commit(h)
            PROVE  TempInv'
        <4>1. UNCHANGED temp /\ (UNCHANGED run \/ \E conf : Trigger(conf))
          BY <3>1 DEF import_integrity_link_commit
        <4> QED
          BY <2>2, <2>5, <4>1, TriggerTemp
      <3>2. ASSUME NEW h \in Handlers, restore_table(h)
            PROVE  TempInv'
        BY <2>5, <3>2 DEF restore_table
      <3>3. ASSUME NEW h \in Handlers, remove_dataset(h, Airflow)
            PROVE  TempInv'
        <4>1. UNCHANGED temp /\ (UNCHANGED run \/ \E S : run' = Cancelled(S))
          BY <3>3 DEF remove_dataset
        <4> QED
          BY <2>2, <2>5, <4>1, CancelledTemp
      <3> QED
        BY <2>7, <3>1, <3>2, <3>3 DEF AdministrationGoesOn
    <2>8. CASE restart
      BY <2>3, <2>5, <2>8 DEF restart
    <2>9. CASE UNCHANGED platformVars
      BY <2>4, <2>9 DEF platformVars
    <2> QED
      BY <1>2, <2>3, <2>4, <2>6, <2>7, <2>8, <2>9
      DEF PlatformNext, AirflowPlatform, LocalPlatform, LocalFree, Administration
  <1>3. Cleaned => RefreshCleansUp
    BY DEF TempInv, RefreshCleansUp, NoTempLeak
  <1> QED
    BY <1>1, <1>2, <1>3, PlatformWellFormedAlways, PTL DEF PlatformSpec

-----------------------------------------------------------------------------
(* Settled users on the platform, without schedules: what holds of the lifecycle by *)
(* steps about one dataset each holds with the other executor, the administration   *)
(* and restarts too.                                                                *)

SettledInv == Calm /\ NameInv

\* A step that moves requests aside, between none and an import.
LEMMA AsideKeeps ==
    ASSUME SettledInv, WellFormed', UNCHANGED <<row, run, dag>>,
           \A h \in Handlers :
               req'[h] = req[h] \/ (req[h].op \in NotHere /\ req'[h].op \in NotHere)
    PROVE  SettledInv' /\ \A h \in Handlers, l \in Links : Asks(h, l)' <=> Asks(h, l)
  <1>1. \A h \in Handlers : req[h].op = "publish" => req[h].run \in Runs
    BY Parts, ConstantsAssumption
    DEF SettledInv, Calm, RequestsInv, Request, RequestWellFormed, Runs
  <1>2. ASSUME NEW h \in Handlers, NEW l \in Links
        PROVE  /\ ReqOn(h, l)' => ReqOn(h, l)
               /\ Asks(h, l)' = Asks(h, l)
               /\ Asks(h, l) => req'[h] = req[h]
    BY <1>1 DEF ReqOn, Asks, NotHere
  <1>3. ASSUME NEW r \in Runs, NEW l \in Links
        PROVE  (RunOn(r, l)' => RunOn(r, l)) /\ (Works(r, l)' => Works(r, l))
    BY DEF RunOn, Works, Busy
  <1>4. \A l \in Links : Live(l) => Live(l)'
    BY DEF Live
  <1>5. OneAtATime'
    BY <1>2, <1>3, <1>4 DEF SettledInv, Calm, OneAtATime, Alone, Free
  <1>6. NoSchedule'
    <2>1. \A h \in Handlers :
             req'[h] = req[h] \/ req'[h].op \notin {"process", "unschedule"}
      BY DEF NotHere
    <2> QED
      BY <2>1 DEF SettledInv, Calm, NoSchedule
  <1>7. NameInv'
    BY <1>2, <1>3 DEF SettledInv, NameInv, NamesOf
  <1> QED
    BY <1>2, <1>5, <1>6, <1>7 DEF SettledInv, Calm

\* A task of a run in the backend: the run goes on, or ends.
LEMMA LocalStepEffect ==
    ASSUME WellFormed, NEW r \in Runs, LocalStep(r)
    PROVE  /\ \A s \in Runs : SameConf(s) /\ (s # r => run'[s].step = run[s].step)
           /\ Busy(r) /\ Busy(r)'
           /\ UNCHANGED <<backendVars, catalogVars, dag, req>>
           /\ \/ UNCHANGED owner
              \/ /\ run[r].step \in {"drop", "transform"}
                 /\ \E x \in {run[r].link, NoLink} :
                       /\ owner' = [owner EXCEPT ![run[r].final_table_name] = x]
                       /\ x = NoLink => run[r].step = "drop"
  <1>1. \/ \E step \in TaskSteps \cup {"success", "failed"} : run' = Goto(r, step)
        \/ run' = [run EXCEPT ![r] = [@ EXCEPT !.step = "clean", !.wrote = TRUE]]
    BY DEF LocalStep, local_run_staging, local_reingest, local_drop, local_transform,
           local_clean, no_data_to_write, TaskSteps
  <1>2. run[r].step \in TaskSteps /\ UNCHANGED <<backendVars, catalogVars, dag, req>>
    BY DEF LocalStep, local_run_staging, local_reingest, local_drop, local_transform,
           local_clean, TaskSteps
  <1>3. \A s \in Runs : SameConf(s) /\ (s # r => run'[s].step = run[s].step)
    BY <1>1, Parts, GotoEffect, WroteEffect
  <1>4. run'[r].step \in TaskSteps \cup {"success", "failed"}
    BY <1>1, Parts, GotoEffect, WroteEffect DEF TaskSteps
  <1>5. run[r].step = "transform" => run[r].link # NoLink
    BY Parts, ConstantsAssumption DEF RunsInv, RunWellFormed, NoRun
  <1>6. \/ UNCHANGED owner
        \/ /\ run[r].step \in {"drop", "transform"}
           /\ \E x \in {run[r].link, NoLink} :
                 /\ owner' = [owner EXCEPT ![run[r].final_table_name] = x]
                 /\ x = NoLink => run[r].step = "drop"
    BY <1>5 DEF LocalStep, local_run_staging, local_reingest, local_drop, local_transform,
                local_clean
  <1> QED
    BY <1>2, <1>3, <1>4, <1>6 DEF Busy

\* Runs that only go on or end keep it.
LEMMA GoOnKeeps ==
    ASSUME SettledInv, WellFormed', RunsGoOn, UNCHANGED <<row, dag, req>>
    PROVE  SettledInv'
  <1>1. OneAtATime'
    BY RunsGoOnAlone DEF SettledInv, Calm, Live
  <1>2. NoSchedule'
    BY DEF SettledInv, Calm, NoSchedule, RunsGoOn, SameConf
  <1>3. NameInv'
    BY DEF SettledInv, NameInv, NamesOf, Asks, Works, RunsGoOn, SameConf
  <1> QED
    BY <1>1, <1>2, <1>3 DEF SettledInv, Calm

\* Runs in the backend keep it.
LEMMA LocalKeeps ==
    ASSUME SettledInv, WellFormed', LocalNext
    PROVE  SettledInv'
  <1>1. ASSUME NEW r \in Runs, LocalStep(r)
        PROVE  SettledInv'
    <2>1. RunsGoOn
      BY <1>1, LocalStepEffect DEF SettledInv, Calm, RunsGoOn, Busy, SameConf
    <2> QED
      BY <1>1, <2>1, LocalStepEffect, GoOnKeeps DEF SettledInv, Calm, backendVars
  <1>2. ASSUME NEW r \in Runs, local_callback_lost(r)
        PROVE  SettledInv'
    <2>1. RunsGoOn
      BY <1>2, GotoEffect, Parts
      DEF SettledInv, Calm, RunsGoOn, Busy, local_callback_lost, CallbackCalled, TaskSteps
    <2> QED
      BY <1>2, <2>1, GoOnKeeps DEF local_callback_lost, backendVars
  <1> QED
    BY <1>1, <1>2 DEF LocalNext

\* A restart ends requests, and with the local executor runs.
LEMMA RestartKeeps ==
    ASSUME SettledInv, WellFormed', restart
    PROVE  SettledInv'
  <1>1. RunsGoOn /\ UNCHANGED <<row, dag>>
    <2>1. CASE run' = local_registry_lost
      BY <2>1, Parts
      DEF restart, local_registry_lost, RunsGoOn, SameConf, Busy, TaskSteps, SettledInv,
          Calm, RunsInv, DagRun, backendVars
    <2>2. CASE UNCHANGED run
      BY <2>2 DEF restart, RunsGoOn, SameConf, Busy, backendVars
    <2> QED
      BY <2>1, <2>2 DEF restart
  <1>2. \A h \in Handlers : req'[h] = Idle /\ Idle.op = "idle"
    BY DEF restart, Idle
  <1>3. \A h \in Handlers, l \in Links : ~ReqOn(h, l)' /\ ~Asks(h, l)'
    BY <1>2 DEF ReqOn, Asks, NotHere
  <1>4. \A r \in Runs, l \in Links : /\ RunOn(r, l)' => RunOn(r, l)
                                     /\ Works(r, l)' => Works(r, l) /\ SameConf(r)
    BY <1>1 DEF RunsGoOn, SameConf, RunOn, Works
  <1>5. OneAtATime'
    BY <1>1, <1>3, <1>4 DEF SettledInv, Calm, OneAtATime, Alone, Free, Live
  <1>6. NoSchedule'
    BY <1>1, <1>2 DEF SettledInv, Calm, NoSchedule, RunsGoOn, SameConf
  <1>7. NameInv'
    BY <1>1, <1>3, <1>4 DEF SettledInv, NameInv, NamesOf, SameConf
  <1> QED
    BY <1>5, <1>6, <1>7 DEF SettledInv, Calm

\* A step about one dataset keeps OneAtATime if that dataset keeps to it.
LEMMA AloneStep ==
    ASSUME Calm, NEW l \in Links, OnlyOn(l),
           \A g, k \in Handlers : Asks(g, l)' /\ Asks(k, l)' => g = k,
           \A r, s \in Runs : Works(r, l)' /\ Works(s, l)' => r = s,
           \A h \in Handlers, r \in Runs : ~(Asks(h, l)' /\ Works(r, l)'),
           \/ Live(l)'
           \/ (\A h \in Handlers : ~Asks(h, l)') /\ (\A r \in Runs : ~Works(r, l)')
    PROVE  OneAtATime'
  <1>1. ASSUME NEW m \in Links
        PROVE  /\ \A g, k \in Handlers : Asks(g, m)' /\ Asks(k, m)' => g = k
               /\ \A r, s \in Runs : Works(r, m)' /\ Works(s, m)' => r = s
               /\ \A h \in Handlers, r \in Runs : ~(Asks(h, m)' /\ Works(r, m)')
               /\ \/ Live(m)'
                  \/ (\A h \in Handlers : ~Asks(h, m)') /\ (\A r \in Runs : ~Works(r, m)')
    <2>1. CASE m = l
      BY <2>1
    <2>2. CASE m # l
      <3>1. Live(m) => Live(m)'
        BY <2>2 DEF OnlyOn, Live
      <3>2. /\ \A h \in Handlers : Asks(h, m)' => Asks(h, m)
            /\ \A r \in Runs : Works(r, m)' => Works(r, m)
        BY <2>2 DEF OnlyOn
      <3>3. /\ \A h, g \in Handlers : Asks(h, m) /\ Asks(g, m) => h = g
            /\ \A r, s \in Runs : Works(r, m) /\ Works(s, m) => r = s
            /\ \A h \in Handlers, r \in Runs : ~(Asks(h, m) /\ Works(r, m))
        BY CalmAlone
      <3>4. ~Live(m) => (\A h \in Handlers : ~Asks(h, m)) /\ (\A r \in Runs : ~Works(r, m))
        BY CalmAlone DEF Quiet
      <3>5. \/ Live(m)'
            \/ (\A h \in Handlers : ~Asks(h, m)') /\ (\A r \in Runs : ~Works(r, m)')
        BY <3>1, <3>2, <3>4
      <3> QED
        BY <3>2, <3>3, <3>5
    <2> QED
      BY <2>1, <2>2
  <1>2. ASSUME NEW m \in Links
        PROVE  /\ \A h \in Handlers : ReqOn(h, m)' => Asks(h, m)'
               /\ \A r \in Runs : RunOn(r, m)' => Works(r, m)'
    BY DEF ReqOn, Asks, RunOn, Works
  <1>3. ASSUME NEW m \in Links
        PROVE  Alone(m)'
    BY <1>1, <1>2 DEF Alone, Free
  <1> QED
    BY <1>3 DEF OneAtATime

\* DELETE by an administrator: as by the owner, unless the layer is kept.
LEMMA AdminDeleteEffect ==
    ASSUME Clients = "settled", Calm, NEW h \in Handlers, NEW l \in Links,
           NEW airflow, NEW delete_layer \in BOOLEAN, NEW delete_metadata \in BOOLEAN,
           delete_integrity_link_admin(h, l, airflow, delete_layer, delete_metadata)
    PROVE  /\ OnlyOn(l) /\ Quiet(l) /\ Live(l) /\ CanStart(h)
           /\ \A r \in Runs : ~Works(r, l)' /\ SameConf(r)
           /\ \A g \in Handlers : Asks(g, l)' <=> g = h
           /\ \A g \in Handlers \ {h} : req'[g] = req[g]
           /\ req'[h].op \in {"delete", "remove"}
           /\ req'[h].staging_table_name = row[l].staging_table_name
           /\ req'[h].final_table_name = row[l].final_table_name
           /\ UNCHANGED <<row, owner, layers>>
           /\ \A m \in Links : dag[m] = NoDag => dag'[m] = NoDag
  <1>1. /\ Quiet(l) /\ Live(l) /\ CanStart(h) /\ req[h].op = "idle"
        /\ UNCHANGED <<row, owner, layers>>
    BY MayActQuiet
    DEF delete_integrity_link_admin, CanStart, pgVars, catalogVars, backendVars
  <1>2. \A r \in Runs : SameConf(r) /\ run'[r].step = run[r].step
    <2>1. Unfinished(l) = {}
      BY <1>1 DEF Quiet, Works, Busy, Unfinished, Active
    <2>2. UNCHANGED run \/ run' = Cancelled(Unfinished(l))
      BY DEF delete_integrity_link_admin, runs_to_cancel
    <2> QED
      BY <2>1, <2>2, Parts, CancelledEffect DEF Calm, SameConf
  <1>3. \A r \in Runs : ~Works(r, l)'
    BY <1>1, <1>2 DEF Quiet, Works, Busy, SameConf
  <1>4. PICK q : /\ req' = [req EXCEPT ![h] = q] /\ q.op \in {"delete", "remove"}
                 /\ q.link = l /\ q.staging_table_name = row[l].staging_table_name
                 /\ q.final_table_name = row[l].final_table_name
    <2> DEFINE q == [Idle EXCEPT !.op = IF delete_layer THEN "delete" ELSE "remove",
                        !.link = l, !.staging_table_name = row[l].staging_table_name,
                        !.final_table_name = row[l].final_table_name,
                        !.flag = delete_metadata /\ row[l].metadata_id]
    <2>1. /\ q.op \in {"delete", "remove"} /\ q.link = l
          /\ q.staging_table_name = row[l].staging_table_name
          /\ q.final_table_name = row[l].final_table_name
      BY DEF Idle
    <2>2. req' = [req EXCEPT ![h] = q]
      BY DEF delete_integrity_link_admin, Deleting
    <2> HIDE DEF q
    <2> QED
      BY <2>1, <2>2
  <1>5. req'[h] = q /\ \A g \in Handlers \ {h} : req'[g] = req[g]
    BY <1>4, Parts DEF Calm, RequestsInv
  <1>6. OnlyOn(l)
    BY <1>1, <1>2, <1>4, <1>5, OnlyOnIntro
  <1>7. \A g \in Handlers : Asks(g, l)' <=> g = h
    BY <1>1, <1>4, <1>5 DEF NotHere, Quiet, Asks
  <1>8. \A m \in Links : dag[m] = NoDag => dag'[m] = NoDag
    BY Parts DEF delete_integrity_link_admin, Calm, StoreInv
  <1> QED
    BY <1>1, <1>2, <1>3, <1>4, <1>5, <1>6, <1>7, <1>8

\* The other steps an administrator starts move requests aside.
LEMMA AdminStartEffect ==
    ASSUME Calm, NEW airflow, AdministrationNext(airflow)
    PROVE  \/ \E h \in Handlers, l \in Links, delete_layer, delete_metadata \in BOOLEAN :
                 delete_integrity_link_admin(h, l, airflow, delete_layer, delete_metadata)
           \/ \E l \in Links :
                 /\ ~Live(l)
                 /\ UNCHANGED <<row, run, dag, owner>> /\ layers \subseteq layers'
                 /\ \/ UNCHANGED req
                    \/ \E h \in Handlers :
                          /\ CanStart(h) /\ \A g \in Handlers \ {h} : req'[g] = req[g]
                          /\ req'[h].link = l
                          /\ \/ req'[h].op = "restore"
                             \/ /\ req'[h].op = "import"
                                /\ ~name_used(req'[h].final_table_name)
                                /\ req'[h].flag =>
                                      /\ owner[req'[h].final_table_name] # NoLink
                                      /\ layer(l, req'[h].final_table_name) \in layers'
  <1> USE DEF pgVars, catalogVars, airflowVars, backendVars
  <1>1. ASSUME NEW l \in Links, copy_record(l)
        PROVE  ~Live(l) /\ UNCHANGED <<row, run, dag, owner, layers, req>>
    BY <1>1 DEF copy_record, Importable, Live
  <1>2. ASSUME NEW h \in Handlers, NEW l \in Links, NEW n \in Names,
               import_table_data(h, l, n)
        PROVE  /\ ~Live(l) /\ UNCHANGED <<row, run, dag, owner, layers>>
               /\ CanStart(h) /\ \A g \in Handlers \ {h} : req'[g] = req[g]
               /\ req'[h].link = l /\ req'[h].op = "restore"
    BY <1>2, Parts DEF import_table_data, Importable, Live, Calm, RequestsInv, Idle
  <1>3. ASSUME NEW h \in Handlers, NEW l \in Links, NEW n \in Names,
               import_integrity_link(h, l, n)
        PROVE  /\ ~Live(l) /\ UNCHANGED <<row, run, dag, owner>> /\ layers \subseteq layers'
               /\ CanStart(h) /\ \A g \in Handlers \ {h} : req'[g] = req[g]
               /\ req'[h].link = l /\ req'[h].op = "import" /\ req'[h].final_table_name = n
               /\ ~name_used(n)
               /\ req'[h].flag => owner[n] # NoLink /\ layer(l, n) \in layers'
    <2>1. ASSUME NEW attach \in BOOLEAN, req' = Importing(h, l, n, attach)
          PROVE  /\ \A g \in Handlers \ {h} : req'[g] = req[g]
                 /\ req'[h].link = l /\ req'[h].op = "import"
                 /\ req'[h].final_table_name = n /\ req'[h].flag = attach
      BY <2>1, Parts DEF Importing, Calm, RequestsInv, Idle
    <2>2. \/ req' = Importing(h, l, n, TRUE) /\ owner[n] # NoLink
             /\ layers' = layers \cup {layer(l, n)}
          \/ req' = Importing(h, l, n, FALSE) /\ UNCHANGED layers
      BY <1>3 DEF import_integrity_link, Attachable, attach_layer
    <2> QED
      BY <1>3, <2>1, <2>2 DEF import_integrity_link, Importable, Live
  <1> QED
    BY <1>1, <1>2, <1>3 DEF AdministrationNext

\* What a step of the administration keeps.
LEMMA AdministrationKeeps ==
    ASSUME Clients = "settled", SettledInv, WellFormed', NEW airflow,
           AdministrationNext(airflow)
    PROVE  SettledInv'
  <1>1. Calm
    BY DEF SettledInv
  <1>2. ASSUME NEW h \in Handlers, NEW l \in Links, NEW delete_layer \in BOOLEAN,
               NEW delete_metadata \in BOOLEAN,
               delete_integrity_link_admin(h, l, airflow, delete_layer, delete_metadata)
        PROVE  SettledInv'
    <2>1. /\ OnlyOn(l) /\ Quiet(l) /\ Live(l) /\ CanStart(h)
          /\ \A r \in Runs : ~Works(r, l)' /\ SameConf(r)
          /\ \A g \in Handlers : Asks(g, l)' <=> g = h
          /\ \A g \in Handlers \ {h} : req'[g] = req[g]
          /\ req'[h].op \in {"delete", "remove"}
          /\ req'[h].staging_table_name = row[l].staging_table_name
          /\ req'[h].final_table_name = row[l].final_table_name
          /\ UNCHANGED <<row, owner, layers>>
          /\ \A m \in Links : dag[m] = NoDag => dag'[m] = NoDag
      BY <1>1, <1>2, AdminDeleteEffect, Zenon
    <2>2. OneAtATime'
      <3>1. Live(l)'
        BY <2>1 DEF Live
      <3> QED
        BY <1>1, <2>1, <3>1, AloneStep
    <2>3. NoSchedule'
      BY <1>1, <2>1 DEF Calm, NoSchedule, SameConf
    <2>4. NameInv'
      BY <2>1, OtherNames DEF SettledInv, NameInv, NamesOf
    <2> QED
      BY <2>2, <2>3, <2>4 DEF SettledInv, Calm
  <1>3. CASE /\ UNCHANGED <<row, run, dag>>
             /\ \/ UNCHANGED req
                \/ \E h \in Handlers :
                      /\ CanStart(h) /\ \A g \in Handlers \ {h} : req'[g] = req[g]
                      /\ req'[h].op \in {"restore", "import"}
    <2>1. \A h \in Handlers :
             req'[h] = req[h] \/ (req[h].op \in NotHere /\ req'[h].op \in NotHere)
      BY <1>3 DEF CanStart, NotHere
    <2> QED
      BY <1>3, <2>1, AsideKeeps
  <1> QED
    BY <1>1, <1>2, <1>3, AdminStartEffect

\* DELETE by an administrator who keeps the table and the layer: its second half.
LEMMA RemoveEffect ==
    ASSUME Calm, NEW airflow, NEW h \in Handlers, NEW l \in Links, l = req[h].link,
           remove_dataset(h, airflow)
    PROVE  /\ OnlyOn(l) /\ Asks(h, l) /\ req[h].op = "remove" /\ ~Live(l)'
           /\ \A g \in Handlers : ~Asks(g, l)'
           /\ \A r \in Runs : ~Works(r, l)' /\ SameConf(r)
           /\ row'[l].final_table_name = 0
           /\ row'[l].data_id = 0 /\ row'[l].last_retrieval = 0 /\ ~row'[l].schedule
           /\ \A g \in Handlers : req'[g] = IF g = h THEN Idle ELSE req[g]
           /\ UNCHANGED <<owner, layers, dag>>
  <1>1. /\ req[h].op = "remove" /\ UNCHANGED <<owner, layers, dag>>
        /\ \A g \in Handlers : req'[g] = IF g = h THEN Idle ELSE req[g]
    BY Parts DEF Calm, remove_dataset, RequestsInv
  <1>2. /\ ~Live(l)' /\ row'[l].final_table_name = 0
        /\ row'[l].data_id = 0 /\ row'[l].last_retrieval = 0 /\ ~row'[l].schedule
        /\ \A m \in Links \ {l} : row'[m] = row[m]
    BY Parts DEF Calm, remove_dataset, StoreInv, Blank, Live
  <1>3. Asks(h, l)
    BY <1>1 DEF NotHere, Asks
  <1>4. \A r \in Runs : SameConf(r) /\ run'[r].step = run[r].step
    <2>1. Unfinished(l) = {}
      BY <1>3, CalmAlone DEF Works, Busy, Unfinished, Active
    <2>2. UNCHANGED run \/ run' = Cancelled({})
      BY <2>1 DEF remove_dataset
    <2> QED
      BY <2>2, Parts, CancelledEffect DEF Calm, SameConf
  <1>5. /\ \A g \in Handlers : ~Asks(g, l)'
        /\ \A r \in Runs : ~Works(r, l)'
    BY <1>1, <1>3, <1>4, CalmAlone DEF NotHere, Asks, Works, Busy, Idle, SameConf
  <1>6. OnlyOn(l)
    BY <1>1, <1>2, <1>4, OnlyOnIntro DEF Idle
  <1> QED
    BY <1>1, <1>2, <1>3, <1>4, <1>5, <1>6

\* POST /import: its second half gives the dataset a row, attached to the table or with
\* the run that makes the table again, or leaves it without.
LEMMA ImportEffect ==
    ASSUME Recurring = {}, Calm, NEW h \in Handlers, NEW l \in Links, l = req[h].link, ~Live(l),
           import_integrity_link_commit(h)
    PROVE  /\ OnlyOn(l) /\ req[h].op = "import" /\ Quiet(l)
           /\ \A g \in Handlers : req'[g] = IF g = h THEN Idle ELSE req[g]
           /\ \A g \in Handlers : ~Asks(g, l)'
           /\ \A r \in Runs : \/ SameConf(r) /\ run'[r].step = run[r].step
                              \/ /\ run[r] = NoRun /\ run'[r].kind = "reimport"
                                 /\ run'[r].link = l
                                 /\ run'[r].final_table_name = req[h].final_table_name
           /\ \A r, s \in Runs : Works(r, l)' /\ Works(s, l)' => r = s
           /\ \/ ~Live(l)' /\ row'[l].data_id = 0 /\ row'[l].last_retrieval = 0
                 /\ ~row'[l].schedule /\ \A r \in Runs : ~Works(r, l)'
              \/ UNCHANGED row /\ \A r \in Runs : ~Works(r, l)'
              \/ /\ Live(l)' /\ ~name_taken(l, req[h].final_table_name)
                 /\ row'[l].final_table_name = req[h].final_table_name
                 /\ ~row'[l].schedule
                 /\ row'[l].data_id = IF req[h].flag THEN req[h].final_table_name ELSE 0
                 /\ row'[l].last_retrieval = IF req[h].flag THEN Imported ELSE 0
           /\ UNCHANGED <<owner, layers, dag>>
  <1> DEFINE n == req[h].final_table_name
  <1>1. /\ req[h].op = "import" /\ UNCHANGED <<owner, layers, dag>>
        /\ \A g \in Handlers : req'[g] = IF g = h THEN Idle ELSE req[g]
    BY Parts DEF Calm, import_integrity_link_commit, RequestsInv, pgVars, catalogVars
  <1>2. Quiet(l)
    BY CalmAlone
  <1>3. /\ \A g \in Handlers : ~Asks(g, l)'
        /\ Idle.op = "idle"
    BY <1>1, <1>2 DEF NotHere, Asks, Idle, Quiet
  <1>4. /\ ReimportRun(l, n).kind = "reimport" /\ ReimportRun(l, n).link = l
        /\ ReimportRun(l, n).final_table_name = n
    BY DEF ReimportRun, NoRun
  <1>5. UNCHANGED run \/ (lastRun < MaxRuns /\ run' = [run EXCEPT ![lastRun + 1] = ReimportRun(l, n)])
    BY DEF import_integrity_link_commit, Trigger
  <1>6. \E new \in Runs \cup {0} : \A r \in Runs :
           \/ r # new /\ SameConf(r) /\ run'[r].step = run[r].step
           \/ /\ r = new /\ run[r] = NoRun /\ run'[r].kind = "reimport"
              /\ run'[r].link = l /\ run'[r].final_table_name = n
    <2> HIDE DEF n
    <2>1. CASE UNCHANGED run
      BY <2>1, ConstantsAssumption DEF SameConf, Runs
    <2>2. CASE lastRun < MaxRuns /\ run' = [run EXCEPT ![lastRun + 1] = ReimportRun(l, n)]
      <3>1. RunsInv /\ WellFormed
        BY Parts DEF Calm
      <3>2. /\ lastRun + 1 \in Runs /\ run[lastRun + 1] = NoRun
            /\ \A r \in Runs : run'[r] = IF r = lastRun + 1 THEN ReimportRun(l, n) ELSE run[r]
        BY <2>2, <3>1, NewRunEffect
      <3> QED
        BY <1>4, <3>2 DEF SameConf
    <2> QED
      BY <1>5, <2>1, <2>2
  <1>7. \A r, s \in Runs : Works(r, l)' /\ Works(s, l)' => r = s
    BY <1>2, <1>6 DEF Quiet, Works, Busy, SameConf
  <1>8. UNCHANGED run => \A r \in Runs : ~Works(r, l)'
    BY <1>2 DEF Quiet, Works, Busy
  <1>9. /\ \A m \in Links \ {l} : row'[m] = row[m]
        /\ \/ ~Live(l)' /\ row'[l].data_id = 0 /\ row'[l].last_retrieval = 0
              /\ ~row'[l].schedule /\ UNCHANGED run
           \/ UNCHANGED <<row, run>>
           \/ /\ Live(l)' /\ ~name_taken(l, n)
              /\ row'[l].final_table_name = n /\ ~row'[l].schedule
              /\ row'[l].data_id = IF req[h].flag THEN n ELSE 0
              /\ row'[l].last_retrieval = IF req[h].flag THEN Imported ELSE 0
    <2>1. ASSUME NEW attach \in BOOLEAN, row' = [row EXCEPT ![l] = ImportedRow(n, attach, FALSE)]
          PROVE  /\ Live(l)' /\ row'[l].final_table_name = n /\ ~row'[l].schedule
                 /\ row'[l].data_id = IF attach THEN n ELSE 0
                 /\ row'[l].last_retrieval = IF attach THEN Imported ELSE 0
                 /\ \A m \in Links \ {l} : row'[m] = row[m]
      <3> DEFINE d == IF attach THEN n ELSE 0
                 t == IF attach THEN Imported ELSE 0
                 x == [Blank EXCEPT !.state = "live", !.final_table_name = n,
                                    !.metadata_id = TRUE, !.schedule = FALSE,
                                    !.data_id = d,
                                    !.last_retrieval = t]
      <3>1. row' = [row EXCEPT ![l] = x]
        BY <2>1 DEF ImportedRow
      <3>2. /\ x.state = "live" /\ x.final_table_name = n /\ ~x.schedule
            /\ x.data_id = d /\ x.last_retrieval = t
        <4> HIDE DEF d, t
        <4> QED
          BY DEF Blank
      <3> HIDE DEF x
      <3>3. row'[l] = x /\ \A m \in Links \ {l} : row'[m] = row[m]
        BY <3>1, Parts DEF Calm, StoreInv
      <3> QED
        BY <3>2, <3>3 DEF Live
    <2>2. ASSUME row' = [row EXCEPT ![l] = [Blank EXCEPT !.state = "removed"]]
          PROVE  /\ ~Live(l)' /\ row'[l].data_id = 0 /\ row'[l].last_retrieval = 0
                 /\ ~row'[l].schedule
                 /\ \A m \in Links \ {l} : row'[m] = row[m]
      BY <2>2, Parts DEF Calm, StoreInv, Blank, Live
    <2>3. \/ UNCHANGED <<row, run>>
          \/ /\ ~name_taken(l, n) /\ req[h].flag
             /\ row' = [row EXCEPT ![l] = ImportedRow(n, TRUE, FALSE)]
          \/ /\ ~name_taken(l, n) /\ ~req[h].flag
             /\ row' = [row EXCEPT ![l] = ImportedRow(n, FALSE, FALSE)]
          \/ /\ UNCHANGED run
             /\ row' = [row EXCEPT ![l] = [Blank EXCEPT !.state = "removed"]]
      <3>1. lastRun \in 0..MaxRuns
        BY Parts DEF Calm, RunsInv
      <3>2. Trigger(ReimportRun(l, n)) => lastRun' # lastRun \/ UNCHANGED <<run, lastRun>>
        BY <3>1, ConstantsAssumption DEF Trigger
      <3>3. Recurrence(l) = {FALSE}
        BY DEF Recurrence
      <3> QED
        BY <3>2, <3>3 DEF import_integrity_link_commit
    <2> HIDE DEF n
    <2> QED
      BY <2>1, <2>2, <2>3
  <1>10. OnlyOn(l)
    BY <1>1, <1>3, <1>6, <1>9, OnlyOnIntro
  <1> QED
    BY <1>1, <1>2, <1>3, <1>6, <1>7, <1>8, <1>9, <1>10

-----------------------------------------------------------------------------
(* What any step does to tables and layers, and who may hold the event loop *)

Async == {"edit", "publish", "import"}

\* A table that had rows loses them by a deletion of the dataset that named it, or by a
\* run a user asked for, which drops it, fails, or writes its own rows.
TablesStep ==
    \A n \in Names :
        \/ owner'[n] = owner[n] \/ owner[n] = NoLink
        \/ \E h \in Handlers : req[h].op = "delete" /\ req[h].final_table_name = n
        \/ \E r \in Runs : /\ Busy(r) /\ run[r].kind \in FinalKinds
                           /\ run[r].final_table_name = n
                           /\ \/ owner'[n] = run[r].link
                              \/ run[r].step \in {"drop", "failed"}

\* A layer goes by a deletion.
LayersStep ==
    \A x \in layers : x \in layers' \/ \E h \in Handlers :
        req[h].op = "delete" /\ x = layer(req[h].link, req[h].final_table_name)

\* An import starts without a row, under a name no row has; if it is attached, the table
\* and its layer are there.
ImportStarted(q) ==
    /\ UNCHANGED row /\ row[q.link].state # "live" /\ ~name_used(q.final_table_name)
    /\ q.flag => /\ owner'[q.final_table_name] # NoLink
                 /\ layer(q.link, q.final_table_name) \in layers'

\* A request that will hold the event loop starts when nothing holds it, and nothing
\* else starts.
LoopStep ==
    \A h \in Handlers :
        \/ req'[h].op \notin Async
        \/ req'[h] = req[h]
        \/ /\ LoopFree
           /\ \A g \in Handlers \ {h} : req'[g] = req[g]
           /\ req'[h].op = "import" => ImportStarted(req'[h])

\* A row appears when nothing holds the event loop, or as an import ends.
BirthStep ==
    \A l \in Links : Live(l)' =>
        \/ Live(l) \/ LoopFree
        \/ \E h \in Handlers : req[h].op = "import" /\ req[h].link = l /\ req'[h].op = "idle"

\* Nothing of the kind happens.
LEMMA SameSteps ==
    /\ UNCHANGED owner => TablesStep
    /\ UNCHANGED layers => LayersStep
    /\ UNCHANGED req => LoopStep
    /\ LoopFree \/ UNCHANGED row => BirthStep
  BY DEF TablesStep, LayersStep, LoopStep, BirthStep, Live

\* One request changes.
LEMMA LoopIntro ==
    ASSUME RequestsInv, NEW h \in Handlers, NEW q, req' = [req EXCEPT ![h] = q],
           q.op \in Async => LoopFree, q.op # "import"
    PROVE  LoopStep
  <1>1. \A g \in Handlers : req'[g] = IF g = h THEN q ELSE req[g]
    BY DEF RequestsInv
  <1> QED
    BY <1>1 DEF LoopStep

\* One request ends.
LEMMA LoopIdle ==
    ASSUME RequestsInv, NEW h \in Handlers, req' = [req EXCEPT ![h] = Idle]
    PROVE  LoopStep /\ req'[h].op = "idle"
  <1>1. Idle.op = "idle"
    BY DEF Idle
  <1>2. req'[h] = Idle
    BY DEF RequestsInv
  <1>3. LoopStep
    BY <1>1, LoopIntro DEF Async
  <1> QED
    BY <1>1, <1>2, <1>3

\* A row changes without appearing.
LEMMA BirthIntro ==
    ASSUME StoreInv, NEW l \in Links, NEW x, row' = [row EXCEPT ![l] = x],
           x.state = "live" => Live(l)
    PROVE  BirthStep
  BY DEF StoreInv, BirthStep, Live

\* The steps of a dataset on the platform.
StepsWell == TablesStep /\ LayersStep /\ LoopStep /\ BirthStep

\* Each staging request and callback takes its tables, layers, requests and imports along the
\* four steps.
LEMMA StagingSteps == Calm /\ StagingNext => StepsWell
  <1> SUFFICES ASSUME Calm, StagingNext
               PROVE  StepsWell
    OBVIOUS
  <1> USE DEF backendVars, pgVars, catalogVars, airflowVars
  <1>1. RequestsInv
    BY Parts DEF Calm
  <1>2. ASSUME NEW l \in Links, NEW isFile \in BOOLEAN, submit_staging(l, isFile)
        PROVE  StepsWell
    BY <1>2, SameSteps DEF submit_staging, StepsWell
  <1>3. ASSUME NEW h \in Handlers, NEW l \in Links, NEW isFile \in BOOLEAN,
               edit_staging_commit(h, l, isFile)
        PROVE  StepsWell
    <2> DEFINE q == [Idle EXCEPT !.op = "edit", !.link = l, !.upload = lastUpload + 1,
                                 !.staging_table_name = row[l].staging_table_name,
                                 !.flag = isFile]
    <2>1. q.op = "edit"
      BY DEF Idle
    <2>2. req' = [req EXCEPT ![h] = q] /\ LoopFree
      BY <1>3 DEF edit_staging_commit, CanStart
    <2> HIDE DEF q
    <2> QED
      BY <1>1, <1>3, <2>1, <2>2, LoopIntro, SameSteps DEF edit_staging_commit, StepsWell
  <1>4. ASSUME NEW h \in Handlers, edit_staging_trigger(h)
        PROVE  StepsWell
    BY <1>1, <1>4, LoopIdle, SameSteps DEF edit_staging_trigger, StepsWell
  <1>5. ASSUME NEW r \in Runs, staging_dag_success_callback(r)
        PROVE  StepsWell
    BY <1>5, SameSteps DEF staging_dag_success_callback, StepsWell
  <1>6. ASSUME NEW h \in Handlers, NEW r \in Runs, staging_dag_failure_callback(h, r)
        PROVE  StepsWell
    <2>1. RunsInv /\ StoreInv
      BY Parts DEF Calm
    <2>2. \/ req' = req
          \/ \E q \in Request : q.op = "rollback" /\ req' = [req EXCEPT ![h] = q]
      BY <1>6, <2>1, FailureCallbackDecides
    <2>3. LoopStep
      BY <1>1, <2>2, LoopIntro, SameSteps DEF Async
    <2> QED
      BY <1>6, <2>3, SameSteps DEF staging_dag_failure_callback, StepsWell
  <1>7. ASSUME NEW h \in Handlers, rollback_drop(h)
        PROVE  StepsWell
    <2>1. \E q \in Request : q.op = "discard" /\ req' = [req EXCEPT ![h] = q]
      BY <1>1, <1>7, RollbackGoesOn
    <2>2. LoopStep
      BY <1>1, <2>1, LoopIntro DEF Async
    <2> QED
      BY <1>7, <2>2, SameSteps DEF rollback_drop, StepsWell
  <1>8. ASSUME NEW h \in Handlers, rollback_commit(h)
        PROVE  StepsWell
    <2>1. LoopStep /\ UNCHANGED <<owner, layers>>
      BY <1>1, <1>8, LoopIdle DEF rollback_commit
    <2>2. \A l \in Links : Live(l)' => Live(l)
      BY <1>8, Parts DEF rollback_commit, Calm, StoreInv, Blank, Live
    <2> QED
      BY <2>1, <2>2, SameSteps DEF BirthStep, StepsWell
  <1> QED
    BY <1>2, <1>3, <1>4, <1>5, <1>6, <1>7, <1>8 DEF StagingNext

\* Those of the processing routes.
LEMMA ProcessSteps == Calm /\ ProcessNext => StepsWell
  <1> SUFFICES ASSUME Calm, ProcessNext
               PROVE  StepsWell
    OBVIOUS
  <1> USE DEF backendVars, pgVars, catalogVars, airflowVars
  <1>1. RequestsInv /\ RunsInv /\ StoreInv
    BY Parts DEF Calm
  <1>2. ASSUME NEW h \in Handlers, NEW l \in Links, NEW recurrence \in BOOLEAN,
               process_staging_data_prepare(h, l, recurrence)
        PROVE  StepsWell
    <2> DEFINE q(name) == [Idle EXCEPT !.op = "process", !.link = l,
                   !.staging_table_name = row[l].staging_table_name,
                   !.final_table_name = name, !.flag = recurrence]
    <2>1. \A name : q(name).op = "process"
      BY DEF Idle
    <2>2. UNCHANGED req \/ \E name : req' = [req EXCEPT ![h] = q(name)]
      BY <1>2 DEF process_staging_data_prepare
    <2> HIDE DEF q
    <2>3. LoopStep
      BY <1>1, <2>1, <2>2, LoopIntro, SameSteps DEF Async
    <2> QED
      BY <1>2, <2>3, SameSteps DEF process_staging_data_prepare, StepsWell
  <1>3. ASSUME NEW h \in Handlers, process_staging_data_commit(h)
        PROVE  StepsWell
    <2> DEFINE l == req[h].link
               x == [row[l] EXCEPT !.final_table_name = req[h].final_table_name,
                                   !.schedule = req[h].flag, !.metadata_id = TRUE]
    <2>1. l \in Links
      BY <1>1, <1>3 DEF process_staging_data_commit, RequestsInv, RequestWellFormed
    <2>2. x.state = row[l].state
      BY <1>1, <2>1 DEF StoreInv, IntegrityLink
    <2>3. UNCHANGED row \/ row' = [row EXCEPT ![l] = x]
      BY <1>3 DEF process_staging_data_commit
    <2>4. UNCHANGED <<owner, layers>> /\ LoopStep
      BY <1>1, <1>3, LoopIdle DEF process_staging_data_commit
    <2> HIDE DEF l, x
    <2>5. BirthStep
      BY <1>1, <2>1, <2>2, <2>3, BirthIntro, SameSteps DEF Live
    <2> QED
      BY <2>4, <2>5, SameSteps DEF StepsWell
  <1>4. ASSUME NEW h \in Handlers, NEW r \in Runs, process_dag_success_publish(h, r)
        PROVE  StepsWell
    <2> DEFINE q(published) == [Idle EXCEPT !.op = "publish", !.link = run[r].link,
                          !.run = r, !.final_table_name = run[r].final_table_name,
                          !.flag = published]
    <2>1. \A published : q(published).op = "publish"
      BY DEF Idle
    <2>2. /\ LoopFree /\ layers \subseteq layers' /\ UNCHANGED <<row, owner>>
          /\ UNCHANGED req \/ \E published : req' = [req EXCEPT ![h] = q(published)]
      BY <1>4 DEF process_dag_success_publish, CanStart
    <2> HIDE DEF q
    <2>3. LoopStep
      BY <1>1, <2>1, <2>2, LoopIntro, SameSteps
    <2>4. LayersStep
      BY <2>2 DEF LayersStep
    <2> QED
      BY <2>2, <2>3, <2>4, SameSteps DEF StepsWell
  <1>5. ASSUME NEW h \in Handlers, process_dag_success_commit(h)
        PROVE  StepsWell
    <2> DEFINE l == req[h].link
    <2>1. l \in Links
      BY <1>1, <1>5 DEF process_dag_success_commit, RequestsInv, RequestWellFormed
    <2>2. retrieved(h).state = row[l].state
      BY <1>1, <2>1 DEF StoreInv, IntegrityLink, retrieved
    <2>3. UNCHANGED row \/ row' = [row EXCEPT ![l] = retrieved(h)]
      BY <1>5 DEF process_dag_success_commit
    <2>4. UNCHANGED <<owner, layers>> /\ LoopStep
      BY <1>1, <1>5, LoopIdle DEF process_dag_success_commit
    <2> HIDE DEF l
    <2>5. BirthStep
      BY <1>1, <2>1, <2>2, <2>3, BirthIntro, SameSteps DEF Live
    <2> QED
      BY <2>4, <2>5, SameSteps DEF StepsWell
  <1>6. ASSUME NEW r \in Runs, process_dag_failure_callback(r)
        PROVE  StepsWell
    <2>1. LoopFree /\ UNCHANGED <<req, row, layers>>
      BY <1>6 DEF process_dag_failure_callback
    <2>2. /\ Busy(r) /\ run[r].kind \in FinalKinds /\ run[r].step = "failed"
          /\ UNCHANGED owner \/ owner' = [owner EXCEPT ![run[r].final_table_name] = NoLink]
      BY <1>6 DEF process_dag_failure_callback, failure_callback_accepted, ProcessKinds,
                  FinalKinds, Busy, Calm, NoSchedule
    <2>3. TablesStep
      BY <1>1, <2>2 DEF TablesStep, StoreInv
    <2> QED
      BY <2>1, <2>3, SameSteps DEF StepsWell
  <1> QED
    BY <1>2, <1>3, <1>4, <1>5, <1>6 DEF ProcessNext

\* Those of deletions.
LEMMA DeletionSteps ==
    ASSUME Recurring = {}, Calm, DeletionNext
    PROVE  StepsWell
  <1>1. /\ \A l \in Links : ~update_schedule(l)
        /\ \A h \in Handlers, l \in Links : ~clear_schedule(h, l)
        /\ \A h \in Handlers : ~clear_schedule_commit(h)
    BY DEF Calm, NoSchedule, update_schedule, clear_schedule, clear_schedule_commit
  <1> USE DEF backendVars, pgVars, catalogVars, airflowVars
  <1>2. RequestsInv /\ RunsInv /\ StoreInv
    BY Parts DEF Calm
  <1>3. ASSUME NEW h \in Handlers, NEW l \in Links, delete_dataset_cancel(h, l)
        PROVE  StepsWell
    <2> DEFINE q == [Idle EXCEPT !.op = "delete", !.link = l,
                        !.staging_table_name = row[l].staging_table_name,
                        !.final_table_name = row[l].final_table_name,
                        !.flag = row[l].metadata_id]
    <2>1. q.op = "delete"
      BY DEF Idle
    <2>2. /\ UNCHANGED <<row, owner, layers>>
          /\ UNCHANGED req \/ req' = [req EXCEPT ![h] = q]
      BY <1>3 DEF delete_dataset_cancel
    <2> HIDE DEF q
    <2>3. LoopStep
      BY <1>2, <2>1, <2>2, LoopIntro, SameSteps DEF Async
    <2> QED
      BY <2>2, <2>3, SameSteps DEF StepsWell
  <1>4. ASSUME NEW h \in Handlers, delete_dataset_data(h)
        PROVE  StepsWell
    <2> DEFINE q == [req[h] EXCEPT !.op = "forget"]
    <2>1. q.op = "forget"
      BY <1>2 DEF RequestsInv, Request
    <2>2. req' = [req EXCEPT ![h] = q] /\ UNCHANGED row /\ req[h].op = "delete"
      BY <1>2, <1>4 DEF delete_dataset_data, RequestsInv
    <2> HIDE DEF q
    <2>3. LoopStep
      BY <1>2, <2>1, <2>2, LoopIntro DEF Async
    <2>4. TablesStep
      BY <1>2, <1>4 DEF delete_dataset_data, final_tables_to_drop, TablesStep
    <2>5. LayersStep
      BY <1>2, <1>4 DEF delete_dataset_data, final_tables_to_drop, LayersStep
    <2> QED
      BY <2>2, <2>3, <2>4, <2>5, SameSteps DEF StepsWell
  <1>5. ASSUME NEW h \in Handlers, delete_dataset_row(h)
        PROVE  StepsWell
    <2> DEFINE l == req[h].link
               x == [Blank EXCEPT !.state = "deleted"]
    <2>1. l \in Links
      BY <1>2, <1>5 DEF delete_dataset_row, RequestsInv, RequestWellFormed
    <2>2. x.state = "deleted"
      BY DEF Blank
    <2>3. UNCHANGED <<owner, layers>> /\ row' = [row EXCEPT ![l] = x] /\ LoopStep
      BY <1>2, <1>5, LoopIdle DEF delete_dataset_row
    <2> HIDE DEF l, x
    <2>4. BirthStep
      BY <1>2, <2>1, <2>2, <2>3, BirthIntro
    <2> QED
      BY <2>3, <2>4, SameSteps DEF StepsWell
  <1> QED
    BY <1>1, <1>3, <1>4, <1>5 DEF DeletionNext

\* The task of a run writes the table of its dataset, or drops it.
LEMMA WritesTable ==
    ASSUME Calm, NEW r \in Runs, run[r].step \in {"drop", "transform"},
           \E x : /\ owner' = [owner EXCEPT ![run[r].final_table_name] = x]
                  /\ x = run[r].link \/ run[r].step = "drop"
    PROVE  TablesStep
  <1>1. Busy(r)
    BY DEF Busy, TaskSteps
  <1>2. run[r].kind \in {"none", "staging", "manual", "scheduled", "reimport"}
        /\ run[r].kind # "scheduled" /\ RunWellFormed(run[r]) /\ run[r] # NoRun
    BY Parts DEF Calm, NoSchedule, RunsInv, DagRun, NoRun
  <1>3. run[r].kind \in FinalKinds
    BY <1>2 DEF RunWellFormed, FinalKinds
  <1>4. \A n \in Names : \/ owner'[n] = owner[n]
                          \/ /\ n = run[r].final_table_name
                             /\ owner'[n] = run[r].link \/ run[r].step = "drop"
    BY Parts DEF Calm, StoreInv
  <1>5. ASSUME NEW n \in Names
        PROVE  \/ owner'[n] = owner[n]
               \/ /\ run[r].final_table_name = n
                  /\ owner'[n] = run[r].link \/ run[r].step \in {"drop", "failed"}
    BY <1>4
  <1> QED
    BY <1>1, <1>3, <1>5 DEF TablesStep

\* Those of Airflow.
LEMMA AirflowSteps == Calm /\ AirflowNext => StepsWell
  <1> SUFFICES ASSUME Calm, AirflowNext
               PROVE  StepsWell
    OBVIOUS
  <1> USE DEF backendVars, pgVars, catalogVars, airflowVars
  <1>1. ASSUME NEW r \in Runs, RunStep(r)
        PROVE  StepsWell
    <2>1. UNCHANGED <<req, row, layers>>
      BY <1>1, Parts, RunStepEffect DEF Calm
    <2>2. CASE UNCHANGED owner
      BY <2>1, <2>2, SameSteps DEF StepsWell
    <2>3. CASE drop_previous_final_table(r)
      <3>1. /\ run[r].step \in {"drop", "transform"}
            /\ \E x : /\ owner' = [owner EXCEPT ![run[r].final_table_name] = x]
                      /\ x = run[r].link \/ run[r].step = "drop"
        BY <2>3 DEF drop_previous_final_table
      <3>2. TablesStep
        BY <3>1, WritesTable
      <3> QED
        BY <2>1, <3>2, SameSteps DEF StepsWell
    <2>4. CASE read_transform_write_task(r)
      <3>1. run[r].step = "transform"
            /\ \/ UNCHANGED owner
               \/ owner' = [owner EXCEPT ![run[r].final_table_name] = run[r].link]
        BY <2>4 DEF read_transform_write_task
      <3> QED
        BY <2>1, <2>2, <3>1, WritesTable, SameSteps DEF StepsWell
    <2> QED
      BY <1>1, <2>2, <2>3, <2>4
      DEF RunStep, initial_ingestion, refresh_ingestion, clean_staging_table_task
  <1>2. UNCHANGED <<req, row, layers, owner>> => StepsWell
    BY SameSteps DEF StepsWell
  <1> QED
    BY <1>1, <1>2
    DEF AirflowNext, callback_lost, load_scheduled_integrity_links, trigger_process_dag

\* Those of runs in the backend.
LEMMA LocalSteps == Calm /\ LocalNext => StepsWell
  <1> SUFFICES ASSUME Calm, LocalNext
               PROVE  StepsWell
    OBVIOUS
  <1> USE DEF backendVars, pgVars, catalogVars
  <1>1. UNCHANGED <<req, row, layers, owner>> => StepsWell
    BY SameSteps DEF StepsWell
  <1>2. ASSUME NEW r \in Runs, LocalStep(r)
        PROVE  StepsWell
    <2>1. /\ UNCHANGED <<req, row, layers>>
          /\ \/ UNCHANGED owner
             \/ /\ run[r].step \in {"drop", "transform"}
                /\ \E x \in {run[r].link, NoLink} :
                      /\ owner' = [owner EXCEPT ![run[r].final_table_name] = x]
                      /\ x = NoLink => run[r].step = "drop"
      BY <1>2, LocalStepEffect DEF Calm
    <2> QED
      BY <1>1, <2>1, WritesTable, SameSteps DEF StepsWell
  <1> QED
    BY <1>1, <1>2 DEF LocalNext, local_callback_lost

\* Those an administrator starts.
LEMMA AdministrationSteps ==
    ASSUME Clients = "settled", Calm, NEW airflow, AdministrationNext(airflow)
    PROVE  StepsWell
  <1>1. ASSUME NEW h \in Handlers, NEW l \in Links, NEW delete_layer \in BOOLEAN,
               NEW delete_metadata \in BOOLEAN,
               delete_integrity_link_admin(h, l, airflow, delete_layer, delete_metadata)
        PROVE  StepsWell
    <2>1. /\ OnlyOn(l) /\ Quiet(l) /\ Live(l) /\ CanStart(h)
          /\ \A r \in Runs : ~Works(r, l)' /\ SameConf(r)
          /\ \A g \in Handlers : Asks(g, l)' <=> g = h
          /\ \A g \in Handlers \ {h} : req'[g] = req[g]
          /\ req'[h].op \in {"delete", "remove"}
          /\ req'[h].staging_table_name = row[l].staging_table_name
          /\ req'[h].final_table_name = row[l].final_table_name
          /\ UNCHANGED <<row, owner, layers>>
          /\ \A m \in Links : dag[m] = NoDag => dag'[m] = NoDag
      BY <1>1, AdminDeleteEffect, Zenon
    <2>2. LoopStep
      BY <2>1 DEF LoopStep, Async
    <2> QED
      BY <2>1, <2>2, SameSteps DEF StepsWell
  <1>2. ASSUME NEW l \in Links, ~Live(l), UNCHANGED <<row, run, dag, owner>>,
               layers \subseteq layers',
               \/ UNCHANGED req
               \/ \E h \in Handlers :
                     /\ CanStart(h) /\ \A g \in Handlers \ {h} : req'[g] = req[g]
                     /\ req'[h].link = l
                     /\ \/ req'[h].op = "restore"
                        \/ /\ req'[h].op = "import"
                           /\ ~name_used(req'[h].final_table_name)
                           /\ req'[h].flag =>
                                 /\ owner[req'[h].final_table_name] # NoLink
                                 /\ layer(l, req'[h].final_table_name) \in layers'
        PROVE  StepsWell
    <2>1. LoopStep
      BY <1>2 DEF LoopStep, Async, CanStart, Live, ImportStarted
    <2>2. LayersStep
      BY <1>2 DEF LayersStep
    <2> QED
      BY <1>2, <2>1, <2>2, SameSteps DEF StepsWell
  <1> QED
    BY <1>1, <1>2, AdminStartEffect

\* Those it goes on with.
LEMMA GoesOnSteps ==
    ASSUME Calm, NEW airflow, AdministrationGoesOn(airflow)
    PROVE  StepsWell
  <1> USE DEF backendVars, pgVars, catalogVars
  <1>1. RequestsInv /\ StoreInv
    BY Parts DEF Calm
  <1> DEFINE removed == [Blank EXCEPT !.state = "removed"]
  <1>2. removed.state = "removed"
    BY DEF Blank
  <1> HIDE DEF removed
  <1>3. ASSUME NEW h \in Handlers, restore_table(h)
        PROVE  StepsWell
    <2>1. LoopStep /\ UNCHANGED <<row, layers>>
      BY <1>1, <1>3, LoopIdle DEF restore_table
    <2>2. TablesStep
      BY <1>1, <1>3 DEF restore_table, can_restore, TablesStep, StoreInv
    <2> QED
      BY <2>1, <2>2, SameSteps DEF StepsWell
  <1>4. ASSUME NEW h \in Handlers, import_integrity_link_commit(h)
        PROVE  StepsWell
    <2>1. LoopStep /\ UNCHANGED <<owner, layers>> /\ req[h].op = "import"
          /\ req'[h].op = "idle"
      BY <1>1, <1>4, LoopIdle DEF import_integrity_link_commit
    <2>2. \A m \in Links \ {req[h].link} : row'[m] = row[m]
      BY <1>1, <1>4 DEF import_integrity_link_commit, StoreInv
    <2>3. BirthStep
      BY <2>1, <2>2 DEF BirthStep, Live
    <2> QED
      BY <2>1, <2>3, SameSteps DEF StepsWell
  <1>5. ASSUME NEW h \in Handlers, remove_dataset(h, airflow)
        PROVE  StepsWell
    <2>1. LoopStep /\ UNCHANGED <<owner, layers>>
      BY <1>1, <1>5, LoopIdle DEF remove_dataset
    <2>2. row' = [row EXCEPT ![req[h].link] = removed]
      BY <1>5 DEF remove_dataset, removed
    <2>3. req[h].link \in Links
      BY <1>1, <1>5 DEF remove_dataset, RequestsInv, RequestWellFormed
    <2>4. BirthStep
      BY <1>1, <1>2, <2>2, <2>3, BirthIntro
    <2> QED
      BY <2>1, <2>4, SameSteps DEF StepsWell
  <1> QED
    BY <1>3, <1>4, <1>5 DEF AdministrationGoesOn

\* And all of them; a restart ends requests only.
LEMMA PlatformSteps ==
    ASSUME Clients = "settled", Recurring = {}, Calm, [PlatformNext]_platformVars
    PROVE  StepsWell
  <1>1. CASE UNCHANGED platformVars
    BY <1>1, SameSteps DEF platformVars, vars, StepsWell
  <1>2. CASE restart
    <2>1. \A h \in Handlers : req'[h].op = "idle"
      BY <1>2 DEF restart, Idle
    <2>2. LoopStep
      BY <2>1 DEF LoopStep, Async
    <2> QED
      BY <1>2, <2>2, SameSteps DEF restart, StepsWell, backendVars, pgVars, catalogVars
  <1> QED
    BY <1>1, <1>2, PlatformParts, StagingSteps, ProcessSteps, AirflowSteps, DeletionSteps,
       LocalSteps, AdministrationSteps, GoesOnSteps
    DEF Next

-----------------------------------------------------------------------------
(* What settled users and administrators keep: the event loop, the names *)

\* One request at a time holds the event loop; an import has no row until it ends.
ImportInv ==
    /\ \A g, h \in Handlers : req[g].op \in Async /\ req[h].op \in Async => g = h
    /\ \A h \in Handlers, l \in Links : req[h].op = "import" /\ req[h].link = l => ~Live(l)

\* A step that leaves the event loop to whoever holds it, and gives a row only to what has none,
\* keeps imports alone and without a row.
LEMMA ImportKept ==
    ASSUME ImportInv, LoopStep, BirthStep
    PROVE  ImportInv'
  <1>1. ASSUME NEW h \in Handlers, req'[h].op \in Async
        PROVE  \/ req'[h] = req[h] /\ ~LoopFree
               \/ LoopFree /\ \A g \in Handlers \ {h} : req'[g] = req[g]
    BY <1>1 DEF LoopStep, LoopFree, Async
  <1>2. ASSUME NEW g \in Handlers, NEW h \in Handlers,
               req'[g].op \in Async, req'[h].op \in Async
        PROVE  g = h
    BY <1>1, <1>2 DEF ImportInv, LoopFree, Async
  <1>3. ASSUME NEW h \in Handlers, NEW l \in Links, req'[h].op = "import", req'[h].link = l
        PROVE  row'[l].state # "live"
    <2>1. CASE req'[h] = req[h]
      <3>1. ~Live(l) /\ ~LoopFree
        BY <1>3, <2>1 DEF ImportInv, LoopFree
      <3>2. \A g \in Handlers : req[g].op = "import" => g = h
        BY <1>3, <2>1 DEF ImportInv, Async
      <3> QED
        BY <1>3, <3>1, <3>2 DEF BirthStep, Live
    <2>2. CASE req'[h] # req[h]
      BY <1>3, <2>2 DEF LoopStep, Async, ImportStarted
    <2> QED
      BY <2>1, <2>2
  <1> QED
    BY <1>2, <1>3 DEF ImportInv, Live

\* Two datasets of one organization have different names: the contract of the dataset,
\* read on the rows.
NamesApart ==
    \A l, m \in Links :
        l # m /\ Live(l) /\ Live(m) /\ row[l].final_table_name # 0
              /\ integrity_organization[l] = integrity_organization[m]
           => row[l].final_table_name # row[m].final_table_name

\* What the contract says of names in terms of phases is what NamesApart says of rows.
LEMMA ApartIsReserved ==
    ASSUME row \in [Links -> IntegrityLink]
    PROVE  NamesApart <=> Contract!NamesReserved
  <1>1. \A l \in Links : phaseView[l] \in {"draft", "published"} <=> Live(l)
    BY ExistingIsLive
  <1>2. \A l \in Links : Contract!Existing(l) <=> Live(l)
    BY <1>1 DEF Contract!Existing, phaseView
  <1> QED
    BY <1>2 DEF NamesApart, Contract!NamesReserved

\* The same after a step, in the direction the induction needs.
LEMMA ReservedIsApart ==
    ASSUME WellFormed', Contract!NamesReserved'
    PROVE  NamesApart'
  <1>1. \A l \in Links : (PhaseOf(l) \in {"draft", "published"})' <=> Live(l)'
    BY DEF PhaseOf, Live, WellFormed, TypeOK, IntegrityLink
  <1> QED
    BY <1>1 DEF NamesApart, Contract!NamesReserved, Contract!Existing

\* One row changes: it is gone, or has no name, or keeps its name or takes a free one.
LEMMA ApartIntro ==
    ASSUME NamesApart, NEW l \in Links, \A m \in Links \ {l} : row'[m] = row[m],
           \/ row'[l].state # "live"
           \/ ~name_taken(l, row'[l].final_table_name)
    PROVE  NamesApart'
  <1>1. ASSUME NEW k \in Links, NEW m \in Links, k # m, Live(k)', Live(m)',
               row'[k].final_table_name # 0,
               integrity_organization[k] = integrity_organization[m]
        PROVE  row'[k].final_table_name # row'[m].final_table_name
    <2>1. CASE k # l /\ m # l
      BY <1>1, <2>1 DEF NamesApart, Live
    <2>2. CASE k = l
      BY <1>1, <2>2 DEF name_taken, Live
    <2>3. CASE m = l
      BY <1>1, <2>3 DEF name_taken, Live
    <2> QED
      BY <2>1, <2>2, <2>3
  <1> QED
    BY <1>1 DEF NamesApart

\* The steps of the platform keep the names apart.
LEMMA PlatformApart ==
    ASSUME WellFormed, WellFormed', NamesApart, [PlatformNext]_platformVars
    PROVE  NamesApart'
  <1>1. UNCHANGED row => NamesApart'
    BY DEF NamesApart, Live
  <1>2. CASE Next
    <2>1. Contract!NamesReserved'
      BY <1>2, StepContract, NamesStep, ApartIsReserved, Parts DEF StoreInv
    <2> QED
      BY <2>1, ReservedIsApart
  <1>3. LocalNext => UNCHANGED row
    BY DEF LocalNext, LocalStep, local_run_staging, local_reingest, local_drop,
           local_transform, local_clean, local_callback_lost, backendVars
  <1>4. AdministrationNext(Airflow) => UNCHANGED row
    BY DEF AdministrationNext, copy_record, import_table_data, import_integrity_link,
           delete_integrity_link_admin, backendVars
  <1>5. CASE AdministrationGoesOn(Airflow)
    <2>1. ASSUME NEW h \in Handlers, import_integrity_link_commit(h)
          PROVE  NamesApart'
      <3> DEFINE l == req[h].link
                 n == req[h].final_table_name
      <3>1. l \in Links /\ row \in [Links -> IntegrityLink]
        BY <2>1, Parts DEF import_integrity_link_commit, RequestsInv, RequestWellFormed, StoreInv
      <3>2. \A m \in Links \ {l} : row'[m] = row[m]
        BY <2>1, <3>1 DEF import_integrity_link_commit
      <3>3. \A attach, schedule : ImportedRow(n, attach, schedule).final_table_name = n
        BY DEF ImportedRow, Blank
      <3>4. [Blank EXCEPT !.state = "removed"].state = "removed"
        BY DEF Blank
      <3>5. \/ UNCHANGED row
            \/ /\ ~name_taken(l, n)
               /\ \E attach, schedule : row' = [row EXCEPT ![l] = ImportedRow(n, attach, schedule)]
            \/ row' = [row EXCEPT ![l] = [Blank EXCEPT !.state = "removed"]]
        BY <2>1 DEF import_integrity_link_commit
      <3> HIDE DEF l, n
      <3>6. ASSUME NEW x, row' = [row EXCEPT ![l] = x]
            PROVE  row'[l] = x
        BY <3>1, <3>6
      <3>7. \/ UNCHANGED row
            \/ ~name_taken(l, n) /\ row'[l].final_table_name = n
            \/ row'[l].state = "removed"
        <4>1. CASE \E attach, schedule :
                      row' = [row EXCEPT ![l] = ImportedRow(n, attach, schedule)]
          <5>1. PICK attach, schedule :
                   row' = [row EXCEPT ![l] = ImportedRow(n, attach, schedule)]
            BY <4>1
          <5>2. row'[l] = ImportedRow(n, attach, schedule)
            BY <3>6, <5>1
          <5>3. row'[l].final_table_name = n
            BY <3>3, <5>2
          <5>4. ~name_taken(l, n) \/ UNCHANGED row \/ row'[l].state = "removed"
            BY <3>4, <3>5, <3>6
          <5> QED
            BY <5>3, <5>4
        <4>2. CASE row' = [row EXCEPT ![l] = [Blank EXCEPT !.state = "removed"]]
          BY <3>4, <3>6, <4>2
        <4> QED
          BY <3>5, <4>1, <4>2
      <3> QED
        BY <1>1, <3>1, <3>2, <3>7, ApartIntro
    <2>2. ASSUME NEW h \in Handlers, remove_dataset(h, Airflow)
          PROVE  NamesApart'
      <3> DEFINE l == req[h].link
                 removed == [Blank EXCEPT !.state = "removed"]
      <3>1. l \in Links /\ row \in [Links -> IntegrityLink]
        BY <2>2, Parts DEF remove_dataset, RequestsInv, RequestWellFormed, StoreInv
      <3>2. row' = [row EXCEPT ![l] = removed] /\ removed.state = "removed"
        BY <2>2 DEF remove_dataset, Blank
      <3> HIDE DEF l, removed
      <3> QED
        BY <3>1, <3>2, ApartIntro
    <2>3. ASSUME NEW h \in Handlers, restore_table(h)
          PROVE  NamesApart'
      BY <1>1, <2>3 DEF restore_table, backendVars
    <2> QED
      BY <1>5, <2>1, <2>2, <2>3 DEF AdministrationGoesOn
  <1>6. restart => UNCHANGED row
    BY DEF restart, backendVars
  <1>7. UNCHANGED platformVars => UNCHANGED row
    BY DEF platformVars, vars
  <1> QED
    BY <1>1, <1>2, <1>3, <1>4, <1>5, <1>6, <1>7, PlatformParts DEF Next

\* The names of all the datasets are apart on the platform too, whoever acts and whatever
\* fails: no import, no restart and no run in the backend gives a dataset the name of
\* another one of its organization (NamesReserved; the unique constraint).
THEOREM PlatformNamesReservedAlways == PlatformSpec => []Contract!NamesReserved
  <1>1. PlatformInit => NamesApart
    BY DEF PlatformInit, Init, NamesApart, Blank, Live
  <1>2. PlatformWellFormed /\ NamesApart /\ PlatformWellFormed'
        /\ [PlatformNext]_platformVars => NamesApart'
    BY PlatformApart DEF PlatformWellFormed
  <1>3. PlatformWellFormed /\ NamesApart => Contract!NamesReserved
    BY ApartIsReserved, Parts DEF PlatformWellFormed, StoreInv
  <1> QED
    BY <1>1, <1>2, <1>3, PlatformWellFormedAlways, PTL DEF PlatformSpec

\* The second halves of imports and deletions keep the datasets settled.
LEMMA GoesOnKeeps ==
    ASSUME Recurring = {}, SettledInv, PlatformInv, ImportInv, WellFormed', NEW airflow,
           AdministrationGoesOn(airflow)
    PROVE  SettledInv'
  <1>1. Calm /\ NameInv
    BY DEF SettledInv
  <1>2. ASSUME NEW h \in Handlers, restore_table(h)
        PROVE  SettledInv'
    <2>1. UNCHANGED <<row, run, dag>> /\ req[h].op = "restore"
          /\ \A g \in Handlers : req'[g] = IF g = h THEN Idle ELSE req[g]
      BY <1>1, <1>2, Parts DEF Calm, restore_table, RequestsInv, backendVars, airflowVars
    <2>2. \A g \in Handlers :
             req'[g] = req[g] \/ (req[g].op \in NotHere /\ req'[g].op \in NotHere)
      BY <2>1 DEF NotHere, Idle
    <2> QED
      BY <2>1, <2>2, AsideKeeps
  <1>3. ASSUME NEW h \in Handlers, remove_dataset(h, airflow)
        PROVE  SettledInv'
    <2>1. PICK l \in Links : l = req[h].link
      BY <1>1, <1>3, Parts DEF Calm, remove_dataset, RequestsInv, RequestWellFormed
    <2>2. /\ OnlyOn(l) /\ ~Live(l)'
          /\ \A g \in Handlers : ~Asks(g, l)'
          /\ \A r \in Runs : ~Works(r, l)' /\ SameConf(r)
          /\ row'[l].final_table_name = 0
          /\ row'[l].data_id = 0 /\ row'[l].last_retrieval = 0 /\ ~row'[l].schedule
          /\ \A g \in Handlers : req'[g] = IF g = h THEN Idle ELSE req[g]
          /\ UNCHANGED <<owner, layers, dag>>
      BY <1>1, <1>3, <2>1, RemoveEffect
    <2>3. OneAtATime'
      BY <1>1, <2>2, AloneStep
    <2>4. NoSchedule'
      BY <1>1, <2>2 DEF Calm, NoSchedule, OnlyOn, SameConf, Idle
    <2>5. NameInv'
      BY <1>1, <2>2, OtherNames DEF NamesOf
    <2> QED
      BY <2>3, <2>4, <2>5 DEF SettledInv, Calm
  <1>4. ASSUME NEW h \in Handlers, import_integrity_link_commit(h)
        PROVE  SettledInv'
    <2>1. PICK l \in Links : l = req[h].link
      BY <1>1, <1>4, Parts DEF Calm, import_integrity_link_commit, RequestsInv, RequestWellFormed
    <2>2. ~Live(l)
      BY <1>4, <2>1 DEF import_integrity_link_commit, ImportInv
    <2>3. /\ OnlyOn(l) /\ Quiet(l) /\ req[h].op = "import"
          /\ \A g \in Handlers : req'[g] = IF g = h THEN Idle ELSE req[g]
          /\ \A g \in Handlers : ~Asks(g, l)'
          /\ UNCHANGED <<owner, layers, dag>>
      BY <1>1, <1>4, <2>1, <2>2, ImportEffect
    <2>4. \A r \in Runs : \/ SameConf(r) /\ run'[r].step = run[r].step
                          \/ /\ run[r] = NoRun /\ run'[r].kind = "reimport"
                             /\ run'[r].link = l
                             /\ run'[r].final_table_name = req[h].final_table_name
      BY <1>1, <1>4, <2>1, <2>2, ImportEffect
    <2>5. \A r, s \in Runs : Works(r, l)' /\ Works(s, l)' => r = s
      BY <1>1, <1>4, <2>1, <2>2, ImportEffect
    <2>6. \/ ~Live(l)' /\ row'[l].data_id = 0 /\ row'[l].last_retrieval = 0
             /\ ~row'[l].schedule /\ \A r \in Runs : ~Works(r, l)'
          \/ UNCHANGED row /\ \A r \in Runs : ~Works(r, l)'
          \/ /\ Live(l)' /\ ~name_taken(l, req[h].final_table_name)
             /\ row'[l].final_table_name = req[h].final_table_name
             /\ ~row'[l].schedule
             /\ row'[l].data_id = IF req[h].flag THEN req[h].final_table_name ELSE 0
             /\ row'[l].last_retrieval = IF req[h].flag THEN Imported ELSE 0
      BY <1>1, <1>4, <2>1, <2>2, ImportEffect
    <2>7. OneAtATime'
      <3>1. \/ Live(l)' \/ \A r \in Runs : ~Works(r, l)'
        BY <2>6
      <3> QED
        BY <1>1, <2>3, <2>5, <3>1, AloneStep
    <2>8. NoSchedule'
      <3>1. \A m \in Links : ~row'[m].schedule
        BY <1>1, <2>3, <2>6 DEF Calm, NoSchedule, OnlyOn
      <3>2. \A r \in Runs : run'[r].kind # "scheduled"
        BY <1>1, <2>4 DEF Calm, NoSchedule, SameConf
      <3>3. \A g \in Handlers : req'[g] = req[g] \/ req'[g].op = "idle"
        BY <2>3 DEF Idle
      <3> QED
        BY <1>1, <2>3, <3>1, <3>2, <3>3 DEF Calm, NoSchedule
    <2>9. NamesOf(l)'
      <3>1. \A r \in Runs : Works(r, l)' =>
               /\ run'[r].kind = "reimport"
               /\ run'[r].final_table_name = req[h].final_table_name
        BY <2>3, <2>4 DEF Quiet, Works, Busy, SameConf
      <3>2. req[h].final_table_name # 0
        BY <2>3 DEF PlatformInv
      <3>3. Imported # 0
        BY ConstantsAssumption DEF Imported
      <3>4. \/ \A r \in Runs : ~Works(r, l)'
            \/ row'[l].final_table_name = req[h].final_table_name
        BY <2>6
      <3>5. /\ row'[l].data_id # 0 => row'[l].data_id = row'[l].final_table_name
                             /\ row'[l].last_retrieval # 0
            /\ row'[l].last_retrieval # 0 => row'[l].final_table_name # 0
        BY <1>1, <2>6, <3>2, <3>3 DEF NameInv, NamesOf
      <3> QED
        BY <2>3, <3>1, <3>4, <3>5 DEF NamesOf
    <2> QED
      BY <1>1, <2>3, <2>7, <2>8, <2>9, OtherNames DEF SettledInv, Calm
  <1> QED
    BY <1>2, <1>3, <1>4 DEF AdministrationGoesOn

\* Every step keeps them settled.
LEMMA PlatformSettled ==
    ASSUME Clients = "settled", Recurring = {}, SettledInv, PlatformInv, ImportInv,
           WellFormed', [PlatformNext]_platformVars
    PROVE  SettledInv'
  <1>1. Calm /\ NameInv /\ WellFormed /\ OneAtATime /\ NoSchedule
    BY DEF SettledInv, Calm
  <1>2. CASE UNCHANGED platformVars
    <2>1. \A h \in Handlers : req'[h] = req[h]
      BY <1>2 DEF platformVars, vars
    <2> QED
      BY <1>2, <2>1, AsideKeeps DEF platformVars, vars
  <1>3. CASE Next
    <2>1. OneAtATime'
      BY <1>1, <1>3, StagingAlone, ProcessAlone, AirflowAlone, DeletionAlone DEF Next
    <2>2. NoSchedule'
      BY <1>1, <1>3, StagingNoSchedule, ProcessNoSchedule, AirflowNoSchedule,
         DeletionNoSchedule DEF Next
    <2>3. NameInv'
      BY <1>1, <1>3, CalmCases, NamesKept
    <2> QED
      BY <2>1, <2>2, <2>3 DEF SettledInv, Calm
  <1> QED
    BY <1>2, <1>3, PlatformParts, LocalKeeps, AdministrationKeeps, GoesOnKeeps, RestartKeeps
    DEF Next

-----------------------------------------------------------------------------
(* Tables and attached datasets, when every dataset is of one organization. *)

OneOrganization ==
    \A l, m \in Links : integrity_organization[l] = integrity_organization[m]

Orderly == SettledInv /\ PlatformInv /\ ImportInv /\ NamesApart

\* A run that is busy with a final table, or a deletion that drops it, is of the
\* dataset that names it.
LEMMA WhoWrites ==
    ASSUME SettledInv
    PROVE  /\ \A h \in Handlers : req[h].op = "delete" => \E l \in Links :
                 /\ Asks(h, l) /\ Live(l)
                 /\ row[l].final_table_name = req[h].final_table_name
           /\ \A r \in Runs : Busy(r) /\ run[r].kind \in FinalKinds => \E l \in Links :
                 /\ run[r].link = l /\ Live(l)
                 /\ row[l].final_table_name = run[r].final_table_name
  <1>1. Calm /\ NameInv
    BY DEF SettledInv
  <1>2. ASSUME NEW h \in Handlers, req[h].op = "delete"
        PROVE  \E l \in Links : /\ Asks(h, l) /\ Live(l)
                                /\ row[l].final_table_name = req[h].final_table_name
    <2>1. PICK l \in Links : Asks(h, l)
      BY <1>1, <1>2, Parts DEF Calm, RequestsInv, RequestWellFormed, Asks, NotHere
    <2>2. Live(l)
      BY <1>1, <2>1, CalmAlone DEF Quiet
    <2> QED
      BY <1>1, <1>2, <2>1, <2>2 DEF NameInv, NamesOf
  <1>3. ASSUME NEW r \in Runs, Busy(r), run[r].kind \in FinalKinds
        PROVE  \E l \in Links : /\ run[r].link = l /\ Live(l)
                                /\ row[l].final_table_name = run[r].final_table_name
    <2>1. run[r].kind # "none"
      BY <1>3 DEF FinalKinds
    <2>2. PICK l \in Links : run[r].link = l
      BY <1>1, <2>1, Parts DEF Calm, RunsInv, RunWellFormed, NoRun
    <2>3. Works(r, l)
      BY <1>3, <2>2 DEF Works
    <2>4. Live(l)
      BY <1>1, <2>3, CalmAlone DEF Quiet
    <2> QED
      BY <1>1, <1>3, <2>2, <2>3, <2>4 DEF NameInv, NamesOf
  <1> QED
    BY <1>2, <1>3

\* A step that takes the rows of a live dataset is its own.
LEMMA RowsStep ==
    ASSUME OneOrganization, Orderly, TablesStep, NEW l \in Links, NEW n,
           n = row[l].final_table_name, Live(l), n # 0, owner[n] = l, owner'[n] # l
    PROVE  \/ \E h \in Handlers : req[h].op = "delete" /\ req[h].link = l
           \/ \E r \in Runs : run[r].kind \in {"manual", "reimport"} /\ run[r].link = l
                               /\ run[r].step \in {"drop", "failed"}
  <1>1. SettledInv /\ NamesApart /\ WellFormed
    BY DEF Orderly, SettledInv, Calm
  <1>2. n \in Names /\ l # NoLink
    BY <1>1, Parts, ConstantsAssumption DEF StoreInv, IntegrityLink, Names
  <1>3. \A m \in Links : Live(m) /\ row[m].final_table_name = n => m = l
    BY <1>1 DEF NamesApart, OneOrganization
  <1>4. CASE \E h \in Handlers : req[h].op = "delete" /\ req[h].final_table_name = n
    BY <1>1, <1>3, <1>4, WhoWrites DEF Asks
  <1>5. ASSUME NEW r \in Runs, Busy(r), run[r].kind \in FinalKinds,
               run[r].final_table_name = n,
               owner'[n] = run[r].link \/ run[r].step \in {"drop", "failed"}
        PROVE  run[r].kind \in {"manual", "reimport"} /\ run[r].link = l
               /\ run[r].step \in {"drop", "failed"}
    <2>1. run[r].link = l
      BY <1>1, <1>3, <1>5, WhoWrites
    <2> QED
      BY <1>5, <2>1 DEF FinalKinds
  <1> QED
    BY <1>2, <1>4, <1>5 DEF TablesStep

\* What settled users and administrators keep, once and for all.
THEOREM OrderlyAlways ==
    ASSUME Clients = "settled", Recurring = {}
    PROVE  PlatformSpec => []Orderly
  <1>1. PlatformInit => SettledInv /\ ImportInv /\ NamesApart
    <2> SUFFICES ASSUME PlatformInit
                 PROVE  SettledInv /\ ImportInv /\ NamesApart
      OBVIOUS
    <2>1. \A l \in Links : row[l].data_id = 0 /\ row[l].last_retrieval = 0
                           /\ row[l].state = "unborn"
      BY DEF PlatformInit, Init, Blank
    <2>2. \A h \in Handlers : req[h].op = "idle"
      BY DEF PlatformInit, Init, Idle
    <2>3. \A r \in Runs : ~Busy(r)
      BY NoRunIdle DEF PlatformInit, Init
    <2>4. NameInv
      BY <2>1, <2>2, <2>3 DEF NameInv, NamesOf, NotHere, Asks, Works
    <2>5. OneAtATime
      BY <2>2, <2>3 DEF OneAtATime, Alone, Free, ReqOn, RunOn, NotHere
    <2>6. NoSchedule
      BY DEF PlatformInit, Init, NoSchedule, Blank, NoRun, Idle
    <2>7. WellFormed
      BY InitWellFormed DEF PlatformInit
    <2>8. ImportInv
      BY <2>2 DEF ImportInv, Async
    <2>9. NamesApart
      BY <2>1 DEF NamesApart, Live
    <2> QED
      BY <2>4, <2>5, <2>6, <2>7, <2>8, <2>9 DEF SettledInv, Calm
  <1>2. SettledInv /\ ImportInv /\ NamesApart /\ PlatformInv /\ PlatformInv'
        /\ [PlatformNext]_platformVars
        => (SettledInv /\ ImportInv /\ NamesApart)'
    <2> SUFFICES ASSUME SettledInv, ImportInv, NamesApart, PlatformInv, PlatformInv',
                        [PlatformNext]_platformVars
                 PROVE  SettledInv' /\ ImportInv' /\ NamesApart'
      OBVIOUS
    <2>1. WellFormed /\ WellFormed' /\ Calm
      BY DEF PlatformInv, PlatformWellFormed, SettledInv
    <2>2. SettledInv'
      BY <2>1, PlatformSettled
    <2>3. ImportInv'
      BY <2>1, PlatformSteps, ImportKept DEF StepsWell
    <2>4. NamesApart'
      BY <2>1, PlatformApart
    <2> QED
      BY <2>2, <2>3, <2>4
  <1>3. SettledInv /\ ImportInv /\ NamesApart /\ PlatformInv => Orderly
    BY DEF Orderly
  <1> QED
    BY <1>1, <1>2, <1>3, PlatformInvAlways, PTL DEF PlatformSpec

\* The table a live dataset names keeps its rows until the dataset is deleted, or until a
\* run of its own drops it or fails: no import, no restored table, no restart and nothing
\* of another dataset takes them, when users wait for each other's end, nothing is
\* scheduled and every dataset is of one organization (RowsKept; table_transfer.py).
THEOREM RowsKeptAlways ==
    ASSUME Clients = "settled", Recurring = {}, OneOrganization
    PROVE  PlatformSpec => RowsKept
  <1> DEFINE Kept ==
         \A l \in Links :
            LET n == row[l].final_table_name IN
            Live(l) /\ n # 0 /\ owner[n] = l /\ owner'[n] # l =>
               \/ \E h \in Handlers : req[h].op = "delete" /\ req[h].link = l
               \/ \E r \in Runs : run[r].kind \in {"manual", "reimport"} /\ run[r].link = l
                                   /\ run[r].step \in {"drop", "failed"}
  <1>1. Orderly /\ [PlatformNext]_platformVars => Kept
    <2> SUFFICES ASSUME Orderly, [PlatformNext]_platformVars
                 PROVE  Kept
      OBVIOUS
    <2>1. TablesStep
      BY PlatformSteps DEF Orderly, SettledInv, StepsWell
    <2> QED
      BY <2>1, RowsStep
  <1>2. PlatformSpec => [][Kept]_platformVars
    BY <1>1, OrderlyAlways, PTL DEF PlatformSpec
  <1> QED
    BY <1>2 DEF RowsKept

\* While an import holds the event loop, the other steps change a row only to end the
\* request about it.
LEMMA HeldStep ==
    ASSUME Clients = "settled", Recurring = {}, Calm, ImportInv, NEW h \in Handlers,
           req[h].op = "import", req'[h] = req[h], [PlatformNext]_platformVars
    PROVE  \E k \in Links :
              /\ \A m \in Links \ {k} :
                    row'[m] = row[m] /\ \A g \in Handlers : Asks(g, m)' => Asks(g, m)
              /\ \/ row'[k] = row[k] /\ \A g \in Handlers : Asks(g, k)' => Asks(g, k)
                 \/ (\E g \in Handlers : Asks(g, k)) /\ \A g \in Handlers : ~Asks(g, k)'
  <1> DEFINE Goal == \E k \in Links :
              /\ \A m \in Links \ {k} :
                    row'[m] = row[m] /\ \A g \in Handlers : Asks(g, m)' => Asks(g, m)
              /\ \/ row'[k] = row[k] /\ \A g \in Handlers : Asks(g, k)' => Asks(g, k)
                 \/ (\E g \in Handlers : Asks(g, k)) /\ \A g \in Handlers : ~Asks(g, k)'
  <1>1. /\ ~LoopFree /\ \A g \in Handlers : ~CanStart(g)
        /\ \A g \in Handlers : req[g].op \in Async => g = h
        /\ Idle.op = "idle"
    BY DEF LoopFree, CanStart, ImportInv, Async, Idle
  <1>2. ASSUME UNCHANGED row,
               \A g \in Handlers : req'[g] = req[g] \/ req'[g].op \in NotHere
        PROVE  Goal
    <2>1. \E k \in Links : TRUE
      BY Parts DEF Calm, RequestsInv, RequestWellFormed
    <2>2. \A g \in Handlers, m \in Links : Asks(g, m)' => Asks(g, m)
      BY <1>2 DEF Asks
    <2> QED
      BY <1>2, <2>1, <2>2
  <1>3. ASSUME NEW k \in Links, OnlyOn(k),
               \/ row'[k] = row[k] /\ \A g \in Handlers : Asks(g, k)' => Asks(g, k)
               \/ (\E g \in Handlers : Asks(g, k)) /\ \A g \in Handlers : ~Asks(g, k)'
        PROVE  Goal
    <2>1. \A m \in Links \ {k} :
             row'[m] = row[m] /\ \A g \in Handlers : Asks(g, m)' => Asks(g, m)
      BY <1>3 DEF OnlyOn
    <2> QED
      BY <1>3, <2>1
  <1> SUFFICES Goal
    OBVIOUS
  <1> HIDE DEF Goal
  <1>4. ASSUME NEW k \in Links, CalmStep(k)
        PROVE  Goal
    <2>1. ASSUME NEW g \in Handlers, k = req[g].link, process_staging_data_commit(g)
          PROVE  Goal
      BY <1>3, <2>1, CommitEffect
    <2>2. ASSUME NEW r \in Runs, k = run[r].link, RunStep(r)
          PROVE  Goal
      BY <1>2, <2>2, TaskEffect
    <2>3. ASSUME NEW r \in Runs, k = run[r].link, callback_lost(r)
          PROVE  Goal
      BY <1>2, <2>3, LostEffect
    <2>4. ASSUME NEW g \in Handlers, k = req[g].link, delete_dataset_data(g)
          PROVE  Goal
      <3>1. OnlyOn(k) /\ Asks(g, k) /\ UNCHANGED row
            /\ \A f \in Handlers : Asks(f, k)' <=> f = g
        BY <2>4, DeleteDataEffect
      <3> QED
        BY <1>3, <3>1
    <2>5. ASSUME NEW g \in Handlers, k = req[g].link, delete_dataset_row(g)
          PROVE  Goal
      BY <1>3, <2>5, DeleteRowEffect
    <2>6. ASSUME NEW g \in Handlers, k = req[g].link, rollback_drop(g)
          PROVE  Goal
      <3>1. OnlyOn(k) /\ Asks(g, k) /\ UNCHANGED row
            /\ \A f \in Handlers : Asks(f, k)' <=> f = g
        BY <2>6, RollbackDropEffect
      <3> QED
        BY <1>3, <3>1
    <2>7. ASSUME NEW g \in Handlers, k = req[g].link, rollback_commit(g)
          PROVE  Goal
      BY <1>3, <2>7, RollbackCommitEffect
    <2>8. \A g \in Handlers : ~edit_staging_trigger(g) /\ ~process_dag_success_commit(g)
      BY <1>1 DEF edit_staging_trigger, process_dag_success_commit, Async
    <2>9. /\ \A isFile \in BOOLEAN : ~submit_staging(k, isFile)
          /\ \A g \in Handlers, isFile \in BOOLEAN : ~edit_staging_commit(g, k, isFile)
          /\ \A r \in Runs : ~StagingCallback(r)
          /\ \A g \in Handlers, recurrence \in BOOLEAN :
                ~process_staging_data_prepare(g, k, recurrence)
          /\ \A g \in Handlers, r \in Runs : ~process_dag_success_publish(g, r)
          /\ \A r \in Runs : ~process_dag_failure_callback(r)
          /\ \A g \in Handlers : ~delete_dataset_cancel(g, k)
      BY <1>1 DEF submit_staging, edit_staging_commit, StagingCallback,
                  staging_dag_success_callback, staging_dag_failure_callback, process_staging_data_prepare,
                  process_dag_success_publish, process_dag_failure_callback,
                  delete_dataset_cancel
    <2> QED
      BY <1>4, <2>1, <2>2, <2>3, <2>4, <2>5, <2>8, <2>9, <2>6, <2>7 DEF CalmStep
  <1>5. CASE UNCHANGED platformVars
    BY <1>2, <1>5 DEF platformVars, vars
  <1>6. CASE LocalNext
    BY <1>2, <1>6, LocalStepEffect DEF Calm, LocalNext, local_callback_lost, backendVars
  <1>7. CASE AdministrationNext(Airflow)
    <2>1. \A g \in Handlers, k \in Links, delete_layer, delete_metadata \in BOOLEAN :
             ~delete_integrity_link_admin(g, k, Airflow, delete_layer, delete_metadata)
      BY <1>1 DEF delete_integrity_link_admin
    <2> QED
      BY <1>1, <1>2, <1>7, <2>1, AdminStartEffect
  <1>8. CASE AdministrationGoesOn(Airflow)
    <2>1. ASSUME NEW g \in Handlers, restore_table(g)
          PROVE  Goal
      BY <1>1, <1>2, <2>1, Parts DEF Calm, RequestsInv, restore_table, backendVars, NotHere
    <2>2. \A g \in Handlers : ~import_integrity_link_commit(g)
      BY <1>1, Parts DEF Calm, RequestsInv, import_integrity_link_commit, Async
    <2>3. ASSUME NEW g \in Handlers, remove_dataset(g, Airflow)
          PROVE  Goal
      <3>1. PICK k \in Links : k = req[g].link
        BY <2>3, Parts DEF Calm, remove_dataset, RequestsInv, RequestWellFormed
      <3> QED
        BY <1>3, <2>3, <3>1, RemoveEffect
    <2> QED
      BY <1>8, <2>1, <2>2, <2>3 DEF AdministrationGoesOn
  <1>9. ~restart
    BY <1>1 DEF restart
  <1>10. CASE Next
    BY <1>4, <1>10, CalmCases
  <1> QED
    BY <1>5, <1>6, <1>7, <1>8, <1>9, <1>10, PlatformParts DEF Next

\* Another dataset has name n, and no request is about it.
Taken(l, n) ==
    \E m \in Links \ {l} : /\ Live(m) /\ row[m].final_table_name = n
                           /\ \A g \in Handlers : ~Asks(g, m)

\* The table and the layer an import is to attach stay, or the name is taken.
AttachInv ==
    \A h \in Handlers, l \in Links :
        req[h].op = "import" /\ req[h].link = l /\ req[h].flag =>
           LET n == req[h].final_table_name IN
           IF name_taken(l, n) THEN Taken(l, n)
           ELSE owner[n] # NoLink /\ layer(l, n) \in layers

\* An import that goes on.
LEMMA AttachGoesOn ==
    ASSUME Clients = "settled", Recurring = {}, OneOrganization, Orderly, ImportInv',
           [PlatformNext]_platformVars, StepsWell, NEW h \in Handlers, NEW l \in Links, NEW n,
           req[h].op = "import", req[h].link = l, n = req[h].final_table_name,
           req'[h] = req[h],
           IF name_taken(l, n) THEN Taken(l, n) ELSE owner[n] # NoLink /\ layer(l, n) \in layers
    PROVE  IF name_taken(l, n)' THEN Taken(l, n)' ELSE owner'[n] # NoLink /\ layer(l, n) \in layers'
  <1>1. Calm /\ SettledInv /\ WellFormed /\ ImportInv /\ ~Live(l)
        /\ row'[l].state # "live"
    BY DEF Orderly, SettledInv, Calm, ImportInv, Live
  <1>2. n \in Names /\ l # NoLink
    BY <1>1, Parts, ConstantsAssumption
    DEF Orderly, PlatformInv, RequestsInv, Request, Names
  <1>3. PICK k \in Links :
              /\ \A m \in Links \ {k} :
                    row'[m] = row[m] /\ \A g \in Handlers : Asks(g, m)' => Asks(g, m)
              /\ \/ row'[k] = row[k] /\ \A g \in Handlers : Asks(g, k)' => Asks(g, k)
                 \/ (\E g \in Handlers : Asks(g, k)) /\ \A g \in Handlers : ~Asks(g, k)'
    BY <1>1, HeldStep
  <1>4. /\ name_taken(l, n) <=> \E m \in Links \ {l} : Live(m) /\ row[m].final_table_name = n
        /\ name_taken(l, n)' <=>
              \E m \in Links \ {l} : row'[m].state = "live" /\ row'[m].final_table_name = n
    BY DEF name_taken, OneOrganization, Live
  <1>5. ASSUME NEW m \in Links \ {l}, row'[m].state = "live", row'[m].final_table_name = n,
               \A g \in Handlers : ~Asks(g, m)'
        PROVE  Taken(l, n)'
    BY <1>5 DEF Taken, Live
  <1>6. CASE name_taken(l, n)
    <2>1. PICK m \in Links \ {l} : /\ Live(m) /\ row[m].final_table_name = n
                                   /\ \A g \in Handlers : ~Asks(g, m)
      BY <1>6 DEF Taken
    <2>2. row'[m] = row[m] /\ \A g \in Handlers : ~Asks(g, m)'
      BY <1>3, <2>1
    <2>3. name_taken(l, n)' /\ Taken(l, n)'
      BY <1>4, <1>5, <2>1, <2>2 DEF Live
    <2> QED
      BY <2>3
  <1>7. CASE ~name_taken(l, n)
    <2>1. owner[n] # NoLink /\ layer(l, n) \in layers
      BY <1>7
    <2>2. CASE name_taken(l, n)'
      <3>1. PICK m \in Links \ {l} : row'[m].state = "live" /\ row'[m].final_table_name = n
        BY <1>4, <2>2
      <3>2. row'[m] # row[m]
        BY <1>4, <1>7, <3>1 DEF Live
      <3>3. \A g \in Handlers : ~Asks(g, m)'
        BY <1>3, <3>2
      <3> QED
        BY <1>5, <2>2, <3>1, <3>3
    <2>3. ~ \E m \in Links : Live(m) /\ row[m].final_table_name = n
      BY <1>1, <1>4, <1>7
    <2>4. \A g \in Handlers : ~(req[g].op = "delete" /\ req[g].final_table_name = n)
      BY <1>1, <2>3, WhoWrites
    <2>5. \A r \in Runs : ~(Busy(r) /\ run[r].kind \in FinalKinds
                            /\ run[r].final_table_name = n)
      BY <1>1, <2>3, WhoWrites
    <2>6. owner'[n] # NoLink
      BY <1>2, <2>1, <2>4, <2>5 DEF StepsWell, TablesStep
    <2>7. layer(l, n) \in layers'
      BY <2>1, <2>4 DEF StepsWell, LayersStep, layer
    <2> QED
      BY <2>2, <2>6, <2>7
  <1> QED
    BY <1>6, <1>7

\* Every import.
LEMMA AttachKept ==
    ASSUME Clients = "settled", Recurring = {}, OneOrganization, Orderly, ImportInv',
           [PlatformNext]_platformVars, StepsWell, AttachInv
    PROVE  AttachInv'
  <1> SUFFICES ASSUME NEW h \in Handlers, NEW l \in Links, NEW n, req'[h].op = "import",
                      req'[h].link = l, req'[h].flag, n = req'[h].final_table_name
               PROVE  IF name_taken(l, n)' THEN Taken(l, n)'
                      ELSE owner'[n] # NoLink /\ layer(l, n) \in layers'
    BY DEF AttachInv, name_taken, Taken, layer, Live, Asks
  <1>1. CASE req'[h] = req[h]
    <2>1. /\ req[h].op = "import" /\ req[h].link = l /\ req[h].flag
          /\ n = req[h].final_table_name
      BY <1>1
    <2>2. IF name_taken(l, n) THEN Taken(l, n) ELSE owner[n] # NoLink /\ layer(l, n) \in layers
      BY <2>1 DEF AttachInv
    <2> QED
      BY <1>1, <2>1, <2>2, AttachGoesOn
  <1>2. CASE req'[h] # req[h]
    <2>1. /\ UNCHANGED row /\ ~name_used(n)
          /\ owner'[n] # NoLink /\ layer(l, n) \in layers'
      BY <1>2 DEF StepsWell, LoopStep, ImportStarted, Async
    <2>2. ~name_taken(l, n)'
      BY <2>1 DEF name_taken, name_used, Live
    <2> QED
      BY <2>1, <2>2
  <1> QED
    BY <1>1, <1>2

\* A dataset with the date of an import is there by the end of one that attaches it.
LEMMA AttachedBirth ==
    ASSUME Clients = "settled", Recurring = {}, Orderly, [PlatformNext]_platformVars,
           NEW l \in Links, ~Live(l), Live(l)', row'[l].last_retrieval = Imported
    PROVE  \E h \in Handlers :
              /\ req[h].op = "import" /\ req[h].link = l /\ req[h].flag
              /\ ~name_taken(l, req[h].final_table_name)
              /\ row'[l].final_table_name = req[h].final_table_name
              /\ row'[l].data_id = req[h].final_table_name
              /\ UNCHANGED <<owner, layers>>
  <1> DEFINE Goal == \E h \in Handlers :
              /\ req[h].op = "import" /\ req[h].link = l /\ req[h].flag
              /\ ~name_taken(l, req[h].final_table_name)
              /\ row'[l].final_table_name = req[h].final_table_name
              /\ row'[l].data_id = req[h].final_table_name
              /\ UNCHANGED <<owner, layers>>
  <1> SUFFICES Goal
    OBVIOUS
  <1>1. Calm /\ Imported # 0
    BY ConstantsAssumption DEF Orderly, SettledInv, Imported
  <1>2. row'[l] # row[l]
    BY DEF Live
  <1>3. ASSUME NEW k \in Links, CalmStep(k)
        PROVE  FALSE
    <2>1. OnlyOn(k) => k = l
      BY <1>2 DEF OnlyOn
    <2>2. ASSUME NEW isFile \in BOOLEAN, submit_staging(k, isFile)
          PROVE  FALSE
      BY <1>1, <2>1, <2>2, SubmitEffect
    <2>3. ASSUME NEW h \in Handlers, NEW isFile \in BOOLEAN, edit_staging_commit(h, k, isFile)
          PROVE  FALSE
      BY <1>1, <2>1, <2>3, EditEffect
    <2>4. ASSUME NEW h \in Handlers, k = req[h].link, edit_staging_trigger(h)
          PROVE  FALSE
      BY <1>1, <1>2, <2>4, EditTriggerEffect
    <2>5. ASSUME NEW r \in Runs, k = run[r].link, StagingCallback(r)
          PROVE  FALSE
      BY <1>1, <1>2, <2>1, <2>5, StagedEffect
    <2>6. ASSUME NEW h \in Handlers, NEW recurrence \in BOOLEAN,
                 process_staging_data_prepare(h, k, recurrence)
          PROVE  FALSE
      BY <1>1, <1>2, <2>6, PrepareEffect
    <2>7. ASSUME NEW h \in Handlers, k = req[h].link, process_staging_data_commit(h)
          PROVE  FALSE
      BY <1>1, <2>1, <2>7, CommitEffect
    <2>8. ASSUME NEW h \in Handlers, NEW r \in Runs, k = run[r].link,
                 process_dag_success_publish(h, r)
          PROVE  FALSE
      BY <1>1, <1>2, <2>8, PublishEffect
    <2>9. ASSUME NEW h \in Handlers, k = req[h].link, process_dag_success_commit(h)
          PROVE  FALSE
      BY <1>1, <2>1, <2>9, RetrievedEffect
    <2>10. ASSUME NEW r \in Runs, k = run[r].link, process_dag_failure_callback(r)
           PROVE  FALSE
      BY <1>1, <1>2, <2>10, DroppedEffect
    <2>11. ASSUME NEW r \in Runs, k = run[r].link, RunStep(r)
           PROVE  FALSE
      BY <1>1, <1>2, <2>11, TaskEffect
    <2>12. ASSUME NEW r \in Runs, k = run[r].link, callback_lost(r)
           PROVE  FALSE
      BY <1>1, <1>2, <2>12, LostEffect
    <2>13. ASSUME NEW h \in Handlers, delete_dataset_cancel(h, k)
           PROVE  FALSE
      BY <1>1, <1>2, <2>13, DeleteEffect
    <2>14. ASSUME NEW h \in Handlers, k = req[h].link, delete_dataset_data(h)
           PROVE  FALSE
      BY <1>1, <1>2, <2>14, DeleteDataEffect
    <2>15. ASSUME NEW h \in Handlers, k = req[h].link, delete_dataset_row(h)
           PROVE  FALSE
      BY <1>1, <2>1, <2>15, DeleteRowEffect
    <2>16. ASSUME NEW h \in Handlers, k = req[h].link, rollback_drop(h)
           PROVE  FALSE
      BY <1>1, <1>2, <2>16, RollbackDropEffect
    <2>17. ASSUME NEW h \in Handlers, k = req[h].link, rollback_commit(h)
           PROVE  FALSE
      BY <1>1, <2>1, <2>17, RollbackCommitEffect
    <2> QED
      BY <1>3, <2>2, <2>3, <2>4, <2>5, <2>6, <2>7, <2>8, <2>9, <2>10, <2>11, <2>12, <2>13,
         <2>14, <2>15, <2>16, <2>17 DEF CalmStep
  <1>4. ~Next
    BY <1>1, <1>3, CalmCases
  <1>5. ~UNCHANGED row
    BY <1>2
  <1>6. ~LocalNext /\ ~restart /\ ~AdministrationNext(Airflow) /\ ~UNCHANGED platformVars
    BY <1>5
    DEF LocalNext, LocalStep, local_run_staging, local_reingest, local_drop,
        local_transform, local_clean, local_callback_lost, backendVars, restart,
        AdministrationNext, copy_record, import_table_data, import_integrity_link,
        delete_integrity_link_admin, platformVars, vars
  <1>7. ASSUME NEW h \in Handlers, restore_table(h) \/ remove_dataset(h, Airflow)
        PROVE  FALSE
    <2>1. remove_dataset(h, Airflow)
      BY <1>5, <1>7 DEF restore_table, backendVars
    <2>2. PICK k \in Links : k = req[h].link
      BY <1>1, <2>1, Parts DEF Calm, remove_dataset, RequestsInv, RequestWellFormed
    <2>3. OnlyOn(k) /\ ~Live(k)'
      BY <1>1, <2>1, <2>2, RemoveEffect
    <2> QED
      BY <1>2, <2>3 DEF OnlyOn
  <1>8. ASSUME NEW h \in Handlers, import_integrity_link_commit(h)
        PROVE  Goal
    <2>1. PICK k \in Links : k = req[h].link
      BY <1>1, <1>8, Parts DEF Calm, import_integrity_link_commit, RequestsInv, RequestWellFormed
    <2>2. ~Live(k)
      BY <1>8, <2>1 DEF import_integrity_link_commit, Orderly, ImportInv
    <2>3. OnlyOn(k) /\ req[h].op = "import" /\ UNCHANGED <<owner, layers, dag>>
      BY <1>1, <1>8, <2>1, <2>2, ImportEffect
    <2>4. \/ ~Live(k)'
          \/ UNCHANGED row
          \/ /\ Live(k)' /\ ~name_taken(k, req[h].final_table_name)
             /\ row'[k].final_table_name = req[h].final_table_name
             /\ row'[k].data_id = IF req[h].flag THEN req[h].final_table_name ELSE 0
             /\ row'[k].last_retrieval = IF req[h].flag THEN Imported ELSE 0
      BY <1>1, <1>8, <2>1, <2>2, ImportEffect
    <2>5. k = l
      BY <1>2, <2>3 DEF OnlyOn
    <2> QED
      BY <1>1, <1>5, <2>1, <2>3, <2>4, <2>5
  <1> HIDE DEF Goal
  <1> QED
    BY <1>4, <1>6, <1>7, <1>8, PlatformParts DEF Next, AdministrationGoesOn

\* A dataset attached to a table found here, whoever's rows are in it, has that table and
\* its layer from the moment its row appears, whatever processings, deletions, runs,
\* faults and restarts come between the checks of the import and its commit, when users
\* wait for each other's end, nothing is scheduled and every dataset is of one
\* organization (AttachedComplete; integrity_link_admin.py, _attach_layer).
THEOREM AttachedCompleteAlways ==
    ASSUME Clients = "settled", Recurring = {}, OneOrganization
    PROVE  PlatformSpec => AttachedComplete
  <1> DEFINE Complete ==
         \A l \in Links :
            ~Live(l) /\ Live(l)' /\ row'[l].last_retrieval = Imported
               => /\ owner[row'[l].final_table_name] # NoLink
                  /\ layer(l, row'[l].data_id) \in layers
  <1>1. PlatformInit => AttachInv
    BY DEF PlatformInit, Init, AttachInv, Idle
  <1>2. Orderly /\ Orderly' /\ AttachInv /\ [PlatformNext]_platformVars => AttachInv'
    BY PlatformSteps, AttachKept DEF Orderly, SettledInv
  <1>3. Orderly /\ AttachInv /\ [PlatformNext]_platformVars => Complete
    <2> SUFFICES ASSUME Orderly, AttachInv, [PlatformNext]_platformVars
                 PROVE  Complete
      OBVIOUS
    <2> QED
      BY AttachedBirth DEF AttachInv
  <1>4. PlatformSpec => [][Complete]_platformVars
    BY <1>1, <1>2, <1>3, OrderlyAlways, PTL DEF PlatformSpec
  <1> QED
    BY <1>4 DEF AttachedComplete
=============================================================================
