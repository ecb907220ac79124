------------------------- MODULE DatasetSettledProofs -------------------------
(***************************************************************************)
(* What users who wait are promised of their uploads, their layers and     *)
(* their tables, for any number of datasets, requests, uploads, names and  *)
(* runs.  "settled" users start nothing on a dataset while something of it *)
(* is under way: their requests, the runs these trigger and the callbacks  *)
(* of the runs follow one another.                                         *)
(***************************************************************************)
EXTENDS DatasetLifecycleProofs

-----------------------------------------------------------------------------
(* How a step changes the runs *)

\* A run keeps what it was started with.
SameConf(r) ==
    /\ run'[r].kind = run[r].kind /\ run'[r].link = run[r].link
    /\ run'[r].source = run[r].source /\ run'[r].is_file = run[r].is_file
    /\ run'[r].final_table_name = run[r].final_table_name

\* Its tasks, or the handling of its end, are still to come.
Busy(r) == run[r].step \in TaskSteps \cup {"success", "failed"}

\* One run goes to a step.
LEMMA GotoEffect ==
    ASSUME RunsInv, NEW r \in Runs, NEW step, run' = Goto(r, step)
    PROVE  \A s \in Runs : SameConf(s) /\ run'[s].step = IF s = r THEN step ELSE run[s].step
  BY DEF RunsInv, Goto, DagRun, SameConf

\* So it does when it has written rows.
LEMMA WroteEffect ==
    ASSUME RunsInv, NEW r \in Runs,
           run' = [run EXCEPT ![r] = [@ EXCEPT !.step = "clean", !.wrote = TRUE]]
    PROVE  \A s \in Runs : SameConf(s) /\ run'[s].step = IF s = r THEN "clean" ELSE run[s].step
  BY DEF RunsInv, DagRun, SameConf

\* Runs are cancelled.
LEMMA CancelledEffect ==
    ASSUME RunsInv, NEW S, run' = Cancelled(S)
    PROVE  \A s \in Runs : /\ SameConf(s)
                           /\ run'[s].step = IF s \in S THEN "cancelled" ELSE run[s].step
  BY DEF RunsInv, Cancelled, DagRun, SameConf

\* A run is added.
LEMMA NewRunEffect ==
    ASSUME RunsInv, NEW conf, lastRun < MaxRuns, run' = [run EXCEPT ![lastRun + 1] = conf]
    PROVE  /\ lastRun + 1 \in Runs /\ run[lastRun + 1] = NoRun
           /\ \A s \in Runs : run'[s] = IF s = lastRun + 1 THEN conf ELSE run[s]
  BY ConstantsAssumption DEF RunsInv, Runs

\* A run that was never started is not busy.
LEMMA NoRunIdle ==
    ASSUME NEW r \in Runs, run[r] = NoRun
    PROVE  ~Busy(r) /\ run[r].kind = "none" /\ run[r].source = 0
  BY DEF NoRun, Busy, TaskSteps

-----------------------------------------------------------------------------
(* One thing at a time *)

\* Requests about no dataset that is here: there is none, or the dataset is on its way.
NotHere == {"idle", "import", "restore"}

\* A request about a dataset, or a run of it, that goes back to its users. The
\* refreshes of the cron and their callbacks come on top.
ReqOn(h, l) ==
    /\ req[h].op \notin NotHere /\ req[h].link = l
    /\ ~(req[h].op = "publish" /\ run[req[h].run].kind = "scheduled")

RunOn(r, l) == Busy(r) /\ run[r].link = l /\ run[r].kind # "scheduled"

Free(l) ==
    /\ \A h \in Handlers : ~ReqOn(h, l)
    /\ \A r \in Runs : ~RunOn(r, l)

Alone(l) ==
    /\ \A h, k \in Handlers : ReqOn(h, l) /\ ReqOn(k, l) => h = k
    /\ \A r, s \in Runs : RunOn(r, l) /\ RunOn(s, l) => r = s
    /\ \A h \in Handlers, r \in Runs : ~(ReqOn(h, l) /\ RunOn(r, l))
    /\ ~Live(l) => Free(l)

\* At most one of them at a time, and of datasets that exist.
OneAtATime == \A l \in Links : Alone(l)

\* Settled users act on free datasets.
LEMMA MayActFree ==
    ASSUME Clients = "settled", NEW l, MayAct(l)
    PROVE  Free(l)
  BY DEF MayAct, Free, ReqOn, RunOn, Busy, TaskSteps

\* A step about one dataset leaves the others alone.
LEMMA OthersAlone ==
    ASSUME OneAtATime, NEW l, l \in Links => Alone(l)',
           \A m \in Links \ {l} :
               /\ \A h \in Handlers : ReqOn(h, m)' => ReqOn(h, m)
               /\ \A r \in Runs : RunOn(r, m)' => RunOn(r, m)
               /\ Live(m) => Live(m)'
    PROVE  OneAtATime'
  <1>1. ASSUME NEW m \in Links, m # l
        PROVE  Alone(m)'
    BY <1>1 DEF OneAtATime, Alone, Free
  <1> QED
    BY <1>1 DEF OneAtATime

\* The steps after which no run is busy that was not, nor another run that it was.
RunsGoOn == \A r \in Runs : SameConf(r) /\ (Busy(r)' => Busy(r))

\* Then what was on no dataset is on none.
LEMMA GoOnKept ==
    ASSUME WellFormed, RunsGoOn
    PROVE  /\ \A r \in Runs, m \in Links : RunOn(r, m)' => RunOn(r, m)
           /\ \A h \in Handlers, m \in Links : req'[h] = req[h] /\ ReqOn(h, m)' => ReqOn(h, m)
  <1>1. \A h \in Handlers : req[h].op = "publish" => req[h].run \in Runs
    BY Parts, ConstantsAssumption DEF RequestsInv, Request, RequestWellFormed, Runs
  <1> QED
    BY <1>1 DEF RunsGoOn, SameConf, RunOn, ReqOn

\* Runs go on, or are cancelled.
LEMMA RunsGoOnAlone ==
    ASSUME WellFormed, OneAtATime, RunsGoOn, UNCHANGED req,
           \A l \in Links : Live(l) => Live(l)'
    PROVE  OneAtATime'
  <1>1. \A m \in Links : /\ \A h \in Handlers : ReqOn(h, m)' => ReqOn(h, m)
                         /\ \A r \in Runs : RunOn(r, m)' => RunOn(r, m)
    BY GoOnKept
  <1> QED
    BY <1>1 DEF OneAtATime, Alone, Free

\* A request starts on a free dataset.
LEMMA StartAlone ==
    ASSUME WellFormed, OneAtATime, RunsGoOn, NEW h \in Handlers, NEW q,
           req' = [req EXCEPT ![h] = q], q.op \notin {"idle", "publish"},
           q.link \in Links, Free(q.link), Live(q.link),
           \A l \in Links : Live(l) => Live(l)'
    PROVE  OneAtATime'
  <1>1. \A g \in Handlers : req'[g] = IF g = h THEN q ELSE req[g]
    BY Parts DEF RequestsInv
  <1>2. \A g \in Handlers, m \in Links \ {q.link} : ReqOn(g, m)' => ReqOn(g, m)
    BY <1>1, GoOnKept DEF ReqOn
  <1>3. \A g \in Handlers : ReqOn(g, q.link)' => g = h
    BY <1>1, GoOnKept DEF Free
  <1>4. \A r \in Runs : ~RunOn(r, q.link)'
    BY GoOnKept DEF Free
  <1>5. Alone(q.link)'
    BY <1>3, <1>4 DEF Alone
  <1> QED
    BY <1>2, <1>5, GoOnKept, OthersAlone

\* A request ends.
LEMMA EndAlone ==
    ASSUME WellFormed, OneAtATime, RunsGoOn, NEW h \in Handlers,
           req' = [req EXCEPT ![h] = Idle],
           \A l \in Links : Live(l) => Live(l)' \/ ReqOn(h, l)
    PROVE  OneAtATime'
  <1>1. \A g \in Handlers : req'[g] = IF g = h THEN Idle ELSE req[g]
    BY Parts DEF RequestsInv
  <1>2. \A g \in Handlers, m \in Links : ReqOn(g, m)' => ReqOn(g, m) /\ g # h
    BY <1>1, GoOnKept DEF NotHere, ReqOn, Idle
  <1>3. ASSUME NEW m \in Links
        PROVE  Alone(m)'
    <2>1. CASE Live(m) => Live(m)'
      BY <1>2, <2>1, GoOnKept DEF OneAtATime, Alone, Free
    <2>2. CASE ReqOn(h, m)
      BY <1>2, <2>2, GoOnKept DEF OneAtATime, Alone, Free
    <2> QED
      BY <2>1, <2>2
  <1> QED
    BY <1>3 DEF OneAtATime

\* A request triggers a run of its dataset, or fails to.
LEMMA TriggerAlone ==
    ASSUME WellFormed, OneAtATime, NEW h \in Handlers, NEW conf,
           req' = [req EXCEPT ![h] = Idle], req[h].op \notin NotHere \cup {"publish"},
           conf.link = req[h].link, conf.kind # "none", Trigger(conf),
           \A l \in Links : Live(l) => Live(l)'
    PROVE  OneAtATime'
  <1>1. CASE UNCHANGED run
    BY <1>1, EndAlone DEF RunsGoOn, SameConf, Busy
  <1>2. CASE lastRun < MaxRuns /\ run' = [run EXCEPT ![lastRun + 1] = conf]
    <2> DEFINE new == lastRun + 1
    <2>1. PICK l \in Links : l = req[h].link
      BY Parts DEF NotHere, RequestsInv, RequestWellFormed
    <2>2. /\ new \in Runs /\ run[new] = NoRun
          /\ \A s \in Runs : run'[s] = IF s = new THEN conf ELSE run[s]
      BY <1>2, NewRunEffect, Parts
    <2>3. /\ ReqOn(h, l)
          /\ \A g \in Handlers : req'[g] = IF g = h THEN Idle ELSE req[g]
          /\ \A g \in Handlers : req[g].op = "publish" => req[g].run \in Runs
      BY <2>1, Parts, ConstantsAssumption
      DEF NotHere, RequestsInv, Request, RequestWellFormed, Runs, ReqOn
    <2>4. \A g \in Handlers, m \in Links : ReqOn(g, m)' => ReqOn(g, m) /\ g # h
      BY <2>2, <2>3, NoRunIdle DEF NotHere, ReqOn, Idle
    <2>5. \A r \in Runs, m \in Links : RunOn(r, m)' => RunOn(r, m) \/ (r = new /\ m = l)
      BY <2>1, <2>2 DEF RunOn, Busy
    <2>6. \A r \in Runs : RunOn(r, l)' => r = new
      BY <2>3, <2>5 DEF OneAtATime, Alone
    <2>7. \A g \in Handlers : ~ReqOn(g, l)'
      BY <2>3, <2>4 DEF OneAtATime, Alone
    <2>8. Alone(l)'
      BY <2>3, <2>6, <2>7 DEF Alone, OneAtATime, Free
    <2> QED
      BY <2>4, <2>5, <2>8, OthersAlone
  <1> QED
    BY <1>1, <1>2 DEF Trigger

\* The cron starts a run.
LEMMA CronAlone ==
    ASSUME WellFormed, OneAtATime, NEW conf, conf.kind = "scheduled", UNCHANGED <<req, row>>,
           lastRun < MaxRuns, run' = [run EXCEPT ![lastRun + 1] = conf]
    PROVE  OneAtATime'
  <1> DEFINE new == lastRun + 1
  <1>1. /\ new \in Runs /\ run[new] = NoRun
        /\ \A s \in Runs : run'[s] = IF s = new THEN conf ELSE run[s]
    BY NewRunEffect, Parts
  <1>2. \A g \in Handlers : req[g].op = "publish" => req[g].run \in Runs
    BY Parts, ConstantsAssumption DEF RequestsInv, Request, RequestWellFormed, Runs
  <1>3. \A g \in Handlers, m \in Links : ReqOn(g, m)' => ReqOn(g, m)
    BY <1>1, <1>2, NoRunIdle DEF ReqOn
  <1>4. \A r \in Runs, m \in Links : RunOn(r, m)' => RunOn(r, m)
    BY <1>1 DEF RunOn, Busy
  <1> QED
    BY <1>3, <1>4 DEF OneAtATime, Alone, Free, Live

\* A first staging run, with its row.
LEMMA SubmitAlone ==
    ASSUME WellFormed, OneAtATime, NEW l \in Links, NEW conf, ~Live(l), Live(l)',
           conf.link = l, Trigger(conf), UNCHANGED req,
           \A m \in Links : Live(m) => Live(m)'
    PROVE  OneAtATime'
  <1>1. CASE UNCHANGED run
    BY <1>1, RunsGoOnAlone DEF RunsGoOn, SameConf, Busy
  <1>2. CASE lastRun < MaxRuns /\ run' = [run EXCEPT ![lastRun + 1] = conf]
    <2> DEFINE new == lastRun + 1
    <2>1. /\ new \in Runs /\ run[new] = NoRun
          /\ \A s \in Runs : run'[s] = IF s = new THEN conf ELSE run[s]
      BY <1>2, NewRunEffect, Parts
    <2>2. \A g \in Handlers : req[g].op = "publish" => req[g].run \in Runs
      BY Parts, ConstantsAssumption DEF RequestsInv, Request, RequestWellFormed, Runs
    <2>3. \A g \in Handlers, m \in Links : ReqOn(g, m)' => ReqOn(g, m)
      BY <2>1, <2>2, NoRunIdle DEF ReqOn
    <2>4. \A r \in Runs, m \in Links : RunOn(r, m)' => RunOn(r, m) \/ (r = new /\ m = l)
      BY <2>1 DEF RunOn, Busy
    <2>5. Free(l)
      BY DEF OneAtATime, Alone
    <2>6. Alone(l)'
      BY <2>3, <2>4, <2>5 DEF Alone, Free
    <2> QED
      BY <2>3, <2>4, <2>6, OthersAlone
  <1> QED
    BY <1>1, <1>2 DEF Trigger

\* The success callback of a run of process_dag goes on as a request.
LEMMA PublishAlone ==
    ASSUME WellFormed, OneAtATime, NEW h \in Handlers, NEW r \in Runs,
           process_dag_success_publish(h, r)
    PROVE  OneAtATime'
  <1>1. /\ UNCHANGED row /\ run[r].step = "success" /\ run[r].kind \in ProcessKinds
        /\ \A s \in Runs : SameConf(s) /\ run'[s].step = IF s = r THEN "over" ELSE run[s].step
    BY GotoEffect, Parts DEF process_dag_success_publish, backendVars, CallbackCalled
  <1>2. RunsGoOn /\ \A l \in Links : Live(l)' = Live(l)
    BY <1>1 DEF RunsGoOn, Busy, TaskSteps, Live
  <1>3. CASE UNCHANGED req
    BY <1>2, <1>3, RunsGoOnAlone
  <1>4. CASE \E published \in BOOLEAN :
                req' = [req EXCEPT ![h] = [Idle EXCEPT !.op = "publish", !.link = run[r].link,
                          !.run = r, !.final_table_name = run[r].final_table_name,
                          !.flag = published]]
    <2>1. PICK l \in Links : l = run[r].link
      BY <1>1, Parts DEF RunsInv, RunWellFormed, NoRun, ProcessKinds
    <2>2. /\ \A g \in Handlers \ {h} : req'[g] = req[g]
          /\ req'[h].op = "publish" /\ req'[h].link = l /\ req'[h].run = r
      BY <1>4, <2>1, Parts DEF RequestsInv, Idle
    <2>3. \A g \in Handlers, m \in Links :
             ReqOn(g, m)' => ReqOn(g, m) \/ (g = h /\ m = l /\ RunOn(r, l))
      <3>1. ASSUME NEW m \in Links, ReqOn(h, m)'
            PROVE  m = l /\ run[r].kind # "scheduled"
        BY <1>1, <2>2, <3>1 DEF ReqOn, SameConf
      <3>2. run[r].kind # "scheduled" => RunOn(r, l)
        BY <1>1, <2>1 DEF RunOn, Busy
      <3> QED
        BY <1>2, <2>2, <3>1, <3>2, GoOnKept
    <2>4. \A s \in Runs, m \in Links : RunOn(s, m)' => RunOn(s, m) /\ s # r
      BY <1>1, <1>2, GoOnKept DEF RunOn, Busy, TaskSteps
    <2>5. \A m \in Links \ {l} : /\ \A g \in Handlers : ReqOn(g, m)' => ReqOn(g, m)
                                 /\ \A s \in Runs : RunOn(s, m)' => RunOn(s, m)
                                 /\ Live(m) => Live(m)'
      BY <1>2, <2>3, <2>4
    <2>6. CASE RunOn(r, l)
      <3>1. Live(l)' /\ \A g \in Handlers : ReqOn(g, l)' => g = h
        BY <1>2, <2>3, <2>6 DEF OneAtATime, Alone, Free
      <3>2. \A s \in Runs : ~RunOn(s, l)'
        BY <2>4, <2>6 DEF OneAtATime, Alone
      <3>3. Alone(l)'
        BY <3>1, <3>2 DEF Alone
      <3> QED
        BY <2>5, <3>3, OthersAlone
    <2>7. CASE ~RunOn(r, l)
      <3>1. Alone(l)'
        BY <1>2, <2>3, <2>4, <2>7 DEF OneAtATime, Alone, Free
      <3> QED
        BY <2>5, <3>1, OthersAlone
    <2> QED
      BY <2>6, <2>7
  <1> QED
    BY <1>3, <1>4 DEF process_dag_success_publish

\* The failure callback of a first staging goes on as a request that takes its dataset
\* back.
LEMMA FailedAlone ==
    ASSUME WellFormed, OneAtATime, NEW h \in Handlers, NEW r \in Runs,
           staging_dag_failure_callback(h, r)
    PROVE  OneAtATime'
  <1>1. /\ run[r].step = "failed" /\ run[r].kind = "staging" /\ UNCHANGED row
        /\ \A s \in Runs : SameConf(s) /\ run'[s].step = IF s = r THEN "over" ELSE run[s].step
    BY GotoEffect, Parts DEF staging_dag_failure_callback, CallbackCalled
  <1>2. RunsGoOn /\ \A m \in Links : Live(m)' = Live(m)
    BY <1>1 DEF RunsGoOn, Busy, TaskSteps, Live
  <1>3. CASE UNCHANGED req
    BY <1>2, <1>3, RunsGoOnAlone
  <1>4. CASE \E q \in Request : /\ q.op = "rollback" /\ q.link = run[r].link
                               /\ req' = [req EXCEPT ![h] = q]
    <2>1. PICK l \in Links : l = run[r].link
      BY <1>1, Parts DEF RunsInv, RunWellFormed, NoRun
    <2>2. RunOn(r, l) /\ Live(l)
      BY <1>1, <2>1 DEF RunOn, Busy, TaskSteps, OneAtATime, Alone, Free
    <2>3. /\ \A g \in Handlers \ {h} : req'[g] = req[g]
          /\ req'[h].op = "rollback" /\ req'[h].link = l
      BY <1>4, <2>1, Parts DEF RequestsInv
    <2>4. \A g \in Handlers, m \in Links : ReqOn(g, m)' => ReqOn(g, m) \/ (g = h /\ m = l)
      BY <1>2, <2>3, GoOnKept DEF ReqOn
    <2>5. \A s \in Runs, m \in Links : RunOn(s, m)' => RunOn(s, m) /\ s # r
      BY <1>1, <1>2, GoOnKept DEF RunOn, Busy, TaskSteps
    <2>6. \A g \in Handlers : ReqOn(g, l)' => g = h
      BY <2>2, <2>4 DEF OneAtATime, Alone
    <2>7. \A s \in Runs : ~RunOn(s, l)'
      BY <2>2, <2>5 DEF OneAtATime, Alone
    <2>8. Alone(l)'
      BY <1>2, <2>2, <2>6, <2>7 DEF Alone
    <2> QED
      BY <1>2, <2>4, <2>5, <2>8, OthersAlone
  <1> QED
    BY <1>3, <1>4, FailureCallbackDecides, Parts

\* The next step of a request.
LEMMA NextStepAlone ==
    ASSUME WellFormed, OneAtATime, NEW h \in Handlers, NEW q, UNCHANGED <<row, run>>,
           req[h].op \notin NotHere \cup {"publish"}, q.op \notin NotHere \cup {"publish"},
           q.link = req[h].link, req' = [req EXCEPT ![h] = q]
    PROVE  OneAtATime'
  <1>1. RunsGoOn
    BY DEF RunsGoOn, SameConf, Busy
  <1>2. \A g \in Handlers : req'[g] = IF g = h THEN q ELSE req[g]
    BY Parts DEF RequestsInv
  <1>3. \A g \in Handlers, m \in Links : ReqOn(g, m)' => ReqOn(g, m)
    BY <1>1, <1>2, GoOnKept DEF ReqOn
  <1>4. \A r \in Runs, m \in Links : RunOn(r, m)' => RunOn(r, m)
    BY <1>1, GoOnKept
  <1> QED
    BY <1>3, <1>4 DEF OneAtATime, Alone, Free, Live

-----------------------------------------------------------------------------
(* OneAtATime is kept *)

\* What the requests that replace a source, cancel runs or clear a schedule have in
\* common: a row changed without an end to any.
LEMMA RowChangeLive ==
    ASSUME StoreInv, NEW l \in Links, NEW x, x.state = row[l].state,
           row' = [row EXCEPT ![l] = x]
    PROVE  \A m \in Links : Live(m)' = Live(m)
  BY DEF StoreInv, Live

\* By the staging routes.
LEMMA StagingAlone ==
    ASSUME Clients = "settled", WellFormed, OneAtATime, StagingNext
    PROVE  OneAtATime'
  <1> USE DEF backendVars, airflowVars
  <1>1. ASSUME NEW l \in Links, NEW isFile \in BOOLEAN, submit_staging(l, isFile)
        PROVE  OneAtATime'
    <2> DEFINE x == [Blank EXCEPT !.state = "live", !.staging_table_name = lastUpload + 1,
                                  !.is_file = isFile]
    <2>1. /\ row' = [row EXCEPT ![l] = x] /\ row[l].state = "unborn" /\ UNCHANGED req
          /\ Trigger(StagingRun(l, lastUpload + 1, isFile))
      BY <1>1 DEF submit_staging, fresh
    <2>2. x.state = "live" /\ StagingRun(l, lastUpload + 1, isFile).link = l
      BY DEF Blank, StagingRun, NoRun
    <2>3. ~Live(l) /\ Live(l)' /\ \A m \in Links : Live(m) => Live(m)'
      BY <2>1, <2>2, Parts DEF StoreInv, Live
    <2> HIDE DEF x
    <2> QED
      BY <2>1, <2>2, <2>3, SubmitAlone
  <1>2. ASSUME NEW h \in Handlers, NEW l \in Links, NEW isFile \in BOOLEAN,
               edit_staging_commit(h, l, isFile)
        PROVE  OneAtATime'
    <2> DEFINE x == [row[l] EXCEPT !.staging_table_name = lastUpload + 1, !.is_file = isFile]
               q == [Idle EXCEPT !.op = "edit", !.link = l, !.upload = lastUpload + 1,
                                 !.staging_table_name = row[l].staging_table_name,
                                 !.flag = isFile]
    <2>1. /\ row' = [row EXCEPT ![l] = x] /\ req' = [req EXCEPT ![h] = q]
          /\ Live(l) /\ MayAct(l) /\ UNCHANGED run
      BY <1>2 DEF edit_staging_commit
    <2>2. x.state = row[l].state /\ q.op = "edit" /\ q.link = l
      BY Parts DEF StoreInv, IntegrityLink, Idle
    <2> HIDE DEF x, q
    <2>3. \A m \in Links : Live(m)' = Live(m)
      BY <2>1, <2>2, Parts, RowChangeLive
    <2>4. RunsGoOn /\ Free(l)
      BY <2>1, MayActFree DEF RunsGoOn, SameConf, Busy
    <2> QED
      BY <2>1, <2>2, <2>3, <2>4, StartAlone
  <1>3. ASSUME NEW h \in Handlers, edit_staging_trigger(h)
        PROVE  OneAtATime'
    <2> DEFINE conf == StagingRun(req[h].link, req[h].upload, req[h].flag)
    <2>1. conf.link = req[h].link /\ conf.kind = "staging"
      BY DEF StagingRun, NoRun
    <2>2. /\ req[h].op = "edit" /\ req' = [req EXCEPT ![h] = Idle] /\ Trigger(conf)
          /\ UNCHANGED row
      BY <1>3 DEF edit_staging_trigger
    <2> HIDE DEF conf
    <2> QED
      BY <2>1, <2>2, TriggerAlone DEF NotHere, Live
  <1>4. ASSUME NEW r \in Runs, staging_dag_success_callback(r)
        PROVE  OneAtATime'
    <2>1. run' = Goto(r, "over") /\ UNCHANGED <<row, req>>
      BY <1>4 DEF staging_dag_success_callback, CallbackCalled
    <2>2. RunsGoOn
      BY <2>1, Parts, GotoEffect DEF RunsGoOn, Busy, TaskSteps
    <2> QED
      BY <2>1, <2>2, RunsGoOnAlone DEF Live
  <1>5. ASSUME NEW h \in Handlers, rollback_drop(h)
        PROVE  OneAtATime'
    <2>1. PICK q \in Request : /\ q.op = "discard" /\ q.link = req[h].link
                               /\ req' = [req EXCEPT ![h] = q]
      BY <1>5, Parts, RollbackGoesOn
    <2>2. UNCHANGED <<row, run>> /\ req[h].op = "rollback"
      BY <1>5 DEF rollback_drop
    <2> QED
      BY <2>1, <2>2, NextStepAlone DEF NotHere
  <1>6. ASSUME NEW h \in Handlers, rollback_commit(h)
        PROVE  OneAtATime'
    <2>1. req[h].op = "discard" /\ req' = [req EXCEPT ![h] = Idle] /\ UNCHANGED run
      BY <1>6 DEF rollback_commit
    <2>2. PICK l \in Links : l = req[h].link
      BY <2>1, Parts DEF RequestsInv, RequestWellFormed
    <2>3. \A m \in Links : Live(m) => Live(m)' \/ ReqOn(h, m)
      BY <1>6, <2>1, <2>2, Parts DEF NotHere, rollback_commit, StoreInv, Live, ReqOn
    <2>4. RunsGoOn
      BY <2>1 DEF RunsGoOn, SameConf, Busy
    <2> QED
      BY <2>1, <2>3, <2>4, EndAlone
  <1> QED
    BY <1>1, <1>2, <1>3, <1>4, <1>5, <1>6, FailedAlone DEF StagingNext

\* Removing an ingestion DAG lets the other runs go on.
LEMMA RemoveDagGoesOn ==
    ASSUME RunsInv, NEW l, remove_ingestion_dag(l)
    PROVE  RunsGoOn
  <1>1. CASE run' = Cancelled({r \in Unfinished(l) : run[r].kind = "scheduled"})
    BY <1>1, CancelledEffect DEF RunsGoOn, Busy, TaskSteps
  <1>2. CASE UNCHANGED run
    BY <1>2 DEF RunsGoOn, SameConf, Busy
  <1> QED
    BY <1>1, <1>2 DEF remove_ingestion_dag

\* By the process routes.
LEMMA ProcessAlone ==
    ASSUME Clients = "settled", WellFormed, OneAtATime, ProcessNext
    PROVE  OneAtATime'
  <1> USE DEF backendVars, airflowVars
  <1>1. ASSUME NEW h \in Handlers, NEW l \in Links, NEW recurrence \in BOOLEAN,
               process_staging_data_prepare(h, l, recurrence)
        PROVE  OneAtATime'
    <2>1. Live(l) /\ Free(l) /\ UNCHANGED row
      BY <1>1, MayActFree DEF process_staging_data_prepare, MayProcess
    <2>2. RunsGoOn
      <3>1. CASE UNCHANGED run
        BY <3>1 DEF RunsGoOn, SameConf, Busy
      <3> QED
        BY <1>1, <3>1, Parts, RemoveDagGoesOn DEF process_staging_data_prepare
    <2>3. CASE UNCHANGED req
      BY <2>1, <2>2, <2>3, RunsGoOnAlone DEF Live
    <2>4. ASSUME NEW name, req' = [req EXCEPT ![h] =
                    [Idle EXCEPT !.op = "process", !.link = l,
                     !.staging_table_name = row[l].staging_table_name,
                     !.final_table_name = name, !.flag = recurrence]]
          PROVE  OneAtATime'
      <3> DEFINE q == [Idle EXCEPT !.op = "process", !.link = l,
                       !.staging_table_name = row[l].staging_table_name,
                       !.final_table_name = name, !.flag = recurrence]
      <3>1. q.op = "process" /\ q.link = l /\ req' = [req EXCEPT ![h] = q]
        BY <2>4 DEF Idle
      <3> HIDE DEF q
      <3> QED
        BY <2>1, <2>2, <3>1, StartAlone DEF Live
    <2> QED
      BY <1>1, <2>3, <2>4 DEF process_staging_data_prepare
  <1>2. ASSUME NEW h \in Handlers, process_staging_data_commit(h)
        PROVE  OneAtATime'
    <2>1. req[h].op = "process" /\ req' = [req EXCEPT ![h] = Idle]
      BY <1>2 DEF process_staging_data_commit
    <2>2. CASE UNCHANGED <<row, run>>
      BY <2>1, <2>2, EndAlone DEF RunsGoOn, SameConf, Busy, Live
    <2>3. CASE /\ row' = [row EXCEPT ![req[h].link] = [@ EXCEPT
                             !.final_table_name = req[h].final_table_name,
                             !.schedule = req[h].flag, !.metadata_id = TRUE]]
               /\ Trigger(ManualRun(h))
      <3>1. PICK l \in Links : l = req[h].link
        BY <2>1, Parts DEF RequestsInv, RequestWellFormed
      <3> DEFINE x == [row[l] EXCEPT !.final_table_name = req[h].final_table_name,
                                     !.schedule = req[h].flag, !.metadata_id = TRUE]
      <3>2. x.state = row[l].state /\ row' = [row EXCEPT ![l] = x]
        BY <2>3, <3>1, Parts DEF StoreInv, IntegrityLink
      <3>3. ManualRun(h).link = req[h].link /\ ManualRun(h).kind = "manual"
        BY DEF ManualRun, NoRun
      <3> HIDE DEF x
      <3>4. \A m \in Links : Live(m)' = Live(m)
        BY <3>2, Parts, RowChangeLive
      <3> QED
        BY <2>1, <2>3, <3>3, <3>4, TriggerAlone DEF NotHere
    <2> QED
      BY <1>2, <2>2, <2>3 DEF process_staging_data_commit
  <1>3. ASSUME NEW h \in Handlers, process_dag_success_commit(h)
        PROVE  OneAtATime'
    <2>1. /\ req[h].op = "publish" /\ req' = [req EXCEPT ![h] = Idle] /\ UNCHANGED run
          /\ UNCHANGED row \/ row' = [row EXCEPT ![req[h].link] = retrieved(h)]
      BY <1>3 DEF process_dag_success_commit
    <2>2. PICK l \in Links : l = req[h].link
      BY <2>1, Parts DEF RequestsInv, RequestWellFormed
    <2>3. retrieved(h).state = row[l].state
      BY <2>2, Parts DEF retrieved, StoreInv, IntegrityLink
    <2>4. \A m \in Links : Live(m)' = Live(m)
      BY <2>1, <2>2, <2>3, Parts, RowChangeLive DEF Live
    <2> QED
      BY <2>1, <2>4, EndAlone DEF RunsGoOn, SameConf, Busy
  <1>4. ASSUME NEW r \in Runs, process_dag_failure_callback(r)
        PROVE  OneAtATime'
    <2>1. run' = Goto(r, "over") /\ UNCHANGED <<row, req>>
      BY <1>4 DEF process_dag_failure_callback, CallbackCalled
    <2>2. RunsGoOn
      BY <2>1, Parts, GotoEffect DEF RunsGoOn, Busy, TaskSteps
    <2> QED
      BY <2>1, <2>2, RunsGoOnAlone DEF Live
  <1> QED
    BY <1>1, <1>2, <1>3, <1>4, PublishAlone DEF ProcessNext

\* A task moves its run to another step, and touches none but the tables.
LEMMA RunStepEffect ==
    ASSUME RunsInv, NEW r \in Runs, RunStep(r)
    PROVE  /\ run[r].step \in TaskSteps
           /\ \A s \in Runs : SameConf(s) /\ (s # r => run'[s].step = run[s].step)
           /\ UNCHANGED <<row, lastUpload, files, layers, records, dag, lastRun, req>>
  <1> USE DEF backendVars, catalogVars
  <1>1. run[r].step \in TaskSteps
    BY DEF RunStep, initial_ingestion, refresh_ingestion, drop_previous_final_table,
           read_transform_write_task, clean_staging_table_task, TaskSteps
  <1>2. UNCHANGED <<row, lastUpload, files, layers, records, dag, lastRun, req>>
    BY DEF RunStep, initial_ingestion, refresh_ingestion, drop_previous_final_table,
           read_transform_write_task, clean_staging_table_task
  <1>3. \/ \E step : run' = Goto(r, step)
        \/ run' = [run EXCEPT ![r] = [@ EXCEPT !.step = "clean", !.wrote = TRUE]]
    BY DEF RunStep, initial_ingestion, refresh_ingestion, drop_previous_final_table,
           read_transform_write_task, clean_staging_table_task
  <1> QED
    BY <1>1, <1>2, <1>3, GotoEffect, WroteEffect

\* The runs a request may leave room for.
LEMMA RunsLeftRoom ==
    ASSUME RunsInv, RunsLeft
    PROVE  lastRun < MaxRuns
  <1>1. Cardinality(WillTrigger) \in Nat
    BY ConstantsAssumption, FS_Subset, FS_CardinalityType DEF WillTrigger
  <1> QED
    BY <1>1, ConstantsAssumption DEF RunsLeft, RunsInv

\* By Airflow.
LEMMA AirflowAlone ==
    ASSUME WellFormed, OneAtATime, AirflowNext
    PROVE  OneAtATime'
  <1> USE DEF backendVars
  <1>1. ASSUME NEW r \in Runs, RunStep(r)
        PROVE  OneAtATime'
    <2>1. RunsGoOn /\ UNCHANGED <<row, req>>
      BY <1>1, Parts, RunStepEffect DEF RunsGoOn, Busy
    <2> QED
      BY <2>1, RunsGoOnAlone DEF Live
  <1>2. ASSUME NEW r \in Runs, callback_lost(r)
        PROVE  OneAtATime'
    <2>1. run' = Goto(r, "over") /\ UNCHANGED <<row, req>>
      BY <1>2 DEF callback_lost, CallbackCalled
    <2>2. RunsGoOn
      BY <2>1, Parts, GotoEffect DEF RunsGoOn, Busy, TaskSteps
    <2> QED
      BY <2>1, <2>2, RunsGoOnAlone DEF Live
  <1>3. ASSUME NEW l \in Links, load_scheduled_integrity_links(l)
        PROVE  OneAtATime'
    <2>1. UNCHANGED <<row, req, run>>
      BY <1>3 DEF load_scheduled_integrity_links
    <2> QED
      BY <2>1, RunsGoOnAlone DEF Live, RunsGoOn, SameConf, Busy
  <1>4. ASSUME NEW l \in Links, trigger_process_dag(l)
        PROVE  OneAtATime'
    <2>1. /\ UNCHANGED <<req, row>> /\ lastRun < MaxRuns
          /\ run' = [run EXCEPT ![lastRun + 1] = ScheduledRun(l)]
      BY <1>4, Parts, RunsLeftRoom DEF trigger_process_dag
    <2>2. ScheduledRun(l).kind = "scheduled"
      BY DEF ScheduledRun, NoRun
    <2> QED
      BY <2>1, <2>2, CronAlone
  <1> QED
    BY <1>1, <1>2, <1>3, <1>4 DEF AirflowNext

\* By deletions and schedules.
LEMMA DeletionAlone ==
    ASSUME Clients = "settled", WellFormed, OneAtATime, DeletionNext
    PROVE  OneAtATime'
  <1> USE DEF backendVars, airflowVars
  <1>1. ASSUME NEW l \in Links, update_schedule(l)
        PROVE  OneAtATime'
    <2>1. \A m \in Links : Live(m)' = Live(m)
      BY <1>1, Parts DEF update_schedule, StoreInv, IntegrityLink, Live
    <2> QED
      BY <1>1, <2>1, RunsGoOnAlone DEF update_schedule, RunsGoOn, SameConf, Busy
  <1>2. ASSUME NEW h \in Handlers, NEW l \in Links, clear_schedule(h, l)
        PROVE  OneAtATime'
    <2> DEFINE q == [Idle EXCEPT !.op = "unschedule", !.link = l]
    <2>1. /\ Live(l) /\ Free(l) /\ UNCHANGED row /\ remove_ingestion_dag(l)
          /\ req' = [req EXCEPT ![h] = q]
      BY <1>2, MayActFree DEF clear_schedule
    <2>2. q.op = "unschedule" /\ q.link = l
      BY DEF Idle
    <2> HIDE DEF q
    <2> QED
      BY <2>1, <2>2, Parts, RemoveDagGoesOn, StartAlone DEF Live
  <1>3. ASSUME NEW h \in Handlers, clear_schedule_commit(h)
        PROVE  OneAtATime'
    <2>1. req[h].op = "unschedule" /\ req' = [req EXCEPT ![h] = Idle] /\ UNCHANGED run
      BY <1>3 DEF clear_schedule_commit
    <2>2. PICK l \in Links : l = req[h].link
      BY <2>1, Parts DEF RequestsInv, RequestWellFormed
    <2>3. \A m \in Links : Live(m)' = Live(m)
      BY <1>3, <2>2, Parts DEF clear_schedule_commit, StoreInv, IntegrityLink, Live
    <2> QED
      BY <2>1, <2>3, EndAlone DEF RunsGoOn, SameConf, Busy
  <1>4. ASSUME NEW h \in Handlers, NEW l \in Links, delete_dataset_cancel(h, l)
        PROVE  OneAtATime'
    <2> DEFINE q == [Idle EXCEPT !.op = "delete", !.link = l,
                        !.staging_table_name = row[l].staging_table_name,
                        !.final_table_name = row[l].final_table_name,
                        !.flag = row[l].metadata_id]
    <2>1. /\ Live(l) /\ Free(l) /\ UNCHANGED row
          /\ req' = [req EXCEPT ![h] = q] \/ UNCHANGED req
      BY <1>4, MayActFree DEF delete_dataset_cancel
    <2>2. q.op = "delete" /\ q.link = l
      BY DEF Idle
    <2>3. RunsGoOn
      <3>1. CASE run' = Cancelled(runs_to_cancel(l))
        BY <3>1, Parts, CancelledEffect DEF RunsGoOn, Busy, TaskSteps
      <3>2. CASE UNCHANGED run
        BY <3>2 DEF RunsGoOn, SameConf, Busy
      <3> QED
        BY <1>4, <3>1, <3>2 DEF delete_dataset_cancel
    <2> HIDE DEF q
    <2> QED
      BY <2>1, <2>2, <2>3, StartAlone, RunsGoOnAlone DEF Live
  <1>5. ASSUME NEW h \in Handlers, delete_dataset_data(h)
        PROVE  OneAtATime'
    <2> DEFINE q == [req[h] EXCEPT !.op = "forget"]
    <2>1. /\ UNCHANGED <<row, run>> /\ req[h].op = "delete" /\ req' = [req EXCEPT ![h] = q]
      BY <1>5 DEF delete_dataset_data
    <2>2. q.op = "forget" /\ q.link = req[h].link
      BY Parts DEF RequestsInv, Request
    <2> HIDE DEF q
    <2> QED
      BY <2>1, <2>2, NextStepAlone DEF NotHere
  <1>6. ASSUME NEW h \in Handlers, delete_dataset_row(h)
        PROVE  OneAtATime'
    <2>1. req[h].op = "forget" /\ req' = [req EXCEPT ![h] = Idle]
      BY <1>6 DEF delete_dataset_row
    <2>2. PICK l \in Links : l = req[h].link
      BY <2>1, Parts DEF RequestsInv, RequestWellFormed
    <2>3. \A m \in Links : Live(m) => Live(m)' \/ ReqOn(h, m)
      BY <1>6, <2>1, <2>2, Parts DEF NotHere, delete_dataset_row, StoreInv, Live, ReqOn
    <2>4. RunsGoOn
      BY <1>6, Parts, CancelledEffect DEF delete_dataset_row, RunsGoOn, Busy, TaskSteps
    <2> QED
      BY <2>1, <2>3, <2>4, EndAlone
  <1> QED
    BY <1>1, <1>2, <1>3, <1>4, <1>5, <1>6 DEF DeletionNext

\* At most one request or run at a time: the base of the rest of this module.
THEOREM OneAtATimeAlways ==
    ASSUME Clients = "settled"
    PROVE  Spec => []OneAtATime
  <1>1. Init => OneAtATime
    BY DEF NotHere, Init, OneAtATime, Alone, Free, ReqOn, RunOn, Idle, NoRun, Busy, TaskSteps
  <1>2. WellFormed /\ OneAtATime /\ [Next]_vars => OneAtATime'
    <2> SUFFICES ASSUME WellFormed, OneAtATime, [Next]_vars
                 PROVE  OneAtATime'
      OBVIOUS
    <2>1. CASE UNCHANGED vars
      BY <2>1, RunsGoOnAlone DEF vars, RunsGoOn, SameConf, Busy, Live
    <2> QED
      BY <2>1, StagingAlone, ProcessAlone, AirflowAlone, DeletionAlone DEF Next
  <1> QED
    BY <1>1, <1>2, WellFormedAlways, PTL DEF Spec

-----------------------------------------------------------------------------
(* Uploads *)

\* A run of staging_dag whose callback is still to come.
Stages(r) == run[r].kind = "staging" /\ Busy(r)

\* The uploads are numbered in turn, no two datasets have the same; the run that
\* stages a dataset, or the request about to trigger it, is of its last upload.
UploadInv ==
    /\ \A l \in Links : row[l].staging_table_name <= lastUpload
    /\ \A l, m \in Links :
          row[l].staging_table_name = row[m].staging_table_name
             /\ row[l].staging_table_name # 0 => l = m
    /\ \A r \in Runs : Stages(r) =>
          /\ run[r].source = row[run[r].link].staging_table_name
          /\ run[r].is_file = row[run[r].link].is_file
          /\ run[r].step = "ingest" => source_reachable(r)
    /\ \A h \in Handlers : req[h].op = "edit" =>
          /\ req[h].upload = row[req[h].link].staging_table_name
          /\ req[h].flag = row[req[h].link].is_file
          /\ req[h].flag => req[h].upload \in files

SameSource(l) ==
    /\ row'[l].staging_table_name = row[l].staging_table_name
    /\ row'[l].is_file = row[l].is_file

\* A step that stages nothing, and removes no file that is still to be read.
LEMMA UploadsKept ==
    ASSUME WellFormed, UploadInv, lastUpload' = lastUpload,
           \A l \in Links : SameSource(l) \/ row'[l].staging_table_name = 0,
           \A r \in Runs : Stages(r)' =>
               /\ Stages(r) /\ SameConf(r) /\ SameSource(run[r].link)
               /\ run'[r].step = "ingest" => run[r].step = "ingest"
               /\ run[r].source \in files => run[r].source \in files',
           \A h \in Handlers : req'[h].op = "edit" =>
               /\ req'[h] = req[h] /\ SameSource(req[h].link)
               /\ req[h].upload \in files => req[h].upload \in files'
    PROVE  UploadInv'
  <1>1. \A l \in Links : row'[l].staging_table_name <= lastUpload'
    BY Parts, ConstantsAssumption DEF UploadInv, SameSource, StoreInv
  <1>2. \A l, m \in Links :
          row'[l].staging_table_name = row'[m].staging_table_name
             /\ row'[l].staging_table_name # 0 => l = m
    BY DEF UploadInv, SameSource
  <1>3. \A r \in Runs : Stages(r)' =>
          /\ run'[r].source = row'[run'[r].link].staging_table_name
          /\ run'[r].is_file = row'[run'[r].link].is_file
          /\ run'[r].step = "ingest" => source_reachable(r)'
    BY DEF UploadInv, SameSource, SameConf, source_reachable
  <1>4. \A h \in Handlers : req'[h].op = "edit" =>
          /\ req'[h].upload = row'[req'[h].link].staging_table_name
          /\ req'[h].flag = row'[req'[h].link].is_file
          /\ req'[h].flag => req'[h].upload \in files'
    BY DEF UploadInv, SameSource
  <1> QED
    BY <1>1, <1>2, <1>3, <1>4 DEF UploadInv

\* A new upload of a free dataset, with its run or the request that will trigger it.
LEMMA UploadStaged ==
    ASSUME WellFormed, UploadInv, OneAtATime, NEW l \in Links, Free(l), NEW isFile,
           lastUpload' = lastUpload + 1, files \subseteq files',
           isFile => lastUpload + 1 \in files',
           row'[l].staging_table_name = lastUpload + 1, row'[l].is_file = isFile,
           \A m \in Links \ {l} : row'[m] = row[m],
           \A r \in Runs : run'[r] = run[r] \/ run'[r] = StagingRun(l, lastUpload + 1, isFile),
           \A h \in Handlers : \/ req'[h] = req[h]
                               \/ /\ req'[h].link = l /\ req'[h].upload = lastUpload + 1
                                  /\ req'[h].flag = isFile
    PROVE  UploadInv'
  <1>1. lastUpload \in Nat /\ \A m \in Links : row[m].staging_table_name \in Nat
    BY Parts, ConstantsAssumption DEF StoreInv, IntegrityLink
  <1>2. \A m \in Links : row'[m].staging_table_name <= lastUpload'
    BY <1>1 DEF UploadInv
  <1>3. \A m \in Links \ {l} : row'[m].staging_table_name # row'[l].staging_table_name
    BY <1>1 DEF UploadInv
  <1>4. \A m, k \in Links :
          row'[m].staging_table_name = row'[k].staging_table_name
             /\ row'[m].staging_table_name # 0 => m = k
    BY <1>3 DEF UploadInv
  <1>5. ASSUME NEW r \in Runs, Stages(r)'
        PROVE  /\ run'[r].source = row'[run'[r].link].staging_table_name
               /\ run'[r].is_file = row'[run'[r].link].is_file
               /\ run'[r].step = "ingest" => source_reachable(r)'
    <2>1. CASE run'[r] = run[r]
      <3>1. Stages(r) /\ run[r].link \in Links
        BY <1>5, <2>1, Parts DEF Stages, Busy, TaskSteps, RunsInv, RunWellFormed, NoRun
      <3>2. run[r].link # l
        BY <3>1 DEF Free, RunOn, Stages
      <3> QED
        BY <2>1, <3>1, <3>2 DEF UploadInv, source_reachable
    <2>2. CASE run'[r] = StagingRun(l, lastUpload + 1, isFile)
      <3>1. run'[r].link = l /\ run'[r].source = lastUpload + 1 /\ run'[r].is_file = isFile
        BY <2>2 DEF StagingRun, NoRun
      <3> QED
        BY <3>1 DEF source_reachable
    <2> QED
      BY <2>1, <2>2
  <1>6. ASSUME NEW h \in Handlers, req'[h].op = "edit"
        PROVE  /\ req'[h].upload = row'[req'[h].link].staging_table_name
               /\ req'[h].flag = row'[req'[h].link].is_file
               /\ req'[h].flag => req'[h].upload \in files'
    <2>1. CASE req'[h] = req[h]
      <3>1. req[h].link \in Links
        BY <1>6, <2>1, Parts DEF RequestsInv, RequestWellFormed
      <3>2. req[h].link # l
        BY <1>6, <2>1 DEF NotHere, Free, ReqOn
      <3> QED
        BY <1>6, <2>1, <3>1, <3>2 DEF UploadInv
    <2> QED
      BY <2>1
  <1> QED
    BY <1>2, <1>4, <1>5, <1>6 DEF UploadInv

\* The steps that leave the uploads of every dataset, the files and the requests
\* that stage as they are; their new runs are not of staging_dag.
LEMMA UploadsUntouched ==
    ASSUME WellFormed, UploadInv, UNCHANGED <<lastUpload, files>>,
           \A l \in Links : SameSource(l),
           \A r \in Runs : \/ SameConf(r) /\ (run'[r].step # run[r].step => run'[r].step # "ingest"
                                                                      /\ Busy(r))
                           \/ run'[r].kind # "staging",
           \A h \in Handlers : req'[h].op = "edit" => req'[h] = req[h]
    PROVE  UploadInv'
  <1>1. \A r \in Runs : Stages(r)' =>
           /\ Stages(r) /\ SameConf(r) /\ SameSource(run[r].link)
           /\ run'[r].step = "ingest" => run[r].step = "ingest"
    <2>1. ASSUME NEW r \in Runs, Stages(r)'
          PROVE  Stages(r) /\ SameConf(r) /\ (run'[r].step = "ingest" => run[r].step = "ingest")
      BY <2>1 DEF Stages, SameConf, Busy
    <2>2. \A r \in Runs : Stages(r) => run[r].link \in Links
      BY Parts DEF RunsInv, RunWellFormed, Stages, NoRun
    <2> QED
      BY <2>1, <2>2
  <1>2. \A h \in Handlers : req'[h].op = "edit" =>
           req'[h] = req[h] /\ SameSource(req[h].link)
    BY Parts DEF RequestsInv, RequestWellFormed
  <1> QED
    BY <1>1, <1>2, UploadsKept

\* What the two callbacks of staging_dag have in common.
CallbackOf(r) ==
    /\ run[r].kind = "staging" /\ run[r].step \in {"success", "failed"}
    /\ run' = CallbackCalled(r) /\ UNCHANGED <<row, lastUpload>>
    /\ files' = files \/ files' = delete_temp_source_file(run[r].link)
    /\ \A h \in Handlers : req'[h].op = "edit" => req'[h] = req[h]

\* The staging routes.
LEMMA StagingUploads ==
    ASSUME Clients = "settled", WellFormed, OneAtATime, UploadInv, StagingNext
    PROVE  UploadInv'
  <1> USE DEF backendVars, airflowVars
  <1>1. ASSUME NEW l \in Links, NEW isFile \in BOOLEAN, submit_staging(l, isFile)
        PROVE  UploadInv'
    <2>1. /\ ~Live(l) /\ UNCHANGED req /\ lastUpload' = lastUpload + 1
          /\ files \subseteq files' /\ (isFile => lastUpload + 1 \in files')
      BY <1>1 DEF submit_staging, fresh, process_import_source, Live
    <2>2. /\ row'[l].staging_table_name = lastUpload + 1 /\ row'[l].is_file = isFile
          /\ \A m \in Links \ {l} : row'[m] = row[m]
      BY <1>1, Parts DEF submit_staging, StoreInv, Blank
    <2>3. \A r \in Runs : run'[r] = run[r] \/ run'[r] = StagingRun(l, lastUpload + 1, isFile)
      <3>1. Trigger(StagingRun(l, lastUpload + 1, isFile))
        BY <1>1 DEF submit_staging
      <3> QED
        BY <3>1, Parts, NewRunEffect DEF Trigger
    <2>4. Free(l)
      BY <2>1 DEF OneAtATime, Alone
    <2> QED
      BY <2>1, <2>2, <2>3, <2>4, UploadStaged
  <1>2. ASSUME NEW h \in Handlers, NEW l \in Links, NEW isFile \in BOOLEAN,
               edit_staging_commit(h, l, isFile)
        PROVE  UploadInv'
    <2>1. /\ Free(l) /\ UNCHANGED run /\ lastUpload' = lastUpload + 1
          /\ files \subseteq files' /\ (isFile => lastUpload + 1 \in files')
      BY <1>2, MayActFree DEF edit_staging_commit, process_import_source
    <2>2. /\ row'[l].staging_table_name = lastUpload + 1 /\ row'[l].is_file = isFile
          /\ \A m \in Links \ {l} : row'[m] = row[m]
      BY <1>2, Parts DEF edit_staging_commit, StoreInv, IntegrityLink
    <2>3. \A g \in Handlers : \/ req'[g] = req[g]
                              \/ /\ req'[g].link = l /\ req'[g].upload = lastUpload + 1
                                 /\ req'[g].flag = isFile
      BY <1>2, Parts DEF edit_staging_commit, RequestsInv, Idle
    <2> QED
      BY <2>1, <2>2, <2>3, UploadStaged
  <1>3. ASSUME NEW h \in Handlers, edit_staging_trigger(h)
        PROVE  UploadInv'
    <2> DEFINE conf == StagingRun(req[h].link, req[h].upload, req[h].flag)
    <2>1. /\ req[h].op = "edit" /\ Trigger(conf)
          /\ UNCHANGED <<row, lastUpload, files>>
          /\ \A g \in Handlers : req'[g] = IF g = h THEN Idle ELSE req[g]
      BY <1>3, Parts DEF edit_staging_trigger, RequestsInv
    <2>2. \A r \in Runs : run'[r] = run[r] \/ run'[r] = conf
      BY <2>1, Parts, NewRunEffect DEF Trigger
    <2>3. /\ conf.link = req[h].link /\ conf.source = req[h].upload
          /\ conf.is_file = req[h].flag
      BY DEF StagingRun, NoRun
    <2> HIDE DEF conf
    <2>4. ASSUME NEW r \in Runs, Stages(r)'
          PROVE  /\ run'[r].source = row'[run'[r].link].staging_table_name
                 /\ run'[r].is_file = row'[run'[r].link].is_file
                 /\ run'[r].step = "ingest" => source_reachable(r)'
      <3>1. CASE run'[r] = run[r]
        BY <2>1, <2>4, <3>1 DEF UploadInv, source_reachable, Stages, Busy
      <3>2. CASE run'[r] = conf
        BY <2>1, <2>3, <3>2 DEF UploadInv, source_reachable
      <3> QED
        BY <2>2, <3>1, <3>2
    <2>5. \A g \in Handlers : req'[g].op = "edit" => req'[g] = req[g]
      BY <2>1 DEF Idle
    <2> QED
      BY <2>1, <2>4, <2>5 DEF UploadInv
  <1>4. ASSUME NEW r \in Runs, CallbackOf(r)
        PROVE  UploadInv'
    <2>1. PICK l \in Links : l = run[r].link
      BY <1>4, Parts DEF CallbackOf, RunsInv, RunWellFormed, NoRun
    <2>2. /\ Stages(r) /\ run[r].source # 0 /\ UNCHANGED <<row, lastUpload>>
          /\ files' = files \/ files' = files \ {row[l].staging_table_name}
          /\ \A s \in Runs : SameConf(s) /\ run'[s].step = IF s = r THEN "over" ELSE run[s].step
      BY <1>4, <2>1, Parts, GotoEffect
      DEF CallbackOf, CallbackCalled, delete_temp_source_file, Stages, Busy, RunsInv,
          RunWellFormed, NoRun
    <2>3. \A h \in Handlers : req'[h].op = "edit" => req'[h] = req[h]
      BY <1>4 DEF CallbackOf
    <2>4. /\ RunOn(r, l) /\ row[l].staging_table_name # 0
      BY <2>1, <2>2 DEF UploadInv, RunOn, Stages
    <2>5. ASSUME NEW m \in Links \ {l}, row[m].staging_table_name \in files
          PROVE  row[m].staging_table_name \in files'
      BY <2>2, <2>4, <2>5 DEF UploadInv
    <2>6. ASSUME NEW s \in Runs, Stages(s)'
          PROVE  Stages(s) /\ run[s].link \in Links \ {l} /\ run'[s].step = run[s].step
      <3>1. Stages(s) /\ s # r
        BY <2>2, <2>6 DEF Stages, Busy, TaskSteps, SameConf
      <3>2. run[s].link \in Links
        BY <3>1, Parts DEF RunsInv, RunWellFormed, Stages, NoRun
      <3>3. run[s].link # l
        BY <2>4, <3>1 DEF OneAtATime, Alone, RunOn, Stages
      <3> QED
        BY <2>2, <3>1, <3>2, <3>3
    <2>7. ASSUME NEW h \in Handlers, req'[h].op = "edit"
          PROVE  req'[h] = req[h] /\ req[h].link \in Links \ {l}
      <3>1. req'[h] = req[h] /\ req[h].op = "edit" /\ req[h].link \in Links
        BY <2>3, <2>7, Parts DEF RequestsInv, RequestWellFormed
      <3>2. req[h].link # l
        BY <2>4, <3>1 DEF NotHere, OneAtATime, Alone, ReqOn
      <3> QED
        BY <3>1, <3>2
    <2>8. \A m \in Links : SameSource(m)
      BY <2>2 DEF SameSource
    <2>9. \A s \in Runs : Stages(s)' =>
             /\ Stages(s) /\ SameConf(s) /\ SameSource(run[s].link)
             /\ run'[s].step = "ingest" => run[s].step = "ingest"
             /\ run[s].source \in files => run[s].source \in files'
      BY <2>2, <2>5, <2>6, <2>8 DEF UploadInv
    <2>10. \A h \in Handlers : req'[h].op = "edit" =>
             /\ req'[h] = req[h] /\ SameSource(req[h].link)
             /\ req[h].upload \in files => req[h].upload \in files'
      BY <2>5, <2>7, <2>8 DEF UploadInv
    <2> QED
      BY <2>2, <2>8, <2>9, <2>10, UploadsKept
  <1>5. ASSUME NEW h \in Handlers, NEW r \in Runs, staging_dag_failure_callback(h, r)
        PROVE  UploadInv'
    <2>1. \A g \in Handlers : req'[g].op = "edit" => req'[g] = req[g]
      BY <1>5, FailureCallbackDecides, Parts DEF RequestsInv
    <2>2. CallbackOf(r)
      BY <1>5, <2>1 DEF staging_dag_failure_callback, CallbackOf
    <2> QED
      BY <1>4, <2>2
  <1>6. ASSUME NEW r \in Runs, staging_dag_success_callback(r)
        PROVE  UploadInv'
    <2>1. CallbackOf(r)
      BY <1>6 DEF staging_dag_success_callback, CallbackOf
    <2> QED
      BY <1>4, <2>1
  <1>7. ASSUME NEW h \in Handlers, rollback_drop(h)
        PROVE  UploadInv'
    <2>1. \A g \in Handlers : req'[g].op = "edit" => req'[g] = req[g]
      BY <1>7, RollbackGoesOn, Parts DEF RequestsInv
    <2>2. UNCHANGED <<row, lastUpload, files, run>>
      BY <1>7 DEF rollback_drop
    <2> QED
      BY <2>1, <2>2, UploadsUntouched DEF SameSource, SameConf
  <1>8. ASSUME NEW h \in Handlers, rollback_commit(h)
        PROVE  UploadInv'
    <2>1. PICK l \in Links : l = req[h].link
      BY <1>8, Parts DEF rollback_commit, RequestsInv, RequestWellFormed
    <2>2. ReqOn(h, l) /\ UNCHANGED <<lastUpload, files, run>>
      BY <1>8, <2>1 DEF NotHere, rollback_commit, ReqOn
    <2>3. /\ SameSource(l) \/ row'[l].staging_table_name = 0
          /\ \A m \in Links \ {l} : SameSource(m)
      BY <1>8, <2>1, Parts DEF rollback_commit, StoreInv, Blank, SameSource
    <2>4. \A m \in Links : SameSource(m) \/ row'[m].staging_table_name = 0
      BY <2>3
    <2>5. ASSUME NEW r \in Runs, Stages(r)'
          PROVE  /\ Stages(r) /\ SameConf(r) /\ SameSource(run[r].link)
                 /\ run'[r].step = "ingest" => run[r].step = "ingest"
      <3>1. Stages(r) /\ SameConf(r) /\ run'[r].step = run[r].step
        BY <2>2, <2>5 DEF Stages, Busy, SameConf
      <3>2. run[r].link \in Links /\ run[r].link # l
        BY <2>2, <3>1, Parts
        DEF RunsInv, RunWellFormed, Stages, NoRun, OneAtATime, Alone, RunOn
      <3> QED
        BY <2>3, <3>1, <3>2
    <2>6. ASSUME NEW g \in Handlers, req'[g].op = "edit"
          PROVE  req'[g] = req[g] /\ SameSource(req[g].link)
      <3>1. req'[g] = req[g]
        BY <1>8, <2>6, Parts DEF rollback_commit, RequestsInv, Idle
      <3>2. req[g].link \in Links /\ g # h
        BY <1>8, <2>6, <3>1, Parts DEF rollback_commit, RequestsInv, RequestWellFormed
      <3>3. req[g].link # l
        BY <2>2, <2>6, <3>1, <3>2 DEF NotHere, OneAtATime, Alone, ReqOn
      <3> QED
        BY <2>3, <3>1, <3>2, <3>3
    <2> QED
      BY <2>2, <2>4, <2>5, <2>6, UploadsKept
  <1> QED
    BY <1>1, <1>2, <1>3, <1>5, <1>6, <1>7, <1>8 DEF StagingNext

\* The process routes.
LEMMA ProcessUploads ==
    ASSUME WellFormed, UploadInv, ProcessNext
    PROVE  UploadInv'
  <1> USE DEF backendVars, airflowVars
  <1>1. ASSUME NEW h \in Handlers, NEW l \in Links, NEW recurrence \in BOOLEAN,
               process_staging_data_prepare(h, l, recurrence)
        PROVE  UploadInv'
    <2>1. UNCHANGED <<row, lastUpload, files>>
      BY <1>1 DEF process_staging_data_prepare
    <2>2. \A g \in Handlers : req'[g].op = "edit" => req'[g] = req[g]
      BY <1>1, Parts DEF process_staging_data_prepare, RequestsInv, Idle
    <2>3. \A r \in Runs : SameConf(r) /\ (run'[r].step # run[r].step => run'[r].step # "ingest"
                                                                      /\ Busy(r))
      <3>1. CASE UNCHANGED run
        BY <3>1 DEF SameConf
      <3>2. CASE run' = Cancelled({r \in Unfinished(l) : run[r].kind = "scheduled"})
        BY <3>2, Parts, CancelledEffect DEF Unfinished, Active, Busy
      <3> QED
        BY <1>1, <3>1, <3>2 DEF process_staging_data_prepare, remove_ingestion_dag
    <2> QED
      BY <2>1, <2>2, <2>3, UploadsUntouched DEF SameSource
  <1>2. ASSUME NEW h \in Handlers, process_staging_data_commit(h)
        PROVE  UploadInv'
    <2>1. UNCHANGED <<lastUpload, files>>
      BY <1>2 DEF process_staging_data_commit
    <2>2. \A l \in Links : SameSource(l)
      <3>1. CASE UNCHANGED row
        BY <3>1 DEF SameSource
      <3>2. ASSUME NEW l \in Links,
                   row' = [row EXCEPT ![l] = [@ EXCEPT
                             !.final_table_name = req[h].final_table_name,
                             !.schedule = req[h].flag, !.metadata_id = TRUE]]
            PROVE  \A m \in Links : SameSource(m)
        BY <3>2, Parts DEF StoreInv, IntegrityLink, SameSource
      <3> QED
        BY <1>2, <3>1, <3>2, Parts
        DEF process_staging_data_commit, RequestsInv, RequestWellFormed
    <2>3. \A g \in Handlers : req'[g].op = "edit" => req'[g] = req[g]
      BY <1>2, Parts DEF process_staging_data_commit, RequestsInv, Idle
    <2>4. \A r \in Runs : run'[r] = run[r] \/ run'[r] = ManualRun(h)
      <3>1. UNCHANGED run \/ Trigger(ManualRun(h))
        BY <1>2 DEF process_staging_data_commit
      <3> QED
        BY <3>1, Parts, NewRunEffect DEF Trigger
    <2>5. ManualRun(h).kind = "manual"
      BY DEF ManualRun, NoRun
    <2> QED
      BY <2>1, <2>2, <2>3, <2>4, <2>5, UploadsUntouched DEF SameConf
  <1>3. ASSUME NEW h \in Handlers, NEW r \in Runs, process_dag_success_publish(h, r)
        PROVE  UploadInv'
    <2>1. UNCHANGED <<row, lastUpload, files>> /\ run[r].step = "success"
      BY <1>3 DEF process_dag_success_publish
    <2>2. \A g \in Handlers : req'[g].op = "edit" => req'[g] = req[g]
      BY <1>3, Parts DEF process_dag_success_publish, RequestsInv, Idle
    <2>3. \A s \in Runs : SameConf(s) /\ run'[s].step = IF s = r THEN "over" ELSE run[s].step
      BY <1>3, Parts, GotoEffect DEF process_dag_success_publish, CallbackCalled
    <2> QED
      BY <2>1, <2>2, <2>3, UploadsUntouched DEF SameSource, Busy
  <1>4. ASSUME NEW h \in Handlers, process_dag_success_commit(h)
        PROVE  UploadInv'
    <2>1. UNCHANGED <<lastUpload, files, run>>
      BY <1>4 DEF process_dag_success_commit
    <2>2. \A l \in Links : SameSource(l)
      BY <1>4, Parts
      DEF process_dag_success_commit, retrieved, StoreInv, IntegrityLink, SameSource
    <2>3. \A g \in Handlers : req'[g].op = "edit" => req'[g] = req[g]
      BY <1>4, Parts DEF process_dag_success_commit, RequestsInv, Idle
    <2> QED
      BY <2>1, <2>2, <2>3, UploadsUntouched DEF SameConf
  <1>5. ASSUME NEW r \in Runs, process_dag_failure_callback(r)
        PROVE  UploadInv'
    <2>1. UNCHANGED <<row, lastUpload, files, req>> /\ run[r].step = "failed"
      BY <1>5 DEF process_dag_failure_callback
    <2>2. \A s \in Runs : SameConf(s) /\ run'[s].step = IF s = r THEN "over" ELSE run[s].step
      BY <1>5, Parts, GotoEffect DEF process_dag_failure_callback, CallbackCalled
    <2> QED
      BY <2>1, <2>2, UploadsUntouched DEF SameSource, Busy
  <1> QED
    BY <1>1, <1>2, <1>3, <1>4, <1>5 DEF ProcessNext

\* No task goes back to the ingestion.
LEMMA NoIngestAgain ==
    ASSUME RunsInv, NEW r \in Runs, RunStep(r)
    PROVE  run'[r].step # "ingest"
  <1>1. \/ \E step : step # "ingest" /\ run' = Goto(r, step)
        \/ run' = [run EXCEPT ![r] = [@ EXCEPT !.step = "clean", !.wrote = TRUE]]
    BY DEF RunStep, initial_ingestion, refresh_ingestion, drop_previous_final_table,
           read_transform_write_task, clean_staging_table_task, after_failure
  <1> QED
    BY <1>1, GotoEffect, WroteEffect

\* Airflow.
LEMMA AirflowUploads ==
    ASSUME WellFormed, UploadInv, AirflowNext
    PROVE  UploadInv'
  <1> USE DEF backendVars
  <1>1. ASSUME NEW r \in Runs, RunStep(r)
        PROVE  UploadInv'
    BY <1>1, Parts, RunStepEffect, NoIngestAgain, UploadsUntouched DEF SameSource, Busy
  <1>2. ASSUME NEW r \in Runs, callback_lost(r)
        PROVE  UploadInv'
    <2>1. UNCHANGED <<row, lastUpload, files, req>> /\ Busy(r)
      BY <1>2 DEF callback_lost, Busy
    <2>2. \A s \in Runs : SameConf(s) /\ run'[s].step = IF s = r THEN "over" ELSE run[s].step
      BY <1>2, Parts, GotoEffect DEF callback_lost, CallbackCalled
    <2> QED
      BY <2>1, <2>2, UploadsUntouched DEF SameSource
  <1>3. ASSUME NEW l \in Links, load_scheduled_integrity_links(l)
        PROVE  UploadInv'
    BY <1>3, UploadsUntouched DEF load_scheduled_integrity_links, SameSource, SameConf
  <1>4. ASSUME NEW l \in Links, trigger_process_dag(l)
        PROVE  UploadInv'
    <2>1. /\ UNCHANGED <<row, lastUpload, files, req>> /\ lastRun < MaxRuns
          /\ run' = [run EXCEPT ![lastRun + 1] = ScheduledRun(l)]
      BY <1>4, Parts, RunsLeftRoom DEF trigger_process_dag
    <2>2. \A r \in Runs : run'[r] = run[r] \/ run'[r] = ScheduledRun(l)
      BY <2>1, Parts, NewRunEffect
    <2>3. ScheduledRun(l).kind = "scheduled"
      BY DEF ScheduledRun, NoRun
    <2> QED
      BY <2>1, <2>2, <2>3, UploadsUntouched DEF SameSource, SameConf
  <1> QED
    BY <1>1, <1>2, <1>3, <1>4 DEF AirflowNext

\* Deletions and schedules.
LEMMA DeletionUploads ==
    ASSUME WellFormed, OneAtATime, UploadInv, DeletionNext
    PROVE  UploadInv'
  <1> USE DEF backendVars, airflowVars
  <1>1. ASSUME NEW l \in Links, update_schedule(l)
        PROVE  UploadInv'
    <2>1. \A m \in Links : SameSource(m)
      BY <1>1, Parts DEF update_schedule, StoreInv, IntegrityLink, SameSource
    <2> QED
      BY <1>1, <2>1, UploadsUntouched DEF update_schedule, SameConf
  <1>2. ASSUME NEW h \in Handlers, NEW l \in Links,
               clear_schedule(h, l) \/ delete_dataset_cancel(h, l)
        PROVE  UploadInv'
    <2>1. UNCHANGED <<row, lastUpload, files>>
      BY <1>2 DEF clear_schedule, delete_dataset_cancel
    <2>2. \A g \in Handlers : req'[g].op = "edit" => req'[g] = req[g]
      <3>1. CASE clear_schedule(h, l)
        BY <3>1, Parts DEF clear_schedule, RequestsInv, Idle
      <3>2. CASE delete_dataset_cancel(h, l)
        BY <3>2, Parts DEF delete_dataset_cancel, RequestsInv, Idle
      <3> QED
        BY <1>2, <3>1, <3>2
    <2>3. \A r \in Runs : SameConf(r) /\ (run'[r].step # run[r].step => run'[r].step # "ingest"
                                                                      /\ Busy(r))
      <3>1. CASE UNCHANGED run
        BY <3>1 DEF SameConf
      <3>2. CASE \E S \in SUBSET Unfinished(l) : run' = Cancelled(S)
        BY <3>2, Parts, CancelledEffect DEF Unfinished, Active, Busy
      <3> QED
        BY <1>2, <3>1, <3>2
        DEF clear_schedule, remove_ingestion_dag, delete_dataset_cancel, runs_to_cancel
    <2> QED
      BY <2>1, <2>2, <2>3, UploadsUntouched DEF SameSource
  <1>3. ASSUME NEW h \in Handlers, clear_schedule_commit(h)
        PROVE  UploadInv'
    <2>1. \A m \in Links : SameSource(m)
      BY <1>3, Parts DEF clear_schedule_commit, StoreInv, IntegrityLink, SameSource
    <2>2. \A g \in Handlers : req'[g].op = "edit" => req'[g] = req[g]
      BY <1>3, Parts DEF clear_schedule_commit, RequestsInv, Idle
    <2> QED
      BY <1>3, <2>1, <2>2, UploadsUntouched DEF clear_schedule_commit, SameConf
  <1>4. ASSUME NEW h \in Handlers, delete_dataset_data(h)
        PROVE  UploadInv'
    <2>1. \A g \in Handlers : req'[g].op = "edit" => req'[g] = req[g]
      BY <1>4, Parts DEF delete_dataset_data, RequestsInv, Request
    <2> QED
      BY <1>4, <2>1, UploadsUntouched DEF delete_dataset_data, SameSource, SameConf
  <1>5. ASSUME NEW h \in Handlers, delete_dataset_row(h)
        PROVE  UploadInv'
    <2>1. PICK l \in Links : l = req[h].link
      BY <1>5, Parts DEF delete_dataset_row, RequestsInv, RequestWellFormed
    <2>2. ReqOn(h, l) /\ UNCHANGED <<lastUpload, files>>
      BY <1>5, <2>1 DEF NotHere, delete_dataset_row, ReqOn
    <2>3. /\ row'[l].staging_table_name = 0
          /\ \A m \in Links \ {l} : SameSource(m)
      BY <1>5, <2>1, Parts DEF delete_dataset_row, StoreInv, Blank, SameSource
    <2>4. \A r \in Runs : SameConf(r) /\ (run'[r].step # run[r].step =>
                                            run'[r].step = "cancelled")
      BY <1>5, Parts, CancelledEffect DEF delete_dataset_row
    <2>5. ASSUME NEW r \in Runs, Stages(r)'
          PROVE  /\ Stages(r) /\ SameConf(r) /\ SameSource(run[r].link)
                 /\ run'[r].step = "ingest" => run[r].step = "ingest"
      <3>1. Stages(r) /\ SameConf(r) /\ run'[r].step = run[r].step
        BY <2>4, <2>5 DEF Stages, Busy, TaskSteps, SameConf
      <3>2. run[r].link \in Links /\ run[r].link # l
        BY <2>2, <3>1, Parts
        DEF RunsInv, RunWellFormed, Stages, NoRun, OneAtATime, Alone, RunOn
      <3> QED
        BY <2>3, <3>1, <3>2
    <2>6. ASSUME NEW g \in Handlers, req'[g].op = "edit"
          PROVE  req'[g] = req[g] /\ SameSource(req[g].link)
      <3>1. req'[g] = req[g]
        BY <1>5, <2>6, Parts DEF delete_dataset_row, RequestsInv, Idle
      <3>2. req[g].link \in Links /\ g # h
        BY <1>5, <2>6, <3>1, Parts DEF delete_dataset_row, RequestsInv, RequestWellFormed
      <3>3. req[g].link # l
        BY <2>2, <2>6, <3>1, <3>2 DEF NotHere, OneAtATime, Alone, ReqOn
      <3> QED
        BY <2>3, <3>1, <3>2, <3>3
    <2> QED
      BY <2>2, <2>3, <2>5, <2>6, UploadsKept
  <1> QED
    BY <1>1, <1>2, <1>3, <1>4, <1>5 DEF DeletionNext

\* The staging of a dataset is always of its last upload.
THEOREM UploadInvAlways ==
    ASSUME Clients = "settled"
    PROVE  Spec => []UploadInv
  <1>1. Init => UploadInv
    <2> SUFFICES ASSUME Init
                 PROVE  UploadInv
      OBVIOUS
    <2>1. \A l \in Links : row[l].staging_table_name = 0
      BY DEF Init, Blank
    <2>2. lastUpload = 0 /\ \A r \in Runs : ~Stages(r)
      BY DEF Init, NoRun, Stages
    <2>3. \A h \in Handlers : req[h].op # "edit"
      BY DEF Init, Idle
    <2> QED
      BY <2>1, <2>2, <2>3 DEF UploadInv
  <1>2. WellFormed /\ OneAtATime /\ UploadInv /\ [Next]_vars => UploadInv'
    <2> SUFFICES ASSUME WellFormed, OneAtATime, UploadInv, [Next]_vars
                 PROVE  UploadInv'
      OBVIOUS
    <2>1. CASE UNCHANGED vars
      BY <2>1, UploadsUntouched DEF vars, SameSource, SameConf
    <2> QED
      BY <2>1, StagingUploads, ProcessUploads, AirflowUploads, DeletionUploads DEF Next
  <1> QED
    BY <1>1, <1>2, WellFormedAlways, OneAtATimeAlways, PTL DEF Spec

-----------------------------------------------------------------------------
(* Datasets without a schedule *)

\* No row has a schedule, hence no DAG is generated and no run is scheduled.
NoSchedule ==
    /\ \A l \in Links : ~row[l].schedule /\ dag[l] = NoDag
    /\ \A r \in Runs : run[r].kind # "scheduled"
    /\ \A h \in Handlers : /\ req[h].op # "unschedule"
                           /\ req[h].op = "process" => ~req[h].flag

\* The steps that set no schedule.
LEMMA NoScheduleKept ==
    ASSUME NoSchedule,
           \A l \in Links : ~row'[l].schedule /\ dag'[l] = dag[l],
           \A r \in Runs : SameConf(r) \/ run'[r].kind \in {"staging", "manual", "reimport"},
           \A h \in Handlers :
               \/ req'[h] = req[h] \/ req'[h].op \notin {"process", "unschedule"}
               \/ (req'[h].op = "process" /\ ~req'[h].flag)
    PROVE  NoSchedule'
  BY DEF NoSchedule, SameConf

\* The staging routes.
LEMMA StagingNoSchedule ==
    ASSUME WellFormed, NoSchedule, StagingNext
    PROVE  NoSchedule'
  <1> USE DEF airflowVars, pgVars
  <1>1. ASSUME NEW l \in Links, NEW isFile \in BOOLEAN, submit_staging(l, isFile)
        PROVE  NoSchedule'
    <2>1. UNCHANGED <<dag, req>> /\ Trigger(StagingRun(l, lastUpload + 1, isFile))
      BY <1>1 DEF submit_staging
    <2>2. \A m \in Links : ~row'[m].schedule
      BY <1>1, Parts DEF submit_staging, StoreInv, Blank, NoSchedule
    <2>3. \A r \in Runs : run'[r] = run[r] \/ run'[r] = StagingRun(l, lastUpload + 1, isFile)
      BY <2>1, Parts, NewRunEffect DEF Trigger
    <2>4. StagingRun(l, lastUpload + 1, isFile).kind = "staging"
      BY DEF StagingRun, NoRun
    <2> QED
      BY <2>1, <2>2, <2>3, <2>4, NoScheduleKept DEF SameConf
  <1>2. ASSUME NEW h \in Handlers, NEW l \in Links, NEW isFile \in BOOLEAN,
               edit_staging_commit(h, l, isFile)
        PROVE  NoSchedule'
    <2>1. \A m \in Links : ~row'[m].schedule
      BY <1>2, Parts DEF edit_staging_commit, StoreInv, IntegrityLink, NoSchedule
    <2>2. \A g \in Handlers : req'[g] = req[g] \/ req'[g].op = "edit"
      BY <1>2, Parts DEF edit_staging_commit, RequestsInv, Idle
    <2> QED
      BY <1>2, <2>1, <2>2, NoScheduleKept DEF edit_staging_commit, SameConf
  <1>3. ASSUME NEW h \in Handlers, edit_staging_trigger(h)
        PROVE  NoSchedule'
    <2> DEFINE conf == StagingRun(req[h].link, req[h].upload, req[h].flag)
    <2>1. UNCHANGED <<dag, row>> /\ Trigger(conf)
      BY <1>3 DEF edit_staging_trigger, backendVars
    <2>2. \A r \in Runs : run'[r] = run[r] \/ run'[r] = conf
      BY <2>1, Parts, NewRunEffect DEF Trigger
    <2>3. conf.kind = "staging"
      BY DEF StagingRun, NoRun
    <2>4. \A g \in Handlers : req'[g] = req[g] \/ req'[g].op = "idle"
      BY <1>3, Parts DEF edit_staging_trigger, RequestsInv, Idle
    <2> HIDE DEF conf
    <2> QED
      BY <2>1, <2>2, <2>3, <2>4, NoScheduleKept DEF SameConf, NoSchedule
  <1>4. ASSUME NEW r \in Runs, staging_dag_success_callback(r)
        PROVE  NoSchedule'
    <2>1. UNCHANGED <<row, dag, req>> /\ run' = Goto(r, "over")
      BY <1>4 DEF staging_dag_success_callback, CallbackCalled
    <2> QED
      BY <2>1, Parts, GotoEffect, NoScheduleKept DEF NoSchedule
  <1>5. ASSUME NEW h \in Handlers, NEW r \in Runs, staging_dag_failure_callback(h, r)
        PROVE  NoSchedule'
    <2>1. UNCHANGED <<row, dag>> /\ run' = Goto(r, "over")
      BY <1>5 DEF staging_dag_failure_callback, CallbackCalled
    <2>2. \A g \in Handlers : req'[g] = req[g] \/ req'[g].op = "rollback"
      BY <1>5, FailureCallbackDecides, Parts DEF RequestsInv
    <2> QED
      BY <2>1, <2>2, Parts, GotoEffect, NoScheduleKept DEF NoSchedule
  <1>6. ASSUME NEW h \in Handlers, rollback_drop(h)
        PROVE  NoSchedule'
    <2>1. UNCHANGED <<row, dag, run>>
      BY <1>6 DEF rollback_drop, backendVars
    <2>2. \A g \in Handlers : req'[g] = req[g] \/ req'[g].op = "discard"
      BY <1>6, RollbackGoesOn, Parts DEF RequestsInv
    <2> QED
      BY <2>1, <2>2, NoScheduleKept DEF NoSchedule, SameConf
  <1>7. ASSUME NEW h \in Handlers, rollback_commit(h)
        PROVE  NoSchedule'
    <2>1. UNCHANGED <<dag, run>>
      BY <1>7 DEF rollback_commit
    <2>2. \A m \in Links : ~row'[m].schedule
      BY <1>7, Parts DEF rollback_commit, StoreInv, Blank, NoSchedule
    <2>3. \A g \in Handlers : req'[g] = req[g] \/ req'[g].op = "idle"
      BY <1>7, Parts DEF rollback_commit, RequestsInv, Idle
    <2> QED
      BY <2>1, <2>2, <2>3, NoScheduleKept DEF SameConf
  <1> QED
    BY <1>1, <1>2, <1>3, <1>4, <1>5, <1>6, <1>7 DEF StagingNext

\* The process routes.
LEMMA ProcessNoSchedule ==
    ASSUME Recurring = {}, WellFormed, NoSchedule, ProcessNext
    PROVE  NoSchedule'
  <1> USE DEF airflowVars, pgVars, backendVars
  <1>1. ASSUME NEW h \in Handlers, NEW l \in Links, NEW recurrence \in BOOLEAN,
               process_staging_data_prepare(h, l, recurrence)
        PROVE  NoSchedule'
    <2>1. ~recurrence /\ UNCHANGED <<row, run, dag>>
      BY <1>1 DEF process_staging_data_prepare, NoSchedule
    <2>2. \A g \in Handlers : req'[g] = req[g] \/ (req'[g].op = "process" /\ ~req'[g].flag)
      <3>1. CASE UNCHANGED req
        BY <3>1
      <3>2. ASSUME NEW name, req' = [req EXCEPT ![h] =
                    [Idle EXCEPT !.op = "process", !.link = l,
                     !.staging_table_name = row[l].staging_table_name,
                     !.final_table_name = name, !.flag = recurrence]]
            PROVE  \A g \in Handlers : req'[g] = req[g] \/ (req'[g].op = "process" /\ ~req'[g].flag)
        BY <2>1, <3>2, Parts DEF RequestsInv, Idle
      <3> QED
        BY <1>1, <3>1, <3>2 DEF process_staging_data_prepare
    <2> QED
      BY <2>1, <2>2, NoScheduleKept DEF SameConf, NoSchedule
  <1>2. ASSUME NEW h \in Handlers, process_staging_data_commit(h)
        PROVE  NoSchedule'
    <2>1. /\ UNCHANGED dag /\ ~req[h].flag
          /\ UNCHANGED run \/ Trigger(ManualRun(h))
      BY <1>2 DEF process_staging_data_commit, NoSchedule
    <2>2. \A m \in Links : ~row'[m].schedule
      <3>1. CASE UNCHANGED row
        BY <3>1 DEF NoSchedule
      <3>2. ASSUME NEW l \in Links,
                   row' = [row EXCEPT ![l] = [@ EXCEPT
                             !.final_table_name = req[h].final_table_name,
                             !.schedule = req[h].flag, !.metadata_id = TRUE]]
            PROVE  \A m \in Links : ~row'[m].schedule
        BY <2>1, <3>2, Parts DEF StoreInv, IntegrityLink, NoSchedule
      <3> QED
        BY <1>2, <3>1, <3>2, Parts
        DEF process_staging_data_commit, RequestsInv, RequestWellFormed
    <2>3. \A r \in Runs : run'[r] = run[r] \/ run'[r] = ManualRun(h)
      BY <2>1, Parts, NewRunEffect DEF Trigger
    <2>4. ManualRun(h).kind = "manual"
      BY DEF ManualRun, NoRun
    <2>5. \A g \in Handlers : req'[g] = req[g] \/ req'[g].op = "idle"
      BY <1>2, Parts DEF process_staging_data_commit, RequestsInv, Idle
    <2> QED
      BY <2>1, <2>2, <2>3, <2>4, <2>5, NoScheduleKept DEF SameConf
  <1>3. ASSUME NEW h \in Handlers, NEW r \in Runs, process_dag_success_publish(h, r)
        PROVE  NoSchedule'
    <2>1. UNCHANGED <<row, dag>> /\ run' = Goto(r, "over")
      BY <1>3 DEF process_dag_success_publish, CallbackCalled
    <2>2. \A g \in Handlers : req'[g] = req[g] \/ req'[g].op = "publish"
      BY <1>3, Parts DEF process_dag_success_publish, RequestsInv, Idle
    <2> QED
      BY <2>1, <2>2, Parts, GotoEffect, NoScheduleKept DEF NoSchedule
  <1>4. ASSUME NEW h \in Handlers, process_dag_success_commit(h)
        PROVE  NoSchedule'
    <2>1. UNCHANGED <<dag, run>>
      BY <1>4 DEF process_dag_success_commit
    <2>2. \A m \in Links : ~row'[m].schedule
      BY <1>4, Parts
      DEF process_dag_success_commit, retrieved, StoreInv, IntegrityLink, NoSchedule
    <2>3. \A g \in Handlers : req'[g] = req[g] \/ req'[g].op = "idle"
      BY <1>4, Parts DEF process_dag_success_commit, RequestsInv, Idle
    <2> QED
      BY <2>1, <2>2, <2>3, NoScheduleKept DEF SameConf
  <1>5. ASSUME NEW r \in Runs, process_dag_failure_callback(r)
        PROVE  NoSchedule'
    <2>1. UNCHANGED <<row, dag, req>> /\ run' = Goto(r, "over")
      BY <1>5 DEF process_dag_failure_callback, CallbackCalled
    <2> QED
      BY <2>1, Parts, GotoEffect, NoScheduleKept DEF NoSchedule
  <1> QED
    BY <1>1, <1>2, <1>3, <1>4, <1>5 DEF ProcessNext

\* Airflow: the generator and the cron have nothing to do.
LEMMA AirflowNoSchedule ==
    ASSUME WellFormed, NoSchedule, AirflowNext
    PROVE  NoSchedule'
  <1> USE DEF airflowVars, pgVars, backendVars
  <1>1. ASSUME NEW r \in Runs, RunStep(r)
        PROVE  NoSchedule'
    BY <1>1, Parts, RunStepEffect, NoScheduleKept DEF NoSchedule
  <1>2. ASSUME NEW r \in Runs, callback_lost(r)
        PROVE  NoSchedule'
    <2>1. UNCHANGED <<row, dag, req>> /\ run' = Goto(r, "over")
      BY <1>2 DEF callback_lost, CallbackCalled
    <2> QED
      BY <2>1, Parts, GotoEffect, NoScheduleKept DEF NoSchedule
  <1>3. \A l \in Links : ~load_scheduled_integrity_links(l) /\ ~trigger_process_dag(l)
    BY DEF NoSchedule, load_scheduled_integrity_links, emitted_dag, trigger_process_dag, NoDag
  <1> QED
    BY <1>1, <1>2, <1>3 DEF AirflowNext

\* Deletions.
LEMMA DeletionNoSchedule ==
    ASSUME Recurring = {}, WellFormed, NoSchedule, DeletionNext
    PROVE  NoSchedule'
  <1> USE DEF airflowVars, pgVars, backendVars
  <1>1. /\ \A l \in Links : ~update_schedule(l)
        /\ \A h \in Handlers, l \in Links : ~clear_schedule(h, l)
        /\ \A h \in Handlers : ~clear_schedule_commit(h)
    BY DEF NoSchedule, update_schedule, clear_schedule, clear_schedule_commit
  <1>2. ASSUME NEW h \in Handlers, NEW l \in Links, delete_dataset_cancel(h, l)
        PROVE  NoSchedule'
    <2>1. /\ UNCHANGED row
          /\ \A m \in Links : dag'[m] = dag[m]
      BY <1>2, Parts DEF delete_dataset_cancel, NoSchedule, StoreInv
    <2>2. \A g \in Handlers : req'[g] = req[g] \/ req'[g].op = "delete"
      BY <1>2, Parts DEF delete_dataset_cancel, RequestsInv, Idle
    <2>3. \A r \in Runs : SameConf(r)
      <3>1. UNCHANGED run \/ run' = Cancelled(runs_to_cancel(l))
        BY <1>2 DEF delete_dataset_cancel
      <3> QED
        BY <3>1, Parts, CancelledEffect DEF SameConf
    <2> QED
      BY <2>1, <2>2, <2>3, NoScheduleKept DEF NoSchedule
  <1>3. ASSUME NEW h \in Handlers, delete_dataset_data(h)
        PROVE  NoSchedule'
    <2>1. UNCHANGED <<row, dag, run>>
      BY <1>3 DEF delete_dataset_data
    <2>2. \A g \in Handlers : req'[g] = req[g] \/ req'[g].op = "forget"
      BY <1>3, Parts DEF delete_dataset_data, RequestsInv, Request
    <2> QED
      BY <2>1, <2>2, NoScheduleKept DEF NoSchedule, SameConf
  <1>4. ASSUME NEW h \in Handlers, delete_dataset_row(h)
        PROVE  NoSchedule'
    <2>1. UNCHANGED dag /\ \A r \in Runs : SameConf(r)
      BY <1>4, Parts, CancelledEffect DEF delete_dataset_row
    <2>2. \A m \in Links : ~row'[m].schedule
      BY <1>4, Parts DEF delete_dataset_row, StoreInv, Blank, NoSchedule
    <2>3. \A g \in Handlers : req'[g] = req[g] \/ req'[g].op = "idle"
      BY <1>4, Parts DEF delete_dataset_row, RequestsInv, Idle
    <2> QED
      BY <2>1, <2>2, <2>3, NoScheduleKept
  <1> QED
    BY <1>1, <1>2, <1>3, <1>4 DEF DeletionNext

\* Without a recurring dataset nothing is ever scheduled.
THEOREM NoScheduleAlways ==
    ASSUME Recurring = {}
    PROVE  Spec => []NoSchedule
  <1>1. Init => NoSchedule
    BY DEF Init, NoSchedule, Blank, NoRun, Idle
  <1>2. WellFormed /\ NoSchedule /\ [Next]_vars => NoSchedule'
    <2> SUFFICES ASSUME WellFormed, NoSchedule, [Next]_vars
                 PROVE  NoSchedule'
      OBVIOUS
    <2>1. CASE UNCHANGED vars
      BY <2>1 DEF vars, NoSchedule
    <2> QED
      BY <2>1, StagingNoSchedule, ProcessNoSchedule, AirflowNoSchedule, DeletionNoSchedule
      DEF Next
  <1> QED
    BY <1>1, <1>2, WellFormedAlways, PTL DEF Spec

\* Nothing is ingested again.
NoTemp == temp = {}

\* Without a schedule no run has a temp_ table (process_dag.py, refresh_ingestion).
THEOREM NoTempAlways ==
    ASSUME Recurring = {}
    PROVE  Spec => []NoTemp
  <1>1. Init => NoTemp
    BY DEF Init, NoTemp
  <1>2. ASSUME NoSchedule, DropInv, NoTemp, [Next]_vars
        PROVE  NoTemp'
    <2> USE <1>2 DEF NoTemp, pgVars
    <2>1. CASE UNCHANGED vars
      BY <2>1 DEF vars
    <2>2. CASE StagingNext
      BY <2>2
      DEF StagingNext, submit_staging, edit_staging_commit, edit_staging_trigger,
          staging_dag_success_callback, staging_dag_failure_callback, rollback_drop,
          rollback_commit
    <2>3. CASE ProcessNext
      BY <2>3
      DEF ProcessNext, process_staging_data_prepare, process_staging_data_commit,
          process_dag_success_publish, process_dag_success_commit,
          process_dag_failure_callback
    <2>4. CASE AirflowNext
      BY <2>4
      DEF AirflowNext, RunStep, initial_ingestion, refresh_ingestion,
          drop_previous_final_table, read_transform_write_task, clean_staging_table_task,
          callback_lost, load_scheduled_integrity_links, trigger_process_dag, re_ingests,
          NoSchedule, DropInv
    <2>5. CASE DeletionNext
      BY <2>5
      DEF DeletionNext, update_schedule, clear_schedule, clear_schedule_commit,
          delete_dataset_cancel, delete_dataset_data, delete_dataset_row
    <2> QED
      BY <2>1, <2>2, <2>3, <2>4, <2>5 DEF Next
  <1> QED
    BY <1>1, <1>2, NoScheduleAlways, DropInvAlways, PTL DEF Spec

-----------------------------------------------------------------------------
(* The steps of settled users without schedules: each is about one dataset *)

Calm == WellFormed /\ OneAtATime /\ NoSchedule

Asks(h, l)  == req[h].op \notin NotHere /\ req[h].link = l
Works(r, l) == Busy(r) /\ run[r].link = l
Quiet(l)    == (\A h \in Handlers : ~Asks(h, l)) /\ (\A r \in Runs : ~Works(r, l))

\* At most one request or run of a dataset, which exists.
LEMMA CalmAlone ==
    ASSUME Calm, NEW l \in Links
    PROVE  /\ \A h, g \in Handlers : Asks(h, l) /\ Asks(g, l) => h = g
           /\ \A r, s \in Runs : Works(r, l) /\ Works(s, l) => r = s
           /\ \A h \in Handlers, r \in Runs : ~(Asks(h, l) /\ Works(r, l))
           /\ ~Live(l) => Quiet(l)
  <1>1. \A r \in Runs : Works(r, l) <=> RunOn(r, l)
    BY DEF Calm, NoSchedule, Works, RunOn
  <1>2. \A h \in Handlers : Asks(h, l) <=> ReqOn(h, l)
    <2>1. \A h \in Handlers : req[h].op = "publish" => req[h].run \in Runs
      BY Parts, ConstantsAssumption DEF Calm, RequestsInv, Request, RequestWellFormed, Runs
    <2> QED
      BY <2>1 DEF Calm, NoSchedule, Asks, ReqOn
  <1> QED
    BY <1>1, <1>2 DEF Calm, OneAtATime, Alone, Free, Quiet

\* Settled users act on quiet datasets.
LEMMA MayActQuiet ==
    ASSUME Clients = "settled", NEW l \in Links, MayAct(l)
    PROVE  Quiet(l)
  BY DEF MayAct, Quiet, Asks, Works, Busy, TaskSteps

\* Runs that write the table of their dataset at a user's request.
FinalKinds == {"manual", "reimport"}

\* What the other datasets keep.
OnlyOn(l) ==
    \A m \in Links \ {l} :
        /\ row'[m] = row[m]
        /\ \A h \in Handlers : Asks(h, m)' = Asks(h, m) /\ (Asks(h, m) => req'[h] = req[h])
        /\ \A r \in Runs : Works(r, m)' = Works(r, m) /\ (Works(r, m) => SameConf(r))

\* A step that changes a row, its requests and its runs.
LEMMA OnlyOnIntro ==
    ASSUME NEW l \in Links, \A m \in Links \ {l} : row'[m] = row[m],
           \A h \in Handlers :
               \/ req'[h] = req[h]
               \/ /\ req[h].op = "idle" \/ req[h].link = l
                  /\ req'[h].op = "idle" \/ req'[h].link = l,
           \A r \in Runs :
               \/ SameConf(r) /\ (run'[r].step = run[r].step \/ run[r].link = l)
               \/ run[r] = NoRun /\ run'[r].link = l
    PROVE  OnlyOn(l)
  <1>1. ASSUME NEW m \in Links \ {l}, NEW h \in Handlers
        PROVE  Asks(h, m)' = Asks(h, m) /\ (Asks(h, m) => req'[h] = req[h])
    BY DEF NotHere, Asks
  <1>2. ASSUME NEW m \in Links \ {l}, NEW r \in Runs
        PROVE  Works(r, m)' = Works(r, m) /\ (Works(r, m) => SameConf(r))
    <2>1. CASE SameConf(r) /\ (run'[r].step = run[r].step \/ run[r].link = l)
      BY <2>1 DEF Works, SameConf, Busy
    <2>2. CASE run[r] = NoRun /\ run'[r].link = l
      BY <2>2, NoRunIdle DEF Works
    <2> QED
      BY <2>1, <2>2
  <1> QED
    BY <1>1, <1>2 DEF OnlyOn

\* What a triggered run adds.
LEMMA TriggerEffect ==
    ASSUME RunsInv, NEW conf, Trigger(conf)
    PROVE  \A r \in Runs : run'[r] = run[r] \/ (run[r] = NoRun /\ run'[r] = conf)
  BY NewRunEffect DEF Trigger

\* POST /staging: a new row, and its run of staging_dag or none.
LEMMA SubmitEffect ==
    ASSUME Calm, NEW l \in Links, NEW isFile \in BOOLEAN, submit_staging(l, isFile)
    PROVE  /\ OnlyOn(l) /\ Quiet(l) /\ ~Live(l) /\ Live(l)'
           /\ lastUpload' = lastUpload + 1
           /\ row'[l].staging_table_name = lastUpload + 1
           /\ row'[l].final_table_name = 0 /\ row'[l].data_id = 0
           /\ row'[l].last_retrieval = 0
           /\ \A h \in Handlers : ~Asks(h, l)'
           /\ \A r \in Runs : \/ SameConf(r) /\ run'[r].step = run[r].step
                              \/ /\ run[r] = NoRun /\ run'[r].kind = "staging"
                                 /\ run'[r].link = l /\ run'[r].source = lastUpload + 1
           /\ UNCHANGED <<staging, owner, layers>>
  <1> DEFINE conf == StagingRun(l, lastUpload + 1, isFile)
  <1>1. /\ ~Live(l) /\ UNCHANGED <<req, staging, owner, layers>>
        /\ lastUpload' = lastUpload + 1 /\ Trigger(conf)
    BY DEF submit_staging, fresh, Live, pgVars, catalogVars
  <1>2. /\ row'[l].state = "live" /\ row'[l].staging_table_name = lastUpload + 1
        /\ row'[l].final_table_name = 0 /\ row'[l].data_id = 0
        /\ row'[l].last_retrieval = 0
        /\ \A m \in Links \ {l} : row'[m] = row[m]
    BY Parts DEF Calm, submit_staging, StoreInv, Blank
  <1>3. conf.kind = "staging" /\ conf.link = l /\ conf.source = lastUpload + 1
    BY DEF StagingRun, NoRun
  <1> HIDE DEF conf
  <1>4. \A r \in Runs : run'[r] = run[r] \/ (run[r] = NoRun /\ run'[r] = conf)
    BY <1>1, Parts, TriggerEffect DEF Calm
  <1>5. Quiet(l)
    BY <1>1, CalmAlone
  <1>6. \A r \in Runs : \/ SameConf(r) /\ run'[r].step = run[r].step
                        \/ /\ run[r] = NoRun /\ run'[r].kind = "staging"
                           /\ run'[r].link = l /\ run'[r].source = lastUpload + 1
    BY <1>3, <1>4 DEF SameConf
  <1>7. OnlyOn(l)
    BY <1>1, <1>2, <1>6, OnlyOnIntro
  <1> QED
    BY <1>1, <1>2, <1>5, <1>6, <1>7 DEF Quiet, Asks, Live

\* PUT /staging: a request about a quiet dataset, and a new upload.
LEMMA EditEffect ==
    ASSUME Clients = "settled", Calm, NEW h \in Handlers, NEW l \in Links,
           NEW isFile \in BOOLEAN, edit_staging_commit(h, l, isFile)
    PROVE  /\ OnlyOn(l) /\ Quiet(l) /\ Live(l) /\ Live(l)'
           /\ lastUpload' = lastUpload + 1
           /\ row'[l].staging_table_name = lastUpload + 1
           /\ row'[l].final_table_name = row[l].final_table_name
           /\ row'[l].data_id = row[l].data_id
           /\ row'[l].last_retrieval = row[l].last_retrieval
           /\ \A g \in Handlers : Asks(g, l)' <=> g = h
           /\ req'[h].op = "edit"
           /\ req'[h].staging_table_name = row[l].staging_table_name
           /\ UNCHANGED <<run, staging, owner, layers>>
  <1>1. /\ Quiet(l) /\ Live(l) /\ lastUpload' = lastUpload + 1 /\ req[h].op = "idle"
        /\ UNCHANGED <<run, staging, owner, layers>>
    BY MayActQuiet DEF edit_staging_commit, CanStart, pgVars, catalogVars, airflowVars
  <1>2. /\ row'[l].state = row[l].state /\ row'[l].staging_table_name = lastUpload + 1
        /\ row'[l].final_table_name = row[l].final_table_name
        /\ row'[l].data_id = row[l].data_id
        /\ row'[l].last_retrieval = row[l].last_retrieval
        /\ \A m \in Links \ {l} : row'[m] = row[m]
    BY Parts DEF Calm, edit_staging_commit, StoreInv, IntegrityLink
  <1>3. /\ req'[h].op = "edit" /\ req'[h].link = l
        /\ req'[h].staging_table_name = row[l].staging_table_name
        /\ \A g \in Handlers \ {h} : req'[g] = req[g]
    BY Parts DEF Calm, edit_staging_commit, RequestsInv, Idle
  <1>4. OnlyOn(l)
    BY <1>1, <1>2, <1>3, OnlyOnIntro DEF SameConf
  <1> QED
    BY <1>1, <1>2, <1>3, <1>4 DEF NotHere, Quiet, Asks, Live

\* The same request triggers its run of staging_dag, or fails to.
LEMMA EditTriggerEffect ==
    ASSUME Calm, NEW h \in Handlers, NEW l \in Links, l = req[h].link,
           edit_staging_trigger(h)
    PROVE  /\ OnlyOn(l) /\ Asks(h, l) /\ req[h].op = "edit"
           /\ staging' = staging \ {req[h].staging_table_name}
           /\ \A g \in Handlers : ~Asks(g, l)'
           /\ \A r \in Runs : \/ SameConf(r) /\ run'[r].step = run[r].step
                              \/ /\ run[r] = NoRun /\ run'[r].kind = "staging"
                                 /\ run'[r].link = l /\ run'[r].source = req[h].upload
           /\ UNCHANGED <<row, lastUpload, owner, layers>>
  <1> DEFINE conf == StagingRun(req[h].link, req[h].upload, req[h].flag)
  <1>1. /\ req[h].op = "edit" /\ Trigger(conf)
        /\ staging' = staging \ {req[h].staging_table_name}
        /\ UNCHANGED <<row, lastUpload, owner, layers>>
        /\ \A g \in Handlers : req'[g] = IF g = h THEN Idle ELSE req[g]
    BY Parts DEF Calm, edit_staging_trigger, RequestsInv, backendVars, catalogVars
  <1>2. conf.kind = "staging" /\ conf.link = l /\ conf.source = req[h].upload
    BY DEF StagingRun, NoRun
  <1> HIDE DEF conf
  <1>3. \A r \in Runs : run'[r] = run[r] \/ (run[r] = NoRun /\ run'[r] = conf)
    BY <1>1, Parts, TriggerEffect DEF Calm
  <1>4. \A r \in Runs : \/ SameConf(r) /\ run'[r].step = run[r].step
                        \/ /\ run[r] = NoRun /\ run'[r].kind = "staging"
                           /\ run'[r].link = l /\ run'[r].source = req[h].upload
    BY <1>2, <1>3 DEF SameConf
  <1>5. Asks(h, l)
    BY <1>1 DEF NotHere, Asks
  <1>6. \A g \in Handlers : ~Asks(g, l)'
    BY <1>1, <1>5, CalmAlone DEF NotHere, Asks, Idle
  <1>7. OnlyOn(l)
    BY <1>1, <1>4, OnlyOnIntro DEF Idle
  <1> QED
    BY <1>1, <1>4, <1>5, <1>6, <1>7

\* The callbacks of staging_dag.
StagingCallback(r) ==
    \/ staging_dag_success_callback(r)
    \/ \E h \in Handlers : staging_dag_failure_callback(h, r)

\* A request that takes a dataset back, which was never retrieved.
TakesBack(h, l) ==
    /\ \A g \in Handlers : Asks(g, l)' <=> g = h
    /\ req'[h].op = "rollback"
    /\ req'[h].staging_table_name = row[l].staging_table_name
    /\ Live(l) /\ row[l].last_retrieval = 0

LEMMA StagedEffect ==
    ASSUME Calm, NEW r \in Runs, NEW l \in Links, l = run[r].link, StagingCallback(r)
    PROVE  /\ OnlyOn(l) /\ Works(r, l) /\ run[r].kind = "staging"
           /\ \A h \in Handlers : ~Asks(h, l)
           /\ \/ \A h \in Handlers : ~Asks(h, l)'
              \/ \E h \in Handlers : TakesBack(h, l)
           /\ \A s \in Runs : ~Works(s, l)' /\ SameConf(s)
           /\ UNCHANGED <<row, lastUpload, staging, owner, layers>>
  <1>1. /\ Works(r, l) /\ run[r].kind = "staging"
        /\ UNCHANGED <<row, lastUpload, staging, owner, layers>>
        /\ run' = Goto(r, "over")
    BY DEF StagingCallback, staging_dag_success_callback, staging_dag_failure_callback,
           CallbackCalled, Works, Busy, pgVars, catalogVars
  <1>2. \A s \in Runs : SameConf(s) /\ run'[s].step = IF s = r THEN "over" ELSE run[s].step
    BY <1>1, Parts, GotoEffect DEF Calm
  <1>3. \A h \in Handlers : ~Asks(h, l)
    BY <1>1, CalmAlone
  <1>4. \A s \in Runs : ~Works(s, l)'
    BY <1>1, <1>2, CalmAlone DEF Works, Busy, SameConf, TaskSteps
  <1>5. CASE UNCHANGED req
    <2>1. OnlyOn(l)
      BY <1>1, <1>2, <1>5, OnlyOnIntro
    <2> QED
      BY <1>1, <1>2, <1>3, <1>4, <1>5, <2>1 DEF Asks
  <1>6. ASSUME NEW h \in Handlers, staging_dag_failure_callback(h, r), req' # req
        PROVE  OnlyOn(l) /\ TakesBack(h, l)
    <2>1. PICK q \in Request : /\ q.op = "rollback" /\ q.link = l
                               /\ q.staging_table_name = row[l].staging_table_name
                               /\ req' = [req EXCEPT ![h] = q]
                               /\ Live(l) /\ ~is_rerun(l)
      BY <1>6, FailureCallbackDecides, Parts DEF Calm
    <2>2. /\ \A g \in Handlers \ {h} : req'[g] = req[g]
          /\ req'[h].op = "rollback" /\ req'[h].link = l
          /\ req'[h].staging_table_name = row[l].staging_table_name
      BY <2>1, Parts DEF Calm, RequestsInv
    <2>3. req[h].op = "idle"
      BY <1>6 DEF staging_dag_failure_callback, CanStart
    <2>4. OnlyOn(l)
      BY <1>1, <1>2, <2>2, <2>3, OnlyOnIntro
    <2>5. \A g \in Handlers : Asks(g, l)' <=> g = h
      BY <1>3, <2>2 DEF NotHere, Asks
    <2> QED
      BY <2>1, <2>2, <2>4, <2>5 DEF TakesBack, is_rerun
  <1>7. UNCHANGED req \/ \E h \in Handlers : staging_dag_failure_callback(h, r) /\ req' # req
    BY DEF StagingCallback, staging_dag_success_callback
  <1> QED
    BY <1>1, <1>2, <1>3, <1>4, <1>5, <1>6, <1>7

\* Taking a dataset back: its staging table goes.
LEMMA RollbackDropEffect ==
    ASSUME Calm, NEW h \in Handlers, NEW l \in Links, l = req[h].link, rollback_drop(h)
    PROVE  /\ OnlyOn(l) /\ Asks(h, l) /\ req[h].op = "rollback" /\ Live(l)
           /\ \A g \in Handlers : Asks(g, l)' <=> g = h
           /\ req'[h].op = "discard"
           /\ req'[h].staging_table_name = req[h].staging_table_name
           /\ staging' = staging \ {req[h].staging_table_name}
           /\ UNCHANGED <<row, run, lastUpload, owner, layers>>
  <1>1. /\ req[h].op = "rollback" /\ UNCHANGED <<row, run, lastUpload, owner, layers>>
        /\ staging' = staging \ {req[h].staging_table_name}
    BY DEF rollback_drop, backendVars, airflowVars, catalogVars
  <1>2. /\ req'[h].op = "discard" /\ req'[h].link = l
        /\ req'[h].staging_table_name = req[h].staging_table_name
        /\ \A g \in Handlers \ {h} : req'[g] = req[g]
    BY Parts DEF Calm, rollback_drop, RequestsInv, Request
  <1>3. Asks(h, l)
    BY <1>1 DEF NotHere, Asks
  <1>4. Live(l) /\ \A g \in Handlers : Asks(g, l)' <=> g = h
    BY <1>2, <1>3, CalmAlone DEF NotHere, Asks, Quiet
  <1>5. OnlyOn(l)
    BY <1>1, <1>2, OnlyOnIntro DEF SameConf
  <1> QED
    BY <1>1, <1>2, <1>3, <1>4, <1>5

\* Then its row.
LEMMA RollbackCommitEffect ==
    ASSUME Calm, NEW h \in Handlers, NEW l \in Links, l = req[h].link, rollback_commit(h)
    PROVE  /\ OnlyOn(l) /\ Asks(h, l) /\ req[h].op = "discard" /\ ~Live(l)'
           /\ \A g \in Handlers : ~Asks(g, l)'
           /\ \A r \in Runs : ~Works(r, l)' /\ SameConf(r)
           /\ row'[l].staging_table_name = 0 /\ row'[l].final_table_name = 0
           /\ row'[l].data_id = 0 /\ row'[l].last_retrieval = 0
           /\ UNCHANGED <<run, lastUpload, staging, owner, layers>>
  <1>1. /\ req[h].op = "discard" /\ UNCHANGED <<run, lastUpload, staging, owner, layers>>
        /\ \A g \in Handlers : req'[g] = IF g = h THEN Idle ELSE req[g]
    BY Parts DEF Calm, rollback_commit, RequestsInv, pgVars, catalogVars, airflowVars
  <1>2. Asks(h, l)
    BY <1>1 DEF NotHere, Asks
  <1>3. Live(l)
    BY <1>2, CalmAlone DEF Quiet
  <1>4. /\ ~Live(l)' /\ row'[l].staging_table_name = 0 /\ row'[l].final_table_name = 0
        /\ row'[l].data_id = 0 /\ row'[l].last_retrieval = 0
        /\ \A m \in Links \ {l} : row'[m] = row[m]
    BY <1>3, Parts DEF Calm, rollback_commit, StoreInv, Blank, Live
  <1>5. /\ \A g \in Handlers : ~Asks(g, l)'
        /\ \A r \in Runs : ~Works(r, l)' /\ SameConf(r)
    BY <1>1, <1>2, CalmAlone DEF NotHere, Asks, Works, Busy, Idle, SameConf
  <1>6. OnlyOn(l)
    BY <1>1, <1>4, OnlyOnIntro DEF Idle, SameConf
  <1> QED
    BY <1>1, <1>2, <1>4, <1>5, <1>6

\* POST /process: a request about a quiet dataset, with the name it writes to.
LEMMA PrepareEffect ==
    ASSUME Clients = "settled", Calm, NEW h \in Handlers, NEW l \in Links,
           NEW recurrence \in BOOLEAN, process_staging_data_prepare(h, l, recurrence)
    PROVE  /\ OnlyOn(l) /\ Quiet(l) /\ Live(l)
           /\ \/ \A g \in Handlers : ~Asks(g, l)'
              \/ /\ \A g \in Handlers : Asks(g, l)' <=> g = h
                 /\ req'[h].op = "process"
                 /\ req'[h].staging_table_name = row[l].staging_table_name
                 /\ req'[h].final_table_name \in final_table_name_to_write(l)
           /\ UNCHANGED <<row, run, lastUpload, staging, owner, layers>>
  <1>1. /\ Quiet(l) /\ Live(l) /\ req[h].op = "idle"
        /\ UNCHANGED <<row, lastUpload, staging, owner, layers>>
    BY MayActQuiet
    DEF process_staging_data_prepare, MayProcess, CanStart, pgVars, backendVars
  <1>2. UNCHANGED run
    BY DEF Calm, NoSchedule, process_staging_data_prepare
  <1>3. CASE UNCHANGED req
    BY <1>1, <1>2, <1>3, OnlyOnIntro DEF Quiet, Asks, SameConf
  <1>4. ASSUME NEW name \in final_table_name_to_write(l),
               req' = [req EXCEPT ![h] =
                   [Idle EXCEPT !.op = "process", !.link = l,
                    !.staging_table_name = row[l].staging_table_name,
                    !.final_table_name = name, !.flag = recurrence]]
        PROVE  /\ OnlyOn(l)
               /\ \A g \in Handlers : Asks(g, l)' <=> g = h
               /\ req'[h].op = "process"
               /\ req'[h].staging_table_name = row[l].staging_table_name
               /\ req'[h].final_table_name = name
    <2>1. /\ req'[h].op = "process" /\ req'[h].link = l
          /\ req'[h].staging_table_name = row[l].staging_table_name
          /\ req'[h].final_table_name = name
          /\ \A g \in Handlers \ {h} : req'[g] = req[g]
      BY <1>4, Parts DEF Calm, RequestsInv, Idle
    <2>2. OnlyOn(l)
      BY <1>1, <1>2, <2>1, OnlyOnIntro DEF SameConf
    <2> QED
      BY <1>1, <2>1, <2>2 DEF NotHere, Quiet, Asks
  <1> QED
    BY <1>1, <1>2, <1>3, <1>4 DEF process_staging_data_prepare

\* The same request reserves its name and triggers its run of process_dag.
LEMMA CommitEffect ==
    ASSUME Calm, NEW h \in Handlers, NEW l \in Links, l = req[h].link,
           process_staging_data_commit(h)
    PROVE  /\ OnlyOn(l) /\ Asks(h, l) /\ req[h].op = "process" /\ Live(l) /\ Live(l)'
           /\ \A g \in Handlers : ~Asks(g, l)'
           /\ \/ UNCHANGED <<row, run>>
              \/ /\ row'[l].final_table_name = req[h].final_table_name
                 /\ row'[l].staging_table_name = row[l].staging_table_name
                 /\ row'[l].data_id = row[l].data_id
                 /\ row'[l].last_retrieval = row[l].last_retrieval
           /\ \A r \in Runs : \/ SameConf(r) /\ run'[r].step = run[r].step
                              \/ /\ run[r] = NoRun /\ run'[r].kind = "manual"
                                 /\ run'[r].link = l
                                 /\ run'[r].source = req[h].staging_table_name
                                 /\ run'[r].final_table_name = req[h].final_table_name
                                 /\ row'[l].final_table_name = req[h].final_table_name
           /\ UNCHANGED <<lastUpload, staging, owner, layers>>
  <1>1. /\ req[h].op = "process" /\ UNCHANGED <<lastUpload, staging, owner, layers>>
        /\ \A g \in Handlers : req'[g] = IF g = h THEN Idle ELSE req[g]
    BY Parts DEF Calm, process_staging_data_commit, RequestsInv, pgVars, catalogVars
  <1>2. Asks(h, l)
    BY <1>1 DEF NotHere, Asks
  <1>3. Live(l) /\ \A g \in Handlers : ~Asks(g, l)'
    BY <1>1, <1>2, CalmAlone DEF NotHere, Asks, Idle, Quiet
  <1>4. CASE UNCHANGED <<row, run>>
    BY <1>1, <1>2, <1>3, <1>4, OnlyOnIntro DEF SameConf, Idle, Live
  <1>5. CASE /\ row' = [row EXCEPT ![l] = [@ EXCEPT
                           !.final_table_name = req[h].final_table_name,
                           !.schedule = req[h].flag, !.metadata_id = TRUE]]
             /\ Trigger(ManualRun(h))
    <2>1. /\ row'[l].final_table_name = req[h].final_table_name
          /\ row'[l].staging_table_name = row[l].staging_table_name
          /\ row'[l].data_id = row[l].data_id
          /\ row'[l].last_retrieval = row[l].last_retrieval
          /\ row'[l].state = row[l].state
          /\ \A m \in Links \ {l} : row'[m] = row[m]
      BY <1>5, Parts DEF Calm, StoreInv, IntegrityLink
    <2>2. \A r \in Runs : run'[r] = run[r] \/ (run[r] = NoRun /\ run'[r] = ManualRun(h))
      BY <1>5, Parts, TriggerEffect DEF Calm
    <2>3. /\ ManualRun(h).kind = "manual" /\ ManualRun(h).link = l
          /\ ManualRun(h).source = req[h].staging_table_name
          /\ ManualRun(h).final_table_name = req[h].final_table_name
      BY DEF ManualRun, NoRun
    <2>4. \A r \in Runs : \/ SameConf(r) /\ run'[r].step = run[r].step
                          \/ /\ run[r] = NoRun /\ run'[r].kind = "manual"
                             /\ run'[r].link = l
                             /\ run'[r].source = req[h].staging_table_name
                             /\ run'[r].final_table_name = req[h].final_table_name
      BY <2>2, <2>3 DEF SameConf
    <2>5. OnlyOn(l)
      BY <1>1, <2>1, <2>4, OnlyOnIntro DEF Idle
    <2> QED
      BY <1>1, <1>2, <1>3, <2>1, <2>4, <2>5 DEF Live
  <1> QED
    BY <1>4, <1>5 DEF process_staging_data_commit

\* The success callback of process_dag, which publishes the layer or fails to.
LEMMA PublishEffect ==
    ASSUME Calm, NEW h \in Handlers, NEW r \in Runs, NEW l \in Links, l = run[r].link,
           process_dag_success_publish(h, r)
    PROVE  /\ OnlyOn(l) /\ Works(r, l) /\ run[r].kind \in FinalKinds /\ Live(l)
           /\ \A s \in Runs : ~Works(s, l)' /\ SameConf(s)
           /\ \A g \in Handlers : ~Asks(g, l) /\ (Asks(g, l)' <=> g = h)
           /\ req'[h].op = "publish" /\ req'[h].run = r
           /\ req'[h].final_table_name = run[r].final_table_name
           /\ layers \subseteq layers'
           /\ req'[h].flag => layer(l, run[r].final_table_name) \in layers'
           /\ UNCHANGED <<row, lastUpload, staging, owner>>
  <1>1. /\ Works(r, l) /\ run[r].kind \in FinalKinds /\ run' = Goto(r, "over")
        /\ req[h].op = "idle" /\ UNCHANGED <<row, lastUpload, staging, owner>>
    BY DEF FinalKinds, Calm, NoSchedule, process_dag_success_publish, ProcessKinds, CallbackCalled,
           CanStart, Works, Busy, pgVars, backendVars
  <1>2. Live(l) /\ \A g \in Handlers : ~Asks(g, l)
    BY <1>1, CalmAlone DEF Quiet
  <1>3. \A s \in Runs : SameConf(s) /\ run'[s].step = IF s = r THEN "over" ELSE run[s].step
    BY <1>1, Parts, GotoEffect DEF Calm
  <1>4. \A s \in Runs : ~Works(s, l)'
    BY <1>1, <1>3, CalmAlone DEF Works, Busy, SameConf, TaskSteps
  <1>5. PICK published \in BOOLEAN :
          /\ layers' = IF published THEN layers \cup {layer(l, run[r].final_table_name)}
                                    ELSE layers
          /\ req' = [req EXCEPT ![h] = [Idle EXCEPT !.op = "publish", !.link = l, !.run = r,
                       !.final_table_name = run[r].final_table_name, !.flag = published]]
    BY <1>2 DEF process_dag_success_publish
  <1>6. /\ req'[h].op = "publish" /\ req'[h].link = l /\ req'[h].run = r
        /\ req'[h].final_table_name = run[r].final_table_name
        /\ req'[h].flag = published
        /\ \A g \in Handlers \ {h} : req'[g] = req[g]
    BY <1>5, Parts DEF Calm, RequestsInv, Idle
  <1>7. OnlyOn(l)
    BY <1>1, <1>3, <1>6, OnlyOnIntro
  <1>8. \A g \in Handlers : Asks(g, l)' <=> g = h
    BY <1>2, <1>6 DEF NotHere, Asks
  <1> QED
    BY <1>1, <1>2, <1>3, <1>4, <1>5, <1>6, <1>7, <1>8

\* The same callback commits what was retrieved, unless the name is taken.
LEMMA RetrievedEffect ==
    ASSUME Calm, NEW h \in Handlers, NEW l \in Links, l = req[h].link,
           process_dag_success_commit(h)
    PROVE  /\ OnlyOn(l) /\ Asks(h, l) /\ req[h].op = "publish" /\ Live(l)
           /\ \A g \in Handlers : ~Asks(g, l)'
           /\ \A r \in Runs : ~Works(r, l)'
           /\ \/ UNCHANGED row /\ name_taken(l, req[h].final_table_name)
              \/ /\ row'[l].final_table_name = req[h].final_table_name
                 /\ row'[l].staging_table_name = row[l].staging_table_name
                 /\ row'[l].last_retrieval = req[h].run
                 /\ row'[l].data_id = IF req[h].flag THEN req[h].final_table_name
                                                     ELSE row[l].data_id
                 /\ Live(l)'
           /\ UNCHANGED <<run, lastUpload, staging, owner, layers>>
  <1>1. /\ req[h].op = "publish" /\ UNCHANGED <<run, lastUpload, staging, owner, layers>>
        /\ \A g \in Handlers : req'[g] = IF g = h THEN Idle ELSE req[g]
    BY Parts
    DEF Calm, process_dag_success_commit, RequestsInv, pgVars, catalogVars, airflowVars
  <1>2. Asks(h, l)
    BY <1>1 DEF NotHere, Asks
  <1>3. /\ Live(l) /\ \A g \in Handlers : ~Asks(g, l)'
        /\ \A r \in Runs : ~Works(r, l)'
    BY <1>1, <1>2, CalmAlone DEF NotHere, Asks, Idle, Quiet, Works, Busy
  <1>4. CASE name_taken(l, req[h].final_table_name)
    BY <1>1, <1>2, <1>3, <1>4, OnlyOnIntro DEF process_dag_success_commit, SameConf, Idle
  <1>5. CASE ~name_taken(l, req[h].final_table_name)
    <2>1. row' = [row EXCEPT ![l] = retrieved(h)]
      BY <1>3, <1>5 DEF process_dag_success_commit
    <2>2. /\ retrieved(h).state = row[l].state
          /\ retrieved(h).final_table_name = req[h].final_table_name
          /\ retrieved(h).staging_table_name = row[l].staging_table_name
          /\ retrieved(h).last_retrieval = req[h].run
          /\ retrieved(h).data_id = IF req[h].flag THEN req[h].final_table_name
                                                   ELSE row[l].data_id
      BY Parts DEF Calm, StoreInv, IntegrityLink, retrieved
    <2>3. /\ row'[l] = retrieved(h)
          /\ \A m \in Links \ {l} : row'[m] = row[m]
      BY <2>1, Parts DEF Calm, StoreInv
    <2>4. OnlyOn(l)
      BY <1>1, <2>3, OnlyOnIntro DEF SameConf, Idle
    <2> QED
      BY <1>1, <1>2, <1>3, <2>2, <2>3, <2>4 DEF Live
  <1> QED
    BY <1>4, <1>5

\* The failure callback of process_dag drops the table of the run.
LEMMA DroppedEffect ==
    ASSUME Calm, NEW r \in Runs, NEW l \in Links, l = run[r].link,
           process_dag_failure_callback(r)
    PROVE  /\ OnlyOn(l) /\ Works(r, l) /\ run[r].kind \in FinalKinds
           /\ \A h \in Handlers : ~Asks(h, l) /\ ~Asks(h, l)'
           /\ \A s \in Runs : ~Works(s, l)' /\ SameConf(s)
           /\ owner' = [owner EXCEPT ![run[r].final_table_name] = NoLink]
           /\ UNCHANGED <<row, lastUpload, staging, layers>>
  <1>1. /\ Works(r, l) /\ run[r].kind \in FinalKinds /\ run' = Goto(r, "over")
        /\ UNCHANGED <<req, row, lastUpload, staging, layers>>
    BY DEF FinalKinds, Calm, NoSchedule, process_dag_failure_callback, ProcessKinds, CallbackCalled,
           Works, Busy, catalogVars, backendVars
  <1>2. Live(l) /\ \A h \in Handlers : ~Asks(h, l)
    BY <1>1, CalmAlone DEF Quiet
  <1>3. \A s \in Runs : SameConf(s) /\ run'[s].step = IF s = r THEN "over" ELSE run[s].step
    BY <1>1, Parts, GotoEffect DEF Calm
  <1>4. \A s \in Runs : ~Works(s, l)'
    BY <1>1, <1>3, CalmAlone DEF Works, Busy, SameConf, TaskSteps
  <1>5. owner' = [owner EXCEPT ![run[r].final_table_name] = NoLink]
    BY <1>1, <1>2 DEF FinalKinds, process_dag_failure_callback, failure_callback_accepted
  <1>6. OnlyOn(l)
    BY <1>1, <1>3, OnlyOnIntro
  <1> QED
    BY <1>1, <1>2, <1>3, <1>4, <1>5, <1>6 DEF Asks

\* A task of a run.
LEMMA TaskEffect ==
    ASSUME Calm, NEW r \in Runs, NEW l \in Links, l = run[r].link, RunStep(r)
    PROVE  /\ OnlyOn(l) /\ Works(r, l) /\ Works(r, l)'
           /\ \A h \in Handlers : ~Asks(h, l) /\ ~Asks(h, l)'
           /\ \A s \in Runs : SameConf(s) /\ (s # r => ~Works(s, l)')
           /\ \/ staging' \subseteq staging
              \/ run[r].kind = "staging" /\ staging' \subseteq staging \cup {run[r].source}
           /\ \/ UNCHANGED owner
              \/ /\ run[r].kind \in FinalKinds
                 /\ \E x \in {l, NoLink} :
                       owner' = [owner EXCEPT ![run[r].final_table_name] = x]
           /\ UNCHANGED <<req, row, lastUpload, layers>>
  <1>1. /\ Works(r, l) /\ UNCHANGED <<req, row, lastUpload, layers>>
        /\ \A s \in Runs : SameConf(s) /\ (s # r => run'[s].step = run[s].step)
    BY Parts, RunStepEffect DEF Calm, Works, Busy
  <1>2. run'[r].step \in TaskSteps \cup {"success", "failed"}
    <2>1. \/ \E step \in TaskSteps \cup {"success", "failed"} : run' = Goto(r, step)
          \/ run' = [run EXCEPT ![r] = [@ EXCEPT !.step = "clean", !.wrote = TRUE]]
      BY DEF RunStep, initial_ingestion, refresh_ingestion, drop_previous_final_table,
             read_transform_write_task, clean_staging_table_task, after_failure, TaskSteps
    <2> QED
      BY <2>1, Parts, GotoEffect, WroteEffect DEF Calm, TaskSteps
  <1>3. Works(r, l)'
    BY <1>1, <1>2 DEF Works, Busy, SameConf
  <1>4. \A h \in Handlers : ~Asks(h, l) /\ ~Asks(h, l)'
    BY <1>1, CalmAlone DEF Asks
  <1>5. \A s \in Runs \ {r} : ~Works(s, l)'
    BY <1>1, CalmAlone DEF Works, Busy, SameConf
  <1>6. \/ staging' \subseteq staging
        \/ run[r].kind = "staging" /\ staging' \subseteq staging \cup {run[r].source}
    BY DEF RunStep, initial_ingestion, refresh_ingestion, drop_previous_final_table,
           read_transform_write_task, clean_staging_table_task
  <1>7. \/ UNCHANGED owner
        \/ /\ run[r].kind \in FinalKinds
           /\ \E x \in {l, NoLink} :
                 owner' = [owner EXCEPT ![run[r].final_table_name] = x]
    <2>1. run[r].step \in {"drop", "transform"} => run[r].kind \in FinalKinds
      BY Parts DEF FinalKinds, Calm, NoSchedule, RunsInv, RunWellFormed, DagRun, NoRun
    <2> QED
      BY <2>1 DEF RunStep, initial_ingestion, refresh_ingestion, drop_previous_final_table,
             read_transform_write_task, clean_staging_table_task
  <1>8. OnlyOn(l)
    BY <1>1, OnlyOnIntro
  <1> QED
    BY <1>1, <1>3, <1>4, <1>5, <1>6, <1>7, <1>8

\* A callback that never arrives.
LEMMA LostEffect ==
    ASSUME Calm, NEW r \in Runs, NEW l \in Links, l = run[r].link, callback_lost(r)
    PROVE  /\ OnlyOn(l) /\ Works(r, l) /\ "callback" \in Faults
           /\ \A h \in Handlers : ~Asks(h, l) /\ ~Asks(h, l)'
           /\ \A s \in Runs : ~Works(s, l)' /\ SameConf(s)
           /\ UNCHANGED <<req, row, lastUpload, staging, owner, layers>>
  <1>1. /\ Works(r, l) /\ run' = Goto(r, "over") /\ "callback" \in Faults
        /\ UNCHANGED <<req, row, lastUpload, staging, owner, layers>>
    BY DEF callback_lost, CallbackCalled, Works, Busy, catalogVars, backendVars, pgVars
  <1>2. \A h \in Handlers : ~Asks(h, l) /\ ~Asks(h, l)'
    BY <1>1, CalmAlone DEF Asks
  <1>3. \A s \in Runs : SameConf(s) /\ run'[s].step = IF s = r THEN "over" ELSE run[s].step
    BY <1>1, Parts, GotoEffect DEF Calm
  <1>4. \A s \in Runs : ~Works(s, l)'
    BY <1>1, <1>3, CalmAlone DEF Works, Busy, SameConf, TaskSteps
  <1>5. OnlyOn(l)
    BY <1>1, <1>3, OnlyOnIntro
  <1> QED
    BY <1>1, <1>2, <1>3, <1>4, <1>5

\* DELETE /integrity-link: a request about a quiet dataset; no run is left to cancel.
LEMMA DeleteEffect ==
    ASSUME Clients = "settled", Calm, NEW h \in Handlers, NEW l \in Links,
           delete_dataset_cancel(h, l)
    PROVE  /\ OnlyOn(l) /\ Quiet(l) /\ Live(l)
           /\ \A r \in Runs : ~Works(r, l)' /\ SameConf(r)
           /\ \/ \A g \in Handlers : ~Asks(g, l)'
              \/ /\ \A g \in Handlers : Asks(g, l)' <=> g = h
                 /\ req'[h].op = "delete"
                 /\ req'[h].staging_table_name = row[l].staging_table_name
                 /\ req'[h].final_table_name = row[l].final_table_name
           /\ UNCHANGED <<row, lastUpload, staging, owner, layers>>
  <1>1. /\ Quiet(l) /\ Live(l) /\ req[h].op = "idle"
        /\ UNCHANGED <<row, lastUpload, staging, owner, layers>>
    BY MayActQuiet DEF delete_dataset_cancel, CanStart, pgVars, catalogVars, backendVars
  <1>2. \A r \in Runs : SameConf(r) /\ run'[r].step = run[r].step
    <2>1. Unfinished(l) = {}
      BY <1>1 DEF Quiet, Works, Busy, Unfinished, Active
    <2>2. UNCHANGED run \/ run' = Cancelled(Unfinished(l))
      BY DEF delete_dataset_cancel, runs_to_cancel
    <2> QED
      BY <2>1, <2>2, Parts, CancelledEffect DEF Calm, SameConf
  <1>3. \A r \in Runs : ~Works(r, l)'
    BY <1>1, <1>2 DEF Quiet, Works, Busy, SameConf
  <1>4. CASE UNCHANGED req
    BY <1>1, <1>2, <1>3, <1>4, OnlyOnIntro DEF Quiet, Asks
  <1>5. CASE req' = [req EXCEPT ![h] = [Idle EXCEPT !.op = "delete", !.link = l,
                        !.staging_table_name = row[l].staging_table_name,
                        !.final_table_name = row[l].final_table_name,
                        !.flag = row[l].metadata_id]]
    <2>1. /\ req'[h].op = "delete" /\ req'[h].link = l
          /\ req'[h].staging_table_name = row[l].staging_table_name
          /\ req'[h].final_table_name = row[l].final_table_name
          /\ \A g \in Handlers \ {h} : req'[g] = req[g]
      BY <1>5, Parts DEF Calm, RequestsInv, Idle
    <2>2. OnlyOn(l)
      BY <1>1, <1>2, <2>1, OnlyOnIntro
    <2>3. \A g \in Handlers : Asks(g, l)' <=> g = h
      BY <1>1, <2>1 DEF NotHere, Quiet, Asks
    <2> QED
      BY <1>1, <1>2, <1>3, <2>1, <2>2, <2>3
  <1> QED
    BY <1>4, <1>5 DEF delete_dataset_cancel

\* The same request drops the layer and the tables.
LEMMA DeleteDataEffect ==
    ASSUME Calm, NEW h \in Handlers, NEW l \in Links, l = req[h].link,
           delete_dataset_data(h)
    PROVE  /\ OnlyOn(l) /\ Asks(h, l) /\ req[h].op = "delete" /\ Live(l)
           /\ \A g \in Handlers : Asks(g, l)' <=> g = h
           /\ req'[h].op = "forget"
           /\ req'[h].staging_table_name = req[h].staging_table_name
           /\ req'[h].final_table_name = req[h].final_table_name
           /\ layers' = layers \ {layer(l, n) : n \in {req[h].final_table_name} \ {0}}
           /\ owner' = [n \in Names |-> IF n = req[h].final_table_name THEN NoLink
                                                                       ELSE owner[n]]
           /\ staging' = staging \ {req[h].staging_table_name}
           /\ UNCHANGED <<row, run, lastUpload>>
  <1>1. /\ req[h].op = "delete" /\ UNCHANGED <<row, run, lastUpload>>
        /\ staging' = staging \ {req[h].staging_table_name}
    BY DEF delete_dataset_data, backendVars, airflowVars
  <1>2. /\ req'[h].op = "forget" /\ req'[h].link = l
        /\ req'[h].staging_table_name = req[h].staging_table_name
        /\ req'[h].final_table_name = req[h].final_table_name
        /\ \A g \in Handlers \ {h} : req'[g] = req[g]
    BY Parts DEF Calm, delete_dataset_data, RequestsInv, Request
  <1>3. final_tables_to_drop(h) = {req[h].final_table_name} \ {0}
    BY DEF final_tables_to_drop
  <1>4. layers' = layers \ {layer(l, n) : n \in {req[h].final_table_name} \ {0}}
    BY <1>3 DEF delete_dataset_data
  <1>5. owner' = [n \in Names |-> IF n = req[h].final_table_name THEN NoLink ELSE owner[n]]
    <2>1. owner' = [n \in Names |-> IF n \in final_tables_to_drop(h) THEN NoLink
                                                                     ELSE owner[n]]
      BY DEF delete_dataset_data
    <2>2. \A n \in Names : n \in final_tables_to_drop(h) <=> n = req[h].final_table_name
      BY <1>3, ConstantsAssumption DEF Names
    <2> QED
      BY <2>1, <2>2
  <1>6. Asks(h, l)
    BY <1>1 DEF NotHere, Asks
  <1>7. Live(l) /\ \A g \in Handlers : Asks(g, l)' <=> g = h
    BY <1>2, <1>6, CalmAlone DEF NotHere, Asks, Quiet
  <1>8. OnlyOn(l)
    BY <1>1, <1>2, OnlyOnIntro DEF SameConf
  <1> QED
    BY <1>1, <1>2, <1>4, <1>5, <1>6, <1>7, <1>8

\* The same request deletes the row.
LEMMA DeleteRowEffect ==
    ASSUME Calm, NEW h \in Handlers, NEW l \in Links, l = req[h].link,
           delete_dataset_row(h)
    PROVE  /\ OnlyOn(l) /\ Asks(h, l) /\ req[h].op = "forget" /\ ~Live(l)'
           /\ \A g \in Handlers : ~Asks(g, l)'
           /\ \A r \in Runs : ~Works(r, l)' /\ SameConf(r)
           /\ row'[l].staging_table_name = 0 /\ row'[l].final_table_name = 0
           /\ row'[l].data_id = 0 /\ row'[l].last_retrieval = 0
           /\ UNCHANGED <<lastUpload, staging, owner, layers>>
  <1>1. /\ req[h].op = "forget" /\ UNCHANGED <<lastUpload, staging, owner, layers>>
        /\ \A g \in Handlers : req'[g] = IF g = h THEN Idle ELSE req[g]
    BY Parts DEF Calm, delete_dataset_row, RequestsInv, pgVars
  <1>2. /\ ~Live(l)' /\ row'[l].staging_table_name = 0 /\ row'[l].final_table_name = 0
        /\ row'[l].data_id = 0 /\ row'[l].last_retrieval = 0
        /\ \A m \in Links \ {l} : row'[m] = row[m]
    BY Parts DEF Calm, delete_dataset_row, StoreInv, Blank, Live
  <1>3. Asks(h, l)
    BY <1>1 DEF NotHere, Asks
  <1>4. \A r \in Runs : SameConf(r) /\ run'[r].step = run[r].step
    <2>1. Unfinished(l) = {}
      BY <1>3, CalmAlone DEF Works, Busy, Unfinished, Active
    <2>2. run' = Cancelled({})
      BY <2>1 DEF delete_dataset_row
    <2> QED
      BY <2>2, Parts, CancelledEffect DEF Calm
  <1>5. /\ \A g \in Handlers : ~Asks(g, l)'
        /\ \A r \in Runs : ~Works(r, l)'
    BY <1>1, <1>3, <1>4, CalmAlone DEF NotHere, Asks, Works, Busy, Idle, SameConf
  <1>6. OnlyOn(l)
    BY <1>1, <1>2, <1>4, OnlyOnIntro DEF Idle
  <1> QED
    BY <1>1, <1>2, <1>3, <1>4, <1>5, <1>6

\* The steps about a dataset.
CalmStep(l) ==
    \/ \E isFile \in BOOLEAN : submit_staging(l, isFile)
    \/ \E h \in Handlers, isFile \in BOOLEAN : edit_staging_commit(h, l, isFile)
    \/ \E h \in Handlers : l = req[h].link /\ edit_staging_trigger(h)
    \/ \E r \in Runs : l = run[r].link /\ StagingCallback(r)
    \/ \E h \in Handlers : l = req[h].link /\ rollback_drop(h)
    \/ \E h \in Handlers : l = req[h].link /\ rollback_commit(h)
    \/ \E h \in Handlers, recurrence \in BOOLEAN : process_staging_data_prepare(h, l, recurrence)
    \/ \E h \in Handlers : l = req[h].link /\ process_staging_data_commit(h)
    \/ \E h \in Handlers, r \in Runs : l = run[r].link /\ process_dag_success_publish(h, r)
    \/ \E h \in Handlers : l = req[h].link /\ process_dag_success_commit(h)
    \/ \E r \in Runs : l = run[r].link /\ process_dag_failure_callback(r)
    \/ \E r \in Runs : l = run[r].link /\ RunStep(r)
    \/ \E r \in Runs : l = run[r].link /\ callback_lost(r)
    \/ \E h \in Handlers : delete_dataset_cancel(h, l)
    \/ \E h \in Handlers : l = req[h].link /\ delete_dataset_data(h)
    \/ \E h \in Handlers : l = req[h].link /\ delete_dataset_row(h)

\* There are no others.
LEMMA CalmCases ==
    ASSUME Recurring = {}, Calm, Next
    PROVE  \E l \in Links : CalmStep(l)
  <1>1. \A h \in Handlers : req[h].op # "idle" => \E l \in Links : l = req[h].link
    BY Parts DEF Calm, RequestsInv, RequestWellFormed
  <1>2. \A r \in Runs : Busy(r) => \E l \in Links : l = run[r].link
    BY Parts DEF Calm, RunsInv, RunWellFormed, NoRun, Busy, TaskSteps
  <1>3. CASE StagingNext
    BY <1>1, <1>2, <1>3
    DEF StagingNext, CalmStep, edit_staging_trigger, StagingCallback,
        staging_dag_success_callback, staging_dag_failure_callback, rollback_drop,
        rollback_commit, Busy
  <1>4. CASE ProcessNext
    BY <1>1, <1>2, <1>4
    DEF ProcessNext, CalmStep, process_staging_data_commit, process_dag_success_publish,
        process_dag_success_commit, process_dag_failure_callback, Busy
  <1>5. CASE AirflowNext
    <2>1. \A r \in Runs : RunStep(r) \/ callback_lost(r) => Busy(r)
      BY Parts, RunStepEffect DEF Calm, callback_lost, Busy
    <2>2. \A l \in Links : ~load_scheduled_integrity_links(l) /\ ~trigger_process_dag(l)
      BY DEF Calm, NoSchedule, load_scheduled_integrity_links, emitted_dag,
             trigger_process_dag, NoDag
    <2> QED
      BY <1>2, <1>5, <2>1, <2>2 DEF AirflowNext, CalmStep
  <1>6. CASE DeletionNext
    <2>1. /\ \A l \in Links : ~update_schedule(l)
          /\ \A h \in Handlers, l \in Links : ~clear_schedule(h, l)
          /\ \A h \in Handlers : ~clear_schedule_commit(h)
      BY DEF Calm, NoSchedule, update_schedule, clear_schedule, clear_schedule_commit
    <2> QED
      BY <1>1, <1>6, <2>1
      DEF DeletionNext, CalmStep, delete_dataset_data, delete_dataset_row
  <1> QED
    BY <1>3, <1>4, <1>5, <1>6 DEF Next

-----------------------------------------------------------------------------
(* Names *)

\* What a request or a run says of its dataset is what the row says; a dataset has a
\* layer, or a name for good, once it was retrieved.
NamesOf(l) ==
    /\ row[l].data_id # 0 => row[l].data_id = row[l].final_table_name
                             /\ row[l].last_retrieval # 0
    /\ row[l].last_retrieval # 0 => row[l].final_table_name # 0
    /\ \A h \in Handlers : Asks(h, l) /\ req[h].op = "process" =>
          /\ row[l].last_retrieval # 0 => req[h].final_table_name = row[l].final_table_name
          /\ req[h].staging_table_name = row[l].staging_table_name
    /\ \A h \in Handlers : Asks(h, l) /\ req[h].op \in {"publish", "delete", "forget"} =>
          req[h].final_table_name = row[l].final_table_name
    /\ \A h \in Handlers :
          Asks(h, l) /\ req[h].op \in {"delete", "forget", "rollback", "discard"} =>
             req[h].staging_table_name = row[l].staging_table_name
    /\ \A h \in Handlers : Asks(h, l) /\ req[h].op \in {"rollback", "discard"} =>
          row[l].last_retrieval = 0
    /\ \A r \in Runs : Works(r, l) /\ run[r].kind \in FinalKinds =>
          /\ run[r].final_table_name = row[l].final_table_name
          /\ run[r].kind = "manual" => run[r].source = row[l].staging_table_name

NameInv == \A l \in Links : NamesOf(l)

\* The other datasets.
LEMMA OtherNames ==
    ASSUME NameInv, NEW l \in Links, OnlyOn(l), NamesOf(l)'
    PROVE  NameInv'
  <1>1. ASSUME NEW m \in Links, m # l
        PROVE  NamesOf(m)'
    BY <1>1 DEF NameInv, NamesOf, OnlyOn, SameConf
  <1> QED
    BY <1>1 DEF NameInv

\* Every step keeps the names.
LEMMA NamesKept ==
    ASSUME Clients = "settled", Calm, NameInv, NEW l \in Links, CalmStep(l)
    PROVE  NameInv'
  <1>1. NamesOf(l)
    BY DEF NameInv
  <1>2. ASSUME NEW isFile \in BOOLEAN, submit_staging(l, isFile)
        PROVE  NameInv'
    <2>1. \A r \in Runs : Works(r, l)' => run'[r].kind = "staging"
      BY <1>2, SubmitEffect DEF Quiet, Works, Busy, SameConf
    <2> QED
      BY <1>2, <2>1, SubmitEffect, OtherNames DEF FinalKinds, NamesOf
  <1>3. ASSUME NEW h \in Handlers, NEW isFile \in BOOLEAN, edit_staging_commit(h, l, isFile)
        PROVE  NameInv'
    <2>1. \A r \in Runs : ~Works(r, l)'
      BY <1>3, EditEffect DEF Quiet, Works, Busy
    <2> QED
      BY <1>1, <1>3, <2>1, EditEffect, OtherNames DEF NamesOf
  <1>4. ASSUME NEW h \in Handlers, l = req[h].link, edit_staging_trigger(h)
        PROVE  NameInv'
    <2>1. \A r \in Runs : Works(r, l)' => run'[r].kind = "staging"
      BY <1>4, EditTriggerEffect, CalmAlone DEF Works, Busy, SameConf
    <2> QED
      BY <1>1, <1>4, <2>1, EditTriggerEffect, OtherNames DEF FinalKinds, NamesOf
  <1>5. ASSUME NEW r \in Runs, l = run[r].link, StagingCallback(r)
        PROVE  NameInv'
    BY <1>1, <1>5, StagedEffect, OtherNames DEF NamesOf, TakesBack
  <1>6. ASSUME NEW h \in Handlers, NEW recurrence \in BOOLEAN,
               process_staging_data_prepare(h, l, recurrence)
        PROVE  NameInv'
    <2>1. \A r \in Runs : ~Works(r, l)'
      BY <1>6, PrepareEffect DEF Quiet, Works, Busy
    <2>2. row[l].last_retrieval # 0 =>
             \A name \in final_table_name_to_write(l) : name = row[l].final_table_name
      BY DEF final_table_name_to_write
    <2> QED
      BY <1>1, <1>6, <2>1, <2>2, PrepareEffect, OtherNames DEF NamesOf
  <1>7. ASSUME NEW h \in Handlers, l = req[h].link, process_staging_data_commit(h)
        PROVE  NameInv'
    <2>1. \A r \in Runs : Works(r, l)' =>
             /\ run'[r].source = req[h].staging_table_name
             /\ run'[r].final_table_name = req[h].final_table_name
             /\ row'[l].final_table_name = req[h].final_table_name
      BY <1>7, CommitEffect, CalmAlone DEF Works, Busy, SameConf
    <2>2. req[h].final_table_name # 0
      BY <1>7, CommitEffect, Parts DEF Calm, RequestsInv, RequestWellFormed
    <2>3. row'[l].staging_table_name = row[l].staging_table_name
          /\ row'[l].data_id = row[l].data_id /\ row'[l].last_retrieval = row[l].last_retrieval
      BY <1>7, CommitEffect
    <2>4. /\ row[l].last_retrieval # 0 => req[h].final_table_name = row[l].final_table_name
          /\ req[h].staging_table_name = row[l].staging_table_name
      BY <1>1, <1>7, CommitEffect DEF NamesOf
    <2>5. row'[l].final_table_name \in {row[l].final_table_name, req[h].final_table_name}
      BY <1>7, CommitEffect
    <2> QED
      BY <1>1, <1>7, <2>1, <2>2, <2>3, <2>4, <2>5, CommitEffect, OtherNames DEF NamesOf
  <1>8. ASSUME NEW h \in Handlers, NEW r \in Runs, l = run[r].link,
               process_dag_success_publish(h, r)
        PROVE  NameInv'
    BY <1>1, <1>8, PublishEffect, OtherNames DEF NamesOf
  <1>9. ASSUME NEW h \in Handlers, l = req[h].link, process_dag_success_commit(h)
        PROVE  NameInv'
    <2>1. req[h].final_table_name # 0 /\ req[h].run # 0
      BY <1>9, RetrievedEffect, Parts DEF Calm, RequestsInv, RequestWellFormed
    <2>2. req[h].final_table_name = row[l].final_table_name
      BY <1>1, <1>9, RetrievedEffect DEF NamesOf
    <2> QED
      BY <1>1, <1>9, <2>1, <2>2, RetrievedEffect, OtherNames DEF NamesOf
  <1>10. ASSUME NEW r \in Runs, l = run[r].link, process_dag_failure_callback(r)
        PROVE  NameInv'
    BY <1>1, <1>10, DroppedEffect, OtherNames DEF NamesOf
  <1>11. ASSUME NEW r \in Runs, l = run[r].link, RunStep(r)
        PROVE  NameInv'
    <2>1. \A s \in Runs : Works(s, l)' => Works(s, l) /\ SameConf(s)
      BY <1>11, TaskEffect
    <2> QED
      BY <1>1, <1>11, <2>1, TaskEffect, OtherNames DEF NamesOf, SameConf
  <1>12. ASSUME NEW r \in Runs, l = run[r].link, callback_lost(r)
        PROVE  NameInv'
    BY <1>1, <1>12, LostEffect, OtherNames DEF NamesOf
  <1>13. ASSUME NEW h \in Handlers, delete_dataset_cancel(h, l)
        PROVE  NameInv'
    BY <1>1, <1>13, DeleteEffect, OtherNames DEF NamesOf
  <1>14. ASSUME NEW h \in Handlers, l = req[h].link, delete_dataset_data(h)
        PROVE  NameInv'
    <2>1. \A r \in Runs : ~Works(r, l)'
      BY <1>14, DeleteDataEffect, CalmAlone DEF Works, Busy
    <2> QED
      BY <1>1, <1>14, <2>1, DeleteDataEffect, OtherNames DEF NamesOf
  <1>15. ASSUME NEW h \in Handlers, l = req[h].link, delete_dataset_row(h)
        PROVE  NameInv'
    BY <1>1, <1>15, DeleteRowEffect, OtherNames DEF NamesOf
  <1>16. ASSUME NEW h \in Handlers, l = req[h].link, rollback_drop(h)
        PROVE  NameInv'
    <2>1. \A r \in Runs : ~Works(r, l)'
      BY <1>16, RollbackDropEffect, CalmAlone DEF Works, Busy
    <2> QED
      BY <1>1, <1>16, <2>1, RollbackDropEffect, OtherNames DEF NamesOf
  <1>17. ASSUME NEW h \in Handlers, l = req[h].link, rollback_commit(h)
        PROVE  NameInv'
    BY <1>1, <1>17, RollbackCommitEffect, OtherNames DEF NamesOf
  <1> QED
    BY <1>2, <1>3, <1>4, <1>5, <1>6, <1>7, <1>8, <1>9, <1>10, <1>11, <1>12, <1>13,
        <1>14, <1>15, <1>16, <1>17
    DEF CalmStep

\* Two datasets of one organization have different names.
LEMMA DistinctNames ==
    ASSUME StoreInv, Contract!NamesReserved, NEW l \in Links, NEW m \in Links \ {l},
           integrity_organization[l] = integrity_organization[m], Live(l), Live(m),
           row[l].final_table_name # 0
    PROVE  row[l].final_table_name # row[m].final_table_name
  <1>1. Contract!Existing(l) /\ Contract!Existing(m)
    BY ExistingIsLive DEF StoreInv, Contract!Existing, phaseView
  <1> QED
    BY <1>1 DEF Contract!NamesReserved

\* The names, once and for all.
THEOREM NameInvAlways ==
    ASSUME Clients = "settled", Recurring = {}
    PROVE  Spec => [](Calm /\ NameInv)
  <1>1. Init => NameInv
    <2> SUFFICES ASSUME Init
                 PROVE  NameInv
      OBVIOUS
    <2>1. \A l \in Links : row[l].data_id = 0 /\ row[l].last_retrieval = 0
      BY DEF Init, Blank
    <2>2. \A l \in Links : Quiet(l)
      BY DEF NotHere, Init, NoRun, Idle, Quiet, Asks, Works, Busy, TaskSteps
    <2> QED
      BY <2>1, <2>2 DEF NameInv, NamesOf, Quiet
  <1>2. Calm /\ NameInv /\ [Next]_vars => NameInv'
    <2> SUFFICES ASSUME Calm, NameInv, [Next]_vars
                 PROVE  NameInv'
      OBVIOUS
    <2>1. CASE UNCHANGED vars
      BY <2>1 DEF vars, NameInv, NamesOf, Asks, Works, Busy
    <2> QED
      BY <2>1, CalmCases, NamesKept
  <1>3. WellFormed /\ OneAtATime /\ NoSchedule => Calm
    BY DEF Calm
  <1> QED
    BY <1>1, <1>2, <1>3, WellFormedAlways, OneAtATimeAlways, NoScheduleAlways, PTL DEF Spec

-----------------------------------------------------------------------------
(* Layers *)

\* The layer a dataset names exists; so does the one its callback has just published.
LayersOf(l) ==
    /\ Live(l) /\ row[l].data_id # 0 /\ ~BeingDeleted(l)
          => layer(l, row[l].data_id) \in layers
    /\ \A h \in Handlers : Asks(h, l) /\ req[h].op = "publish" /\ req[h].flag
          => layer(l, req[h].final_table_name) \in layers

LayerInv == \A l \in Links : LayersOf(l)

\* A deletion is a request of its dataset.
LEMMA DeletionAsks ==
    \A l \in Links : BeingDeleted(l) <=>
        \E h \in Handlers : Asks(h, l) /\ req[h].op \in {"delete", "forget"}
  BY DEF NotHere, BeingDeleted, Asks

\* The other datasets, if their layers are left in place.
LEMMA OtherLayers ==
    ASSUME LayerInv, NEW l \in Links, OnlyOn(l), LayersOf(l)',
           \A m \in Links \ {l} :
               /\ Live(m) /\ layer(m, row[m].data_id) \in layers
                     /\ row[m].data_id # 0 => layer(m, row[m].data_id) \in layers'
               /\ \A h \in Handlers : Asks(h, m) /\ req[h].op = "publish"
                     /\ layer(m, req[h].final_table_name) \in layers
                     => layer(m, req[h].final_table_name) \in layers'
    PROVE  LayerInv'
  <1>1. ASSUME NEW m \in Links \ {l}
        PROVE  LayersOf(m)'
    <2>1. BeingDeleted(m) => BeingDeleted(m)'
      BY DEF NotHere, OnlyOn, BeingDeleted, Asks
    <2>2. row'[m] = row[m] /\ Live(m)' = Live(m) /\ LayersOf(m)
      BY DEF OnlyOn, Live, LayerInv
    <2>3. Live(m)' /\ row'[m].data_id # 0 /\ ~BeingDeleted(m)'
             => layer(m, row'[m].data_id) \in layers'
      BY <2>1, <2>2 DEF LayersOf
    <2>4. \A h \in Handlers : Asks(h, m)' /\ req'[h].op = "publish" /\ req'[h].flag
             => layer(m, req'[h].final_table_name) \in layers'
      BY <2>2 DEF LayersOf, OnlyOn
    <2> QED
      BY <2>3, <2>4 DEF LayersOf, layer
  <1> QED
    BY <1>1 DEF LayerInv

\* A step that removes no layer.
LEMMA MoreLayers ==
    ASSUME LayerInv, NEW l \in Links, OnlyOn(l), LayersOf(l)', layers \subseteq layers'
    PROVE  LayerInv'
  BY OtherLayers

\* A dataset that no request publishes nor deletes keeps its layer.
LEMMA SameLayer ==
    ASSUME LayerInv, NEW l \in Links, OnlyOn(l), UNCHANGED layers,
           \A h \in Handlers : Asks(h, l) => req[h].op \notin {"delete", "forget"},
           \A h \in Handlers : Asks(h, l)' => req'[h].op # "publish",
           Live(l)' => Live(l) /\ row'[l].data_id = row[l].data_id
    PROVE  LayerInv'
  <1>1. ~BeingDeleted(l)
    BY DeletionAsks
  <1>2. LayersOf(l)'
    BY <1>1 DEF LayerInv, LayersOf, layer
  <1> QED
    BY <1>2, MoreLayers

\* Every step keeps the layers.
LEMMA LayersKept ==
    ASSUME Clients = "settled", Calm, NameInv, Contract!NamesReserved, LayerInv,
           NEW l \in Links, CalmStep(l)
    PROVE  LayerInv'
  <1>1. ASSUME NEW isFile \in BOOLEAN, submit_staging(l, isFile)
        PROVE  LayerInv'
    <2>1. LayersOf(l)'
      BY <1>1, SubmitEffect DEF LayersOf
    <2> QED
      BY <1>1, <2>1, SubmitEffect, MoreLayers
  <1>2. ASSUME NEW h \in Handlers, NEW isFile \in BOOLEAN, edit_staging_commit(h, l, isFile)
        PROVE  LayerInv'
    BY <1>2, EditEffect, SameLayer DEF Quiet
  <1>3. ASSUME NEW h \in Handlers, l = req[h].link, edit_staging_trigger(h)
        PROVE  LayerInv'
    <2>1. \A g \in Handlers : Asks(g, l) => g = h
      BY <1>3, EditTriggerEffect, CalmAlone
    <2> QED
      BY <1>3, <2>1, EditTriggerEffect, SameLayer DEF Live
  <1>4. ASSUME NEW r \in Runs, l = run[r].link, StagingCallback(r)
        PROVE  LayerInv'
    BY <1>4, StagedEffect, SameLayer DEF Live, TakesBack
  <1>5. ASSUME NEW h \in Handlers, NEW recurrence \in BOOLEAN,
               process_staging_data_prepare(h, l, recurrence)
        PROVE  LayerInv'
    BY <1>5, PrepareEffect, SameLayer DEF Live, Quiet
  <1>6. ASSUME NEW h \in Handlers, l = req[h].link, process_staging_data_commit(h)
        PROVE  LayerInv'
    <2>1. \A g \in Handlers : Asks(g, l) => g = h
      BY <1>6, CommitEffect, CalmAlone
    <2>2. row'[l].data_id = row[l].data_id
      BY <1>6, CommitEffect
    <2> QED
      BY <1>6, <2>1, <2>2, CommitEffect, SameLayer
  <1>7. ASSUME NEW h \in Handlers, NEW r \in Runs, l = run[r].link,
               process_dag_success_publish(h, r)
        PROVE  LayerInv'
    <2>1. ~BeingDeleted(l)
      BY <1>7, PublishEffect, DeletionAsks
    <2>2. /\ UNCHANGED row /\ layers \subseteq layers'
          /\ req'[h].flag => layer(l, req'[h].final_table_name) \in layers'
          /\ \A g \in Handlers : Asks(g, l)' => g = h
      BY <1>7, PublishEffect
    <2>3. LayersOf(l)'
      BY <2>1, <2>2 DEF LayerInv, LayersOf, layer, Live
    <2> QED
      BY <1>7, <2>3, PublishEffect, MoreLayers
  <1>8. ASSUME NEW h \in Handlers, l = req[h].link, process_dag_success_commit(h)
        PROVE  LayerInv'
    <2>1. ~BeingDeleted(l)
      BY <1>8, RetrievedEffect, DeletionAsks, CalmAlone
    <2>2. LayersOf(l)'
      BY <1>8, <2>1, RetrievedEffect DEF LayerInv, LayersOf, layer, Live
    <2> QED
      BY <1>8, <2>2, RetrievedEffect, MoreLayers
  <1>9. ASSUME NEW r \in Runs, l = run[r].link, process_dag_failure_callback(r)
        PROVE  LayerInv'
    BY <1>9, DroppedEffect, SameLayer DEF Live
  <1>10. ASSUME NEW r \in Runs, l = run[r].link, RunStep(r)
        PROVE  LayerInv'
    BY <1>10, TaskEffect, SameLayer DEF Live
  <1>11. ASSUME NEW r \in Runs, l = run[r].link, callback_lost(r)
        PROVE  LayerInv'
    BY <1>11, LostEffect, SameLayer DEF Live
  <1>12. ASSUME NEW h \in Handlers, delete_dataset_cancel(h, l)
        PROVE  LayerInv'
    BY <1>12, DeleteEffect, SameLayer DEF Live, Quiet
  <1>13. ASSUME NEW h \in Handlers, l = req[h].link, delete_dataset_data(h)
        PROVE  LayerInv'
    <2> DEFINE name == req[h].final_table_name
    <2>1. /\ Live(l) /\ name = row[l].final_table_name
          /\ layers' = layers \ {layer(l, n) : n \in {name} \ {0}}
      BY <1>13, DeleteDataEffect DEF NameInv, NamesOf
    <2>2. LayersOf(l)'
      <3>1. BeingDeleted(l)'
        BY <1>13, DeleteDataEffect DEF BeingDeleted, Asks
      <3>2. \A g \in Handlers : Asks(g, l)' => req'[g].op # "publish"
        BY <1>13, DeleteDataEffect
      <3> QED
        BY <3>1, <3>2 DEF LayersOf
    <2>3. ASSUME NEW m \in Links \ {l}, Live(m), row[m].final_table_name # 0,
                 layer(m, row[m].final_table_name) \in layers
          PROVE  layer(m, row[m].final_table_name) \in layers'
      BY <2>1, <2>3, DistinctNames, Parts DEF Calm, layer
    <2>4. \A m \in Links \ {l} :
             /\ Live(m) /\ layer(m, row[m].data_id) \in layers
                   /\ row[m].data_id # 0 => layer(m, row[m].data_id) \in layers'
             /\ \A g \in Handlers : Asks(g, m) /\ req[g].op = "publish"
                   /\ layer(m, req[g].final_table_name) \in layers
                   => layer(m, req[g].final_table_name) \in layers'
      <3> TAKE m \in Links \ {l}
      <3>1. NamesOf(m)
        BY DEF NameInv
      <3>2. Live(m) /\ layer(m, row[m].data_id) \in layers /\ row[m].data_id # 0
               => layer(m, row[m].data_id) \in layers'
        BY <2>3, <3>1 DEF NamesOf
      <3>3. ASSUME NEW g \in Handlers, Asks(g, m), req[g].op = "publish",
                   layer(m, req[g].final_table_name) \in layers
            PROVE  layer(m, req[g].final_table_name) \in layers'
        <4>1. Live(m)
          BY <3>3, CalmAlone DEF Quiet
        <4>2. req[g].final_table_name = row[m].final_table_name /\ req[g].final_table_name # 0
          BY <3>1, <3>3, Parts DEF NamesOf, Calm, RequestsInv, RequestWellFormed
        <4> QED
          BY <2>3, <3>3, <4>1, <4>2
      <3> QED
        BY <3>2, <3>3
    <2> QED
      BY <1>13, <2>2, <2>4, DeleteDataEffect, OtherLayers
  <1>14. ASSUME NEW h \in Handlers, l = req[h].link, delete_dataset_row(h)
        PROVE  LayerInv'
    <2>1. LayersOf(l)'
      BY <1>14, DeleteRowEffect DEF LayersOf
    <2> QED
      BY <1>14, <2>1, DeleteRowEffect, MoreLayers
  <1>15. ASSUME NEW h \in Handlers, l = req[h].link, rollback_drop(h)
        PROVE  LayerInv'
    <2>1. \A g \in Handlers : Asks(g, l) => g = h
      BY <1>15, RollbackDropEffect, CalmAlone
    <2> QED
      BY <1>15, <2>1, RollbackDropEffect, SameLayer DEF Live
  <1>16. ASSUME NEW h \in Handlers, l = req[h].link, rollback_commit(h)
        PROVE  LayerInv'
    <2>1. LayersOf(l)'
      BY <1>16, RollbackCommitEffect DEF LayersOf
    <2> QED
      BY <1>16, <2>1, RollbackCommitEffect, MoreLayers
  <1> QED
    BY <1>1, <1>2, <1>3, <1>4, <1>5, <1>6, <1>7, <1>8, <1>9, <1>10, <1>11, <1>12,
        <1>13, <1>14, <1>15, <1>16
    DEF CalmStep

\* Among users who wait and schedule nothing, the layer a dataset names exists in
\* GeoServer, whatever GeoServer, Airflow and the tasks refuse and whichever callbacks
\* are lost (layer_publication.py, dataset_deletion_service.py step 2).
THEOREM LayerBacksDataIdAlways ==
    ASSUME Clients = "settled", Recurring = {}
    PROVE  Spec => []LayerBacksDataId
  <1>1. Init => LayerInv
    <2> SUFFICES ASSUME Init
                 PROVE  LayerInv
      OBVIOUS
    <2>1. \A l \in Links : ~Live(l)
      BY DEF Init, Blank, Live
    <2>2. \A h \in Handlers, l \in Links : ~Asks(h, l)
      BY DEF NotHere, Init, Idle, Asks
    <2> QED
      BY <2>1, <2>2 DEF LayerInv, LayersOf
  <1>2. Calm /\ NameInv /\ Contract!NamesReserved /\ LayerInv /\ [Next]_vars => LayerInv'
    <2> SUFFICES ASSUME Calm, NameInv, Contract!NamesReserved, LayerInv, [Next]_vars
                 PROVE  LayerInv'
      OBVIOUS
    <2>1. CASE UNCHANGED vars
      BY <2>1 DEF vars, LayerInv, LayersOf, Asks, BeingDeleted, Live, layer
    <2> QED
      BY <2>1, CalmCases, LayersKept
  <1>3. LayerInv => LayerBacksDataId
    BY DEF LayerInv, LayersOf, LayerBacksDataId
  <1> QED
    BY <1>1, <1>2, <1>3, NameInvAlways, NamesReservedAlways, PTL DEF Spec

-----------------------------------------------------------------------------
(* Final tables *)

\* A dataset has no table but the one its row names; until it is retrieved once,
\* only while its processing is under way; and none once its deletion dropped it.
TablesKnown(l) ==
    /\ \A n \in TablesOf(l) : Live(l) /\ row[l].final_table_name = n
    /\ TablesOf(l) # {} /\ row[l].last_retrieval = 0 =>
          \/ \E r \in Runs : Works(r, l) /\ run[r].kind \in FinalKinds
          \/ \E h \in Handlers : Asks(h, l) /\ req[h].op = "publish"
    /\ \A h \in Handlers : Asks(h, l) /\ req[h].op = "forget" => TablesOf(l) = {}

TableInv == \A l \in Links : TablesKnown(l)

\* The other datasets, if they get no table.
LEMMA OtherTables ==
    ASSUME TableInv, NEW l \in Links, OnlyOn(l), TablesKnown(l)',
           \A m \in Links \ {l} : TablesOf(m)' \subseteq TablesOf(m)
    PROVE  TableInv'
  <1>1. ASSUME NEW m \in Links \ {l}
        PROVE  TablesKnown(m)'
    <2>1. /\ row'[m] = row[m] /\ Live(m)' = Live(m) /\ TablesKnown(m)
          /\ TablesOf(m)' \subseteq TablesOf(m)
      BY DEF OnlyOn, Live, TableInv
    <2>2. \A n \in TablesOf(m)' : Live(m)' /\ row'[m].final_table_name = n
      BY <2>1 DEF TablesKnown
    <2>3. ASSUME TablesOf(m)' # {}, row'[m].last_retrieval = 0
          PROVE  \/ \E r \in Runs : Works(r, m)' /\ run'[r].kind \in FinalKinds
                 \/ \E h \in Handlers : Asks(h, m)' /\ req'[h].op = "publish"
      <3>1. \/ \E r \in Runs : Works(r, m) /\ run[r].kind \in FinalKinds
            \/ \E h \in Handlers : Asks(h, m) /\ req[h].op = "publish"
        BY <2>1, <2>3 DEF TablesKnown
      <3> QED
        BY <3>1 DEF OnlyOn, SameConf
    <2>4. \A h \in Handlers : Asks(h, m)' /\ req'[h].op = "forget" => TablesOf(m)' = {}
      BY <2>1 DEF OnlyOn, TablesKnown
    <2> QED
      BY <2>2, <2>3, <2>4 DEF TablesKnown
  <1> QED
    BY <1>1 DEF TableInv

\* The steps that write and drop no table.
LEMMA SameTables ==
    ASSUME TableInv, NEW l \in Links, OnlyOn(l), TablesKnown(l)', UNCHANGED owner
    PROVE  TableInv'
  BY OtherTables DEF TablesOf

\* A dataset that was never processed has no table.
LEMMA NoTables ==
    ASSUME TableInv, NEW l \in Links, row[l].last_retrieval = 0 \/ ~Live(l),
           \A r \in Runs : Works(r, l) => run[r].kind \notin FinalKinds,
           \A h \in Handlers : Asks(h, l) => req[h].op # "publish"
    PROVE  TablesOf(l) = {}
  BY DEF TableInv, TablesKnown

\* The steps after which no task and no callback of the dataset is to come, as
\* before: its table, if it has one, stays the one its row names.
LEMMA RestingTables ==
    ASSUME TableInv, NEW l \in Links, OnlyOn(l), UNCHANGED owner,
           \A r \in Runs : Works(r, l) => run[r].kind \notin FinalKinds,
           \A h \in Handlers : Asks(h, l) => req[h].op # "publish",
           Live(l) => \/ row[l].last_retrieval = 0
                      \/ /\ Live(l)' /\ row'[l].last_retrieval # 0
                         /\ row'[l].final_table_name = row[l].final_table_name,
           \A h \in Handlers : Asks(h, l)' => req'[h].op # "forget"
    PROVE  TableInv'
  <1>1. TablesOf(l)' = TablesOf(l)
    BY DEF TablesOf
  <1>2. CASE TablesOf(l) = {}
    BY <1>1, <1>2, SameTables DEF TablesKnown
  <1>3. CASE TablesOf(l) # {}
    <2>1. row[l].last_retrieval # 0 /\ Live(l)
      BY <1>3, NoTables
    <2>2. TablesKnown(l)'
      BY <1>1, <2>1 DEF TableInv, TablesKnown
    <2> QED
      BY <2>2, SameTables
  <1> QED
    BY <1>2, <1>3

\* Every step keeps the tables known.
LEMMA TablesKept ==
    ASSUME Clients = "settled", "callback" \notin Faults, Calm, NameInv,
           Contract!NamesReserved, TableInv, NEW l \in Links, CalmStep(l)
    PROVE  TableInv'
  <1>1. ASSUME NEW isFile \in BOOLEAN, submit_staging(l, isFile)
        PROVE  TableInv'
    BY <1>1, SubmitEffect, RestingTables DEF Quiet
  <1>2. ASSUME NEW h \in Handlers, NEW isFile \in BOOLEAN, edit_staging_commit(h, l, isFile)
        PROVE  TableInv'
    BY <1>2, EditEffect, RestingTables DEF Quiet
  <1>3. ASSUME NEW h \in Handlers, l = req[h].link, edit_staging_trigger(h)
        PROVE  TableInv'
    <2>1. /\ \A r \in Runs : ~Works(r, l)
          /\ \A g \in Handlers : Asks(g, l) => g = h
      BY <1>3, EditTriggerEffect, CalmAlone
    <2> QED
      BY <1>3, <2>1, EditTriggerEffect, RestingTables DEF Live
  <1>4. ASSUME NEW r \in Runs, l = run[r].link, StagingCallback(r)
        PROVE  TableInv'
    <2>1. \A s \in Runs : Works(s, l) => s = r
      BY <1>4, StagedEffect, CalmAlone
    <2> QED
      BY <1>4, <2>1, StagedEffect, RestingTables DEF FinalKinds, Live, TakesBack
  <1>5. ASSUME NEW h \in Handlers, NEW recurrence \in BOOLEAN,
               process_staging_data_prepare(h, l, recurrence)
        PROVE  TableInv'
    BY <1>5, PrepareEffect, RestingTables DEF Quiet, Live
  <1>6. ASSUME NEW h \in Handlers, l = req[h].link, process_staging_data_commit(h)
        PROVE  TableInv'
    <2>1. /\ \A r \in Runs : ~Works(r, l)
          /\ \A g \in Handlers : Asks(g, l) => g = h
      BY <1>6, CommitEffect, CalmAlone
    <2>2. row[l].last_retrieval # 0 =>
             /\ row'[l].last_retrieval # 0
             /\ row'[l].final_table_name = row[l].final_table_name
      BY <1>6, CommitEffect DEF NameInv, NamesOf
    <2> QED
      BY <1>6, <2>1, <2>2, CommitEffect, RestingTables
  <1>7. ASSUME NEW h \in Handlers, NEW r \in Runs, l = run[r].link,
               process_dag_success_publish(h, r)
        PROVE  TableInv'
    <2>1. TablesOf(l)' = TablesOf(l) /\ Live(l)' = Live(l)
      BY <1>7, PublishEffect DEF TablesOf, Live
    <2>2. TablesKnown(l)'
      BY <1>7, <2>1, PublishEffect DEF TableInv, TablesKnown
    <2> QED
      BY <1>7, <2>2, PublishEffect, SameTables
  <1>8. ASSUME NEW h \in Handlers, l = req[h].link, process_dag_success_commit(h)
        PROVE  TableInv'
    <2> DEFINE name == req[h].final_table_name
    <2>1. name = row[l].final_table_name /\ name # 0 /\ req[h].run # 0
      BY <1>8, RetrievedEffect, Parts
      DEF NameInv, NamesOf, Calm, RequestsInv, RequestWellFormed
    <2>2. ~name_taken(l, name)
      BY <1>8, <2>1, RetrievedEffect, DistinctNames, Parts DEF Calm, name_taken
    <2>3. TablesOf(l)' = TablesOf(l)
      BY <1>8, RetrievedEffect DEF TablesOf
    <2>4. TablesKnown(l)'
      BY <1>8, <2>1, <2>2, <2>3, RetrievedEffect DEF TableInv, TablesKnown
    <2> QED
      BY <1>8, <2>4, RetrievedEffect, SameTables
  <1>9. ASSUME NEW r \in Runs, l = run[r].link, process_dag_failure_callback(r)
        PROVE  TableInv'
    <2>1. /\ owner' = [owner EXCEPT ![run[r].final_table_name] = NoLink]
          /\ run[r].final_table_name = row[l].final_table_name
      BY <1>9, DroppedEffect DEF NameInv, NamesOf
    <2>2. \A m \in Links \ {l} : TablesOf(m)' \subseteq TablesOf(m)
      BY <2>1, Parts, ConstantsAssumption DEF TablesOf, Calm, StoreInv
    <2>3. TablesOf(l)' = {}
      BY <2>1, Parts, ConstantsAssumption DEF TableInv, TablesKnown, TablesOf, Calm, StoreInv
    <2>4. TablesKnown(l)'
      BY <2>3 DEF TablesKnown
    <2> QED
      BY <1>9, <2>2, <2>4, DroppedEffect, OtherTables
  <1>10. ASSUME NEW r \in Runs, l = run[r].link, RunStep(r)
        PROVE  TableInv'
    <2>1. UNCHANGED row /\ Live(l) /\ Live(l)' /\ Works(r, l)'
          /\ run'[r].kind = run[r].kind
          /\ \A h \in Handlers : ~Asks(h, l)'
      BY <1>10, TaskEffect, CalmAlone DEF Live, Quiet, SameConf
    <2>2. CASE UNCHANGED owner
      <3>1. TablesOf(l)' = TablesOf(l)
        BY <2>2 DEF TablesOf
      <3>2. \A s \in Runs : Works(s, l) => s = r
        BY <1>10, TaskEffect, CalmAlone
      <3>3. \A h \in Handlers : ~Asks(h, l)
        BY <1>10, TaskEffect
      <3>4. TablesKnown(l)'
        BY <2>1, <3>1, <3>2, <3>3 DEF TableInv, TablesKnown
      <3> QED
        BY <1>10, <2>2, <3>4, TaskEffect, SameTables
    <2>3. CASE /\ run[r].kind \in FinalKinds
               /\ \E x \in {l, NoLink} :
                     owner' = [owner EXCEPT ![run[r].final_table_name] = x]
      <3>1. run[r].final_table_name = row[l].final_table_name
        BY <1>10, <2>3, TaskEffect DEF FinalKinds, NameInv, NamesOf
      <3>2. \A m \in Links \ {l} : TablesOf(m)' \subseteq TablesOf(m)
        BY <2>3, Parts, ConstantsAssumption DEF TablesOf, Calm, StoreInv
      <3>3. \A n \in TablesOf(l)' : n = row[l].final_table_name
        BY <2>3, <3>1, Parts, ConstantsAssumption
        DEF TableInv, TablesKnown, TablesOf, Calm, StoreInv
      <3>4. TablesKnown(l)'
        BY <2>1, <2>3, <3>3 DEF TablesKnown
      <3> QED
        BY <1>10, <3>2, <3>4, TaskEffect, OtherTables
    <2> QED
      BY <1>10, <2>2, <2>3, TaskEffect DEF FinalKinds
  <1>11. \A r \in Runs : ~callback_lost(r)
    BY DEF callback_lost
  <1>12. ASSUME NEW h \in Handlers, delete_dataset_cancel(h, l)
        PROVE  TableInv'
    BY <1>12, DeleteEffect, RestingTables DEF Quiet, Live
  <1>13. ASSUME NEW h \in Handlers, l = req[h].link, delete_dataset_data(h)
        PROVE  TableInv'
    <2>1. owner' = [n \in Names |-> IF n = row[l].final_table_name THEN NoLink ELSE owner[n]]
      BY <1>13, DeleteDataEffect DEF NameInv, NamesOf
    <2>2. \A m \in Links \ {l} : TablesOf(m)' \subseteq TablesOf(m)
      BY <2>1, ConstantsAssumption DEF TablesOf
    <2>3. TablesOf(l)' = {}
      BY <2>1, ConstantsAssumption DEF TableInv, TablesKnown, TablesOf
    <2>4. TablesKnown(l)'
      BY <2>3 DEF TablesKnown
    <2> QED
      BY <1>13, <2>2, <2>4, DeleteDataEffect, OtherTables
  <1>14. ASSUME NEW h \in Handlers, l = req[h].link, delete_dataset_row(h)
        PROVE  TableInv'
    <2>1. TablesOf(l) = {}
      BY <1>14, DeleteRowEffect DEF TableInv, TablesKnown
    <2>2. TablesOf(l)' = {}
      BY <1>14, <2>1, DeleteRowEffect DEF TablesOf
    <2>3. TablesKnown(l)'
      BY <2>2 DEF TablesKnown
    <2> QED
      BY <1>14, <2>3, DeleteRowEffect, SameTables
  <1>15. ASSUME NEW h \in Handlers, l = req[h].link, rollback_drop(h)
        PROVE  TableInv'
    <2>1. /\ \A r \in Runs : ~Works(r, l)
          /\ \A g \in Handlers : Asks(g, l) => g = h
      BY <1>15, RollbackDropEffect, CalmAlone
    <2> QED
      BY <1>15, <2>1, RollbackDropEffect, RestingTables DEF Live
  <1>16. ASSUME NEW h \in Handlers, l = req[h].link, rollback_commit(h)
        PROVE  TableInv'
    <2>1. /\ \A r \in Runs : ~Works(r, l)
          /\ \A g \in Handlers : Asks(g, l) => g = h
          /\ row[l].last_retrieval = 0
      BY <1>16, RollbackCommitEffect, CalmAlone DEF NameInv, NamesOf
    <2> QED
      BY <1>16, <2>1, RollbackCommitEffect, RestingTables
  <1> QED
    BY <1>1, <1>2, <1>3, <1>4, <1>5, <1>6, <1>7, <1>8, <1>9, <1>10, <1>11, <1>12,
        <1>13, <1>14, <1>15, <1>16
    DEF CalmStep

\* The tables, once and for all.
THEOREM TableInvAlways ==
    ASSUME Clients = "settled", Recurring = {}, "callback" \notin Faults
    PROVE  Spec => []TableInv
  <1>1. Init => TableInv
    <2> SUFFICES ASSUME Init
                 PROVE  TableInv
      OBVIOUS
    <2>1. \A l \in Links : TablesOf(l) = {}
      BY ConstantsAssumption DEF Init, TablesOf
    <2> QED
      BY <2>1 DEF TableInv, TablesKnown
  <1>2. Calm /\ NameInv /\ Contract!NamesReserved /\ TableInv /\ [Next]_vars => TableInv'
    <2> SUFFICES ASSUME Calm, NameInv, Contract!NamesReserved, TableInv, [Next]_vars
                 PROVE  TableInv'
      OBVIOUS
    <2>1. CASE UNCHANGED vars
      BY <2>1 DEF vars, TableInv, TablesKnown, TablesOf, Asks, Works, Busy, Live
    <2> QED
      BY <2>1, CalmCases, TablesKept
  <1> QED
    BY <1>1, <1>2, NameInvAlways, NamesReservedAlways, PTL DEF Spec

\* Among users who wait and schedule nothing, and if no callback is lost, datasets of
\* one organization never find the rows of each other in the table they name
\* (process.py, get_available_table_name).
THEOREM NoForeignDataAlways ==
    ASSUME Clients = "settled", Recurring = {}, "callback" \notin Faults,
           \A l, m \in Links : integrity_organization[l] = integrity_organization[m]
    PROVE  Spec => []NoForeignData
  <1>1. WellFormed /\ Contract!NamesReserved /\ TableInv => NoForeignData
    <2> SUFFICES ASSUME WellFormed, Contract!NamesReserved, TableInv,
                        NEW l \in Links, Live(l), row[l].final_table_name # 0
                 PROVE  owner[row[l].final_table_name] \in {l, NoLink}
      BY DEF NoForeignData
    <2> DEFINE n == row[l].final_table_name
    <2>1. n \in Names /\ owner[n] \in Links \cup {NoLink}
      BY Parts, ConstantsAssumption DEF StoreInv, IntegrityLink, Names
    <2>2. ASSUME NEW m \in Links, owner[n] = m
          PROVE  m = l
      <3>1. Live(m) /\ row[m].final_table_name = n
        BY <2>1, <2>2 DEF TableInv, TablesKnown, TablesOf
      <3> QED
        BY <3>1, DistinctNames, Parts
    <2> QED
      BY <2>1, <2>2
  <1> QED
    BY <1>1, WellFormedAlways, NamesReservedAlways, TableInvAlways, PTL

-----------------------------------------------------------------------------
(* Staging tables *)

\* A run of a dataset finds its source among the staging tables only while the
\* dataset exists, from its last upload or from the one a request is replacing.
SourcesKnown(l) ==
    \A r \in Runs : run[r].link = l /\ run[r].source \in staging =>
        /\ Live(l)
        /\ \A h \in Handlers : Asks(h, l) => req[h].op \notin {"forget", "discard"}
        /\ \/ run[r].source = row[l].staging_table_name
           \/ \E h \in Handlers : /\ Asks(h, l) /\ req[h].op = "edit"
                                  /\ run[r].source = req[h].staging_table_name

\* No two datasets share a source.
SourceInv ==
    /\ \A u \in staging : u <= lastUpload
    /\ \A r \in Runs : run[r].source <= lastUpload
    /\ \A r \in Runs, l \in Links :
          run[r].source # 0 /\ run[r].source = row[l].staging_table_name => run[r].link = l
    /\ \A r, s \in Runs :
          run[r].source # 0 /\ run[r].source = run[s].source => run[r].link = run[s].link
    /\ \A l \in Links : SourcesKnown(l)

\* Unless a request is replacing it, the source is the last upload.
LEMMA LastSource ==
    ASSUME SourceInv, NEW l \in Links, \A h \in Handlers : Asks(h, l) => req[h].op # "edit"
    PROVE  \A r \in Runs : run[r].link = l /\ run[r].source \in staging =>
               /\ Live(l) /\ run[r].source = row[l].staging_table_name
               /\ \A h \in Handlers : Asks(h, l) => req[h].op \notin {"forget", "discard"}
  BY DEF SourceInv, SourcesKnown

\* A step about a dataset, with at most a new upload, a run of the last one, and the
\* table of that one.
LEMMA SourcesStep ==
    ASSUME WellFormed, WellFormed', UploadInv, UploadInv', SourceInv,
           NEW l \in Links, OnlyOn(l), SourcesKnown(l)',
           \/ /\ lastUpload' = lastUpload
              /\ row'[l].staging_table_name \in {row[l].staging_table_name, 0}
           \/ /\ lastUpload' = lastUpload + 1
              /\ row'[l].staging_table_name = lastUpload + 1,
           \A r \in Runs : \/ SameConf(r)
                           \/ /\ run'[r].link = l
                              /\ run'[r].source = row'[l].staging_table_name,
           staging' \subseteq staging \cup {row[l].staging_table_name}
    PROVE  SourceInv'
  <1>1. /\ lastUpload \in Nat /\ lastUpload' \in Nat /\ lastUpload <= lastUpload'
        /\ \A r \in Runs : run[r].source \in Nat
        /\ \A m \in Links : row[m].staging_table_name \in Nat
        /\ \A u \in staging' : u \in Nat /\ u # 0
    BY Parts, ConstantsAssumption
    DEF WellFormed, TypeOK, RunsInv, StoreInv, DagRun, IntegrityLink, Uploads
  <1>2. \A u \in staging' : u <= lastUpload'
    BY <1>1 DEF SourceInv, UploadInv
  <1>3. \A r \in Runs : run'[r].source <= lastUpload'
    BY <1>1 DEF SourceInv, UploadInv, SameConf
  <1>4. ASSUME NEW r \in Runs, NEW m \in Links, run'[r].source # 0,
               run'[r].source = row'[m].staging_table_name
        PROVE  run'[r].link = m
    <2>1. /\ run[r].source # 0 /\ run[r].source = row[m].staging_table_name => run[r].link = m
          /\ run[r].source <= lastUpload
      BY DEF SourceInv
    <2>2. CASE SameConf(r) /\ m # l
      <3>1. row'[m] = row[m]
        BY <2>2 DEF OnlyOn
      <3> QED
        BY <1>4, <2>1, <2>2, <3>1 DEF SameConf
    <2>3. CASE SameConf(r) /\ m = l
      <3>1. run[r].source # lastUpload + 1
        BY <1>1, <2>1
      <3> QED
        BY <1>4, <2>1, <2>3, <3>1 DEF SameConf
    <2>4. CASE run'[r].link = l /\ run'[r].source = row'[l].staging_table_name
      BY <1>4, <2>4 DEF UploadInv
    <2> QED
      BY <2>2, <2>3, <2>4
  <1>5. \A r, s \in Runs :
          run'[r].source # 0 /\ run'[r].source = run'[s].source => run'[r].link = run'[s].link
    BY <1>4 DEF SourceInv, SameConf
  <1>6. ASSUME NEW m \in Links \ {l}
        PROVE  SourcesKnown(m)'
    <2>1. /\ row'[m] = row[m] /\ Live(m)' = Live(m) /\ SourcesKnown(m)
          /\ \A h \in Handlers : Asks(h, m)' = Asks(h, m) /\ (Asks(h, m) => req'[h] = req[h])
      BY DEF OnlyOn, Live, SourceInv
    <2>2. \A r \in Runs : run'[r].link = m /\ run'[r].source \in staging'
             => /\ run[r].link = m /\ run[r].source = run'[r].source
                /\ run[r].source \in staging
      BY <1>1 DEF SameConf, SourceInv
    <2> QED
      BY <2>1, <2>2 DEF SourcesKnown
  <1> QED
    BY <1>2, <1>3, <1>4, <1>5, <1>6 DEF SourceInv

\* Every step keeps the sources known.
LEMMA SourcesKept ==
    ASSUME Clients = "settled", Calm, NameInv, UploadInv, SourceInv,
           WellFormed', UploadInv', NEW l \in Links, CalmStep(l)
    PROVE  SourceInv'
  <1>1. WellFormed
    BY DEF Calm
  <1>2. ASSUME NEW isFile \in BOOLEAN, submit_staging(l, isFile)
        PROVE  SourceInv'
    <2>1. lastUpload + 1 \notin staging
      BY <1>1, Parts, ConstantsAssumption DEF SourceInv, StoreInv
    <2>2. \A r \in Runs : run[r].link = l => run[r].source \notin staging
      BY <1>2, SubmitEffect DEF SourceInv, SourcesKnown
    <2>3. SourcesKnown(l)'
      BY <1>2, <2>1, <2>2, SubmitEffect DEF SourcesKnown, SameConf
    <2> QED
      BY <1>1, <1>2, <2>3, SubmitEffect, SourcesStep
  <1>3. ASSUME NEW h \in Handlers, NEW isFile \in BOOLEAN, edit_staging_commit(h, l, isFile)
        PROVE  SourceInv'
    <2>1. \A r \in Runs : run[r].link = l /\ run[r].source \in staging =>
             run[r].source = row[l].staging_table_name
      BY <1>3, EditEffect, LastSource DEF Quiet
    <2>2. SourcesKnown(l)'
      BY <1>3, <2>1, EditEffect DEF SourcesKnown
    <2> QED
      BY <1>1, <1>3, <2>2, EditEffect, SourcesStep DEF SameConf
  <1>4. ASSUME NEW h \in Handlers, l = req[h].link, edit_staging_trigger(h)
        PROVE  SourceInv'
    <2>1. /\ Live(l) /\ req[h].upload = row[l].staging_table_name
          /\ \A g \in Handlers : Asks(g, l) => g = h
      BY <1>4, EditTriggerEffect, CalmAlone DEF UploadInv, Quiet
    <2>2. \A r \in Runs : run[r].link = l /\ run[r].source \in staging' =>
             run[r].source = row[l].staging_table_name
      BY <1>4, <2>1, EditTriggerEffect DEF SourceInv, SourcesKnown
    <2>3. SourcesKnown(l)'
      BY <1>4, <2>1, <2>2, EditTriggerEffect DEF SourcesKnown, SameConf, Live
    <2> QED
      BY <1>1, <1>4, <2>1, <2>3, EditTriggerEffect, SourcesStep
  <1>5. ASSUME NEW r \in Runs, l = run[r].link, StagingCallback(r)
        PROVE  SourceInv'
    <2>1. \A s \in Runs : run[s].link = l /\ run[s].source \in staging =>
             Live(l) /\ run[s].source = row[l].staging_table_name
      BY <1>5, StagedEffect, LastSource
    <2>2. SourcesKnown(l)'
      BY <1>5, <2>1, StagedEffect DEF SourcesKnown, SameConf, Live, TakesBack
    <2> QED
      BY <1>1, <1>5, <2>2, StagedEffect, SourcesStep
  <1>6. ASSUME NEW h \in Handlers, NEW recurrence \in BOOLEAN,
               process_staging_data_prepare(h, l, recurrence)
        PROVE  SourceInv'
    <2>1. \A s \in Runs : run[s].link = l /\ run[s].source \in staging =>
             run[s].source = row[l].staging_table_name
      BY <1>6, PrepareEffect, LastSource DEF Quiet
    <2>2. SourcesKnown(l)'
      BY <1>6, <2>1, PrepareEffect DEF SourcesKnown, Live
    <2> QED
      BY <1>1, <1>6, <2>2, PrepareEffect, SourcesStep DEF SameConf
  <1>7. ASSUME NEW h \in Handlers, l = req[h].link, process_staging_data_commit(h)
        PROVE  SourceInv'
    <2>1. /\ req[h].staging_table_name = row[l].staging_table_name
          /\ row'[l].staging_table_name = row[l].staging_table_name
          /\ \A g \in Handlers : Asks(g, l) => req[g].op # "edit"
      BY <1>7, CommitEffect, CalmAlone DEF NameInv, NamesOf
    <2>2. \A s \in Runs : run[s].link = l /\ run[s].source \in staging =>
             run[s].source = row[l].staging_table_name
      BY <2>1, LastSource
    <2>3. SourcesKnown(l)'
      BY <1>7, <2>1, <2>2, CommitEffect DEF SourcesKnown, SameConf
    <2> QED
      BY <1>1, <1>7, <2>1, <2>3, CommitEffect, SourcesStep
  <1>8. ASSUME NEW h \in Handlers, NEW r \in Runs, l = run[r].link,
               process_dag_success_publish(h, r)
        PROVE  SourceInv'
    <2>1. \A s \in Runs : run[s].link = l /\ run[s].source \in staging =>
             run[s].source = row[l].staging_table_name
      BY <1>8, PublishEffect, LastSource
    <2>2. SourcesKnown(l)'
      BY <1>8, <2>1, PublishEffect DEF SourcesKnown, SameConf, Live
    <2> QED
      BY <1>1, <1>8, <2>2, PublishEffect, SourcesStep
  <1>9. ASSUME NEW h \in Handlers, l = req[h].link, process_dag_success_commit(h)
        PROVE  SourceInv'
    <2>1. /\ row'[l].staging_table_name = row[l].staging_table_name /\ Live(l)'
          /\ \A g \in Handlers : Asks(g, l) => req[g].op # "edit"
      BY <1>9, RetrievedEffect, CalmAlone DEF Live
    <2>2. \A s \in Runs : run[s].link = l /\ run[s].source \in staging =>
             run[s].source = row[l].staging_table_name
      BY <2>1, LastSource
    <2>3. SourcesKnown(l)'
      BY <1>9, <2>1, <2>2, RetrievedEffect DEF SourcesKnown
    <2> QED
      BY <1>1, <1>9, <2>1, <2>3, RetrievedEffect, SourcesStep DEF SameConf
  <1>10. ASSUME NEW r \in Runs, l = run[r].link, process_dag_failure_callback(r)
        PROVE  SourceInv'
    <2>1. \A s \in Runs : run[s].link = l /\ run[s].source \in staging =>
             Live(l) /\ run[s].source = row[l].staging_table_name
      BY <1>10, DroppedEffect, LastSource
    <2>2. SourcesKnown(l)'
      BY <1>10, <2>1, DroppedEffect DEF SourcesKnown, SameConf, Live
    <2> QED
      BY <1>1, <1>10, <2>2, DroppedEffect, SourcesStep
  <1>11. ASSUME NEW r \in Runs, l = run[r].link, RunStep(r)
        PROVE  SourceInv'
    <2>1. /\ UNCHANGED row /\ Live(l)
          /\ run[r].kind = "staging" => run[r].source = row[l].staging_table_name
      BY <1>11, TaskEffect, CalmAlone DEF UploadInv, Quiet, Works, Stages
    <2>2. staging' \subseteq staging \cup {row[l].staging_table_name}
      BY <1>11, <2>1, TaskEffect
    <2>3. \A s \in Runs : run[s].link = l /\ run[s].source \in staging =>
             run[s].source = row[l].staging_table_name
      BY <1>11, TaskEffect, LastSource
    <2>4. SourcesKnown(l)'
      BY <1>11, <2>1, <2>2, <2>3, TaskEffect DEF SourcesKnown, SameConf, Live
    <2> QED
      BY <1>1, <1>11, <2>1, <2>2, <2>4, TaskEffect, SourcesStep
  <1>12. ASSUME NEW r \in Runs, l = run[r].link, callback_lost(r)
        PROVE  SourceInv'
    <2>1. \A s \in Runs : run[s].link = l /\ run[s].source \in staging =>
             Live(l) /\ run[s].source = row[l].staging_table_name
      BY <1>12, LostEffect, LastSource
    <2>2. SourcesKnown(l)'
      BY <1>12, <2>1, LostEffect DEF SourcesKnown, SameConf, Live
    <2> QED
      BY <1>1, <1>12, <2>2, LostEffect, SourcesStep
  <1>13. ASSUME NEW h \in Handlers, delete_dataset_cancel(h, l)
        PROVE  SourceInv'
    <2>1. \A s \in Runs : run[s].link = l /\ run[s].source \in staging =>
             run[s].source = row[l].staging_table_name
      BY <1>13, DeleteEffect, LastSource DEF Quiet
    <2>2. SourcesKnown(l)'
      BY <1>13, <2>1, DeleteEffect DEF SourcesKnown, SameConf, Live
    <2> QED
      BY <1>1, <1>13, <2>2, DeleteEffect, SourcesStep
  <1>14. ASSUME NEW h \in Handlers, l = req[h].link, delete_dataset_data(h)
        PROVE  SourceInv'
    <2>1. /\ req[h].staging_table_name = row[l].staging_table_name
          /\ \A g \in Handlers : Asks(g, l) => req[g].op # "edit"
      BY <1>14, DeleteDataEffect, CalmAlone DEF NameInv, NamesOf
    <2>2. \A s \in Runs : run[s].link = l => run[s].source \notin staging'
      BY <1>14, <2>1, DeleteDataEffect, LastSource
    <2>3. SourcesKnown(l)'
      BY <1>14, <2>2, DeleteDataEffect DEF SourcesKnown
    <2> QED
      BY <1>1, <1>14, <2>3, DeleteDataEffect, SourcesStep DEF SameConf
  <1>15. ASSUME NEW h \in Handlers, l = req[h].link, delete_dataset_row(h)
        PROVE  SourceInv'
    <2>1. \A s \in Runs : run[s].link = l => run[s].source \notin staging
      BY <1>15, DeleteRowEffect DEF SourceInv, SourcesKnown
    <2>2. SourcesKnown(l)'
      BY <1>15, <2>1, DeleteRowEffect DEF SourcesKnown, SameConf
    <2> QED
      BY <1>1, <1>15, <2>2, DeleteRowEffect, SourcesStep
  <1>16. ASSUME NEW h \in Handlers, l = req[h].link, rollback_drop(h)
        PROVE  SourceInv'
    <2>1. /\ req[h].staging_table_name = row[l].staging_table_name
          /\ \A g \in Handlers : Asks(g, l) => req[g].op # "edit"
      BY <1>16, RollbackDropEffect, CalmAlone DEF NameInv, NamesOf
    <2>2. \A s \in Runs : run[s].link = l => run[s].source \notin staging'
      BY <1>16, <2>1, RollbackDropEffect, LastSource
    <2>3. SourcesKnown(l)'
      BY <1>16, <2>2, RollbackDropEffect DEF SourcesKnown
    <2> QED
      BY <1>1, <1>16, <2>3, RollbackDropEffect, SourcesStep DEF SameConf
  <1>17. ASSUME NEW h \in Handlers, l = req[h].link, rollback_commit(h)
        PROVE  SourceInv'
    <2>1. \A s \in Runs : run[s].link = l => run[s].source \notin staging
      BY <1>17, RollbackCommitEffect DEF SourceInv, SourcesKnown
    <2>2. SourcesKnown(l)'
      BY <1>17, <2>1, RollbackCommitEffect DEF SourcesKnown, SameConf
    <2> QED
      BY <1>1, <1>17, <2>2, RollbackCommitEffect, SourcesStep
  <1> QED
    BY <1>2, <1>3, <1>4, <1>5, <1>6, <1>7, <1>8, <1>9, <1>10, <1>11, <1>12, <1>13,
        <1>14, <1>15, <1>16, <1>17
    DEF CalmStep

\* The sources, once and for all.
THEOREM SourceInvAlways ==
    ASSUME Clients = "settled", Recurring = {}
    PROVE  Spec => []SourceInv
  <1>1. Init => SourceInv
    <2> SUFFICES ASSUME Init
                 PROVE  SourceInv
      OBVIOUS
    <2>1. staging = {} /\ lastUpload = 0 /\ \A r \in Runs : run[r].source = 0
      BY DEF Init, NoRun
    <2> QED
      BY <2>1 DEF SourceInv, SourcesKnown
  <1>2. Calm /\ WellFormed' /\ NameInv /\ UploadInv /\ UploadInv' /\ SourceInv /\ [Next]_vars
          => SourceInv'
    <2> SUFFICES ASSUME Calm, WellFormed', NameInv, UploadInv, UploadInv', SourceInv, [Next]_vars
                 PROVE  SourceInv'
      OBVIOUS
    <2>1. CASE UNCHANGED vars
      BY <2>1 DEF vars, SourceInv, SourcesKnown, Asks, Live
    <2> QED
      BY <2>1, CalmCases, SourcesKept
  <1> QED
    BY <1>1, <1>2, WellFormedAlways, NameInvAlways, UploadInvAlways, PTL DEF Spec

\* Among users who wait and schedule nothing, and if no callback is lost, a deleted
\* dataset leaves no table behind, final, staging or temporary, whatever was refused or
\* failed on the way (dataset_deletion_service.py, delete_dataset).
THEOREM DeletedLeavesNothingAlways ==
    ASSUME Clients = "settled", Recurring = {}, "callback" \notin Faults
    PROVE  Spec => []DeletedLeavesNothing
  <1>1. Calm /\ TableInv /\ SourceInv /\ NoTemp => DeletedLeavesNothing
    <2> SUFFICES ASSUME Calm, TableInv, SourceInv, NoTemp, NEW l \in Links, Deleted(l)
                 PROVE  NothingLeft(l)
      BY DEF DeletedLeavesNothing
    <2>1. ~Live(l)
      BY DEF Deleted, Live
    <2>2. TablesOf(l) = {}
      BY <2>1 DEF TableInv, TablesKnown
    <2>3. \A r \in Runs : run[r].link = l => run[r].source \notin staging
      BY <2>1 DEF SourceInv, SourcesKnown
    <2> QED
      BY <2>2, <2>3 DEF NothingLeft, NoTemp
  <1> QED
    BY <1>1, NameInvAlways, TableInvAlways, SourceInvAlways, NoTempAlways, PTL
=============================================================================
