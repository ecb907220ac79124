--------------------------- MODULE AirflowRunsProofs ---------------------------
(***************************************************************************)
(* The calls of the backend stop and purge no run but those they are       *)
(* about, for every size of page and number of runs.                       *)
(***************************************************************************)
EXTENDS AirflowRuns, SequenceTheorems, FiniteSetTheorems, WellFoundedInduction, TLAPS

\* What the removal of a schedule is made of.
RemovalStops == {force_fail(ingestion_dag, {}), force_fail(process_dag, {"manual"})}
RemovalSteps == RemovalStops \cup {delete_dag(TRUE), delete_dag(FALSE)}

\* A call, without the bounds.
OpenCall ==
    [op : OperationKinds \cup {"none"}, loops : Seq(Loop), page : SUBSET Nat,
     progressed : BOOLEAN, since : Nat, failed : BOOLEAN, raised : BOOLEAN]

\* The runs of a page are of the dataset, and during the removal of a schedule of the
\* DAG that is searched; nothing follows an exception.
SparedInv ==
    /\ lastRun \in Nat
    /\ run \in [1..lastRun -> [kind : Kinds, state : States, parent : Nat]]
    /\ call.page \subseteq OfDataset
    /\ call \in OpenCall
    /\ Loops # <<>> => ~call.raised
    /\ call.op = "remove_ingestion_dag" =>
          /\ Loops \in Seq(RemovalSteps)
          /\ call.page # {} =>
                /\ Loops # <<>> /\ Head(Loops) \in RemovalStops
                /\ \A r \in call.page : run[r].kind \in Head(Loops).dag

\* The steps of a removal are calls of the loop.
LEMMA RemovalStepsAreLoops == RemovalSteps \subseteq Loop
  BY DEF RemovalSteps, RemovalStops, Loop, force_fail, delete_dag, Kinds

\* One member or two make a sequence.
LEMMA PairIsSeq ==
    ASSUME NEW S, NEW a \in S, NEW b \in S
    PROVE  <<a>> \in Seq(S) /\ <<a, b>> \in Seq(S)
  OBVIOUS

\* A function on 1..n is a sequence of n members.
LEMMA FunctionIsSeq ==
    ASSUME NEW S, NEW n \in Nat, NEW s \in [1..n -> S]
    PROVE  s \in Seq(S) /\ Len(s) = n
  <1>1. s \in Seq(S)
    BY SeqDef
  <1>2. Len(s) \in Nat /\ DOMAIN s = 1..Len(s) /\ DOMAIN s = 1..n
    BY <1>1, LenProperties
  <1> QED
    BY <1>1, <1>2

\* The loops of each call.
LEMMA LoopsOfCalls ==
    ASSUME NEW op \in OperationKinds
    PROVE  /\ loops_of(op) \in Seq(Loop)
           /\ op = "remove_ingestion_dag" => loops_of(op) \in Seq(RemovalSteps)
  <1>1. CASE op = "cancel_dataset_runs"
    <2>1. loops_of(op) = cancel_runs({}) \o <<force_fail(staging_dag, {})>>
      BY <1>1, Zenon DEF loops_of
    <2>2. /\ force_fail(ingestion_dag, {}) \in Loop /\ force_fail(process_dag, {}) \in Loop
          /\ force_fail(staging_dag, {}) \in Loop
      BY DEF Loop, force_fail
    <2>3. cancel_runs({}) \in Seq(Loop) /\ <<force_fail(staging_dag, {})>> \in Seq(Loop)
      BY <2>2 DEF cancel_runs
    <2> QED
      BY <1>1, <2>1, <2>3, ConcatProperties
  <1>2. CASE op = "remove_ingestion_dag"
    <2>1. loops_of(op) = cancel_runs({"manual"}) \o <<delete_dag(FALSE)>>
      BY <1>2, Zenon DEF loops_of
    <2>2. /\ force_fail(ingestion_dag, {}) \in RemovalSteps
          /\ force_fail(process_dag, {"manual"}) \in RemovalSteps
          /\ delete_dag(FALSE) \in RemovalSteps
      BY DEF RemovalSteps, RemovalStops
    <2>3. cancel_runs({"manual"}) \in Seq(RemovalSteps)
      BY <2>2, PairIsSeq, Zenon DEF cancel_runs
    <2>4. <<delete_dag(FALSE)>> \in Seq(RemovalSteps)
      BY <2>2, PairIsSeq, Zenon
    <2>5. loops_of(op) \in Seq(RemovalSteps)
      BY <2>1, <2>3, <2>4, ConcatProperties
    <2> QED
      BY <2>5, RemovalStepsAreLoops
  <1>3. CASE op = "purge_dataset_dag_runs"
    <2>1. loops_of(op) = <<delete(staging_dag), delete(process_dag)>>
      BY <1>3, Zenon DEF loops_of
    <2>2. delete(staging_dag) \in Loop /\ delete(process_dag) \in Loop
      BY DEF Loop, delete
    <2>3. <<delete(staging_dag), delete(process_dag)>> \in Seq(Loop)
      BY <2>2
    <2> QED
      BY <1>3, <2>1, <2>3
  <1> QED
    BY <1>1, <1>2, <1>3 DEF OperationKinds

\* A call that leaves runs of its page, its page or its loop behind.
LEMMA GoesOnSpared ==
    ASSUME SparedInv, call' \in OpenCall, call'.op = call.op,
           call'.loops # <<>> => ~call'.raised,
           \/ call'.loops = Loops /\ call'.page \subseteq call.page
           \/ Loops # <<>> /\ call'.loops = Tail(Loops) /\ call'.page = {}
           \/ call'.loops = <<>> /\ call'.page = {},
           run' \in [1..lastRun -> [kind : Kinds, state : States, parent : Nat]],
           \A r \in 1..lastRun : run'[r].kind = run[r].kind, UNCHANGED lastRun
    PROVE  SparedInv'
  <1>1. OfDataset' = OfDataset
    BY DEF OfDataset, SparedInv
  <1>2. CASE call'.loops = Loops /\ call'.page \subseteq call.page
    <2>1. \A r \in call'.page : run'[r].kind = run[r].kind
      BY <1>2 DEF SparedInv, OfDataset
    <2> QED
      BY <1>1, <1>2, <2>1 DEF SparedInv, Loops
  <1>3. CASE Loops # <<>> /\ call'.loops = Tail(Loops) /\ call'.page = {}
    <2>1. call.op = "remove_ingestion_dag" => Tail(Loops) \in Seq(RemovalSteps)
      BY <1>3, HeadTailProperties DEF SparedInv
    <2> QED
      BY <1>1, <1>3, <2>1 DEF SparedInv, Loops
  <1>4. CASE call'.loops = <<>> /\ call'.page = {}
    <2>1. <<>> \in Seq(RemovalSteps)
      OBVIOUS
    <2> QED
      BY <1>1, <1>4, <2>1 DEF SparedInv, Loops
  <1> QED
    BY <1>2, <1>3, <1>4

\* The next loop of a call.
LEMMA NextLoopOpen ==
    ASSUME NEW c \in OpenCall, c.loops # <<>>
    PROVE  /\ NextLoop(c) \in OpenCall /\ NextLoop(c).op = c.op
           /\ NextLoop(c).loops = Tail(c.loops) /\ NextLoop(c).page = {}
           /\ NextLoop(c).failed = c.failed /\ NextLoop(c).raised = c.raised
  <1>1. Tail(c.loops) \in Seq(Loop)
    BY HeadTailProperties DEF OpenCall
  <1> QED
    BY <1>1 DEF NextLoop, OpenCall

\* What a run was is kept, and so are the runs of the dataset.
LEMMA KindsKept ==
    ASSUME SparedInv, run' \in [1..lastRun' -> [kind : Kinds, state : States, parent : Nat]],
           lastRun' \in Nat, lastRun <= lastRun',
           \A r \in 1..lastRun : run'[r].kind = run[r].kind, UNCHANGED call
    PROVE  SparedInv'
  <1>1. OfDataset \subseteq OfDataset'
    BY DEF OfDataset, SparedInv
  <1>2. \A r \in call.page : run'[r].kind = run[r].kind
    BY DEF OfDataset, SparedInv
  <1> QED
    BY <1>1, <1>2 DEF SparedInv, Loops

\* Airflow starts a run.
LEMMA StartAppends ==
    ASSUME SparedInv, NEW kind \in Kinds, NEW parent \in Nat, Start(kind, parent)
    PROVE  /\ lastRun \in Nat /\ lastRun' = lastRun + 1 /\ UNCHANGED call
           /\ run' \in [1..lastRun + 1 -> [kind : Kinds, state : States, parent : Nat]]
           /\ \A r \in 1..lastRun : run'[r] = run[r]
           /\ run'[lastRun + 1] = [kind |-> kind, state |-> "active", parent |-> parent]
  <1> DEFINE R   == [kind : Kinds, state : States, parent : Nat]
             new == [kind |-> kind, state |-> "active", parent |-> parent]
  <1>1. lastRun \in Nat /\ run \in [1..lastRun -> R] /\ new \in R
    BY DEF SparedInv, States
  <1>2. run' = Append(run, new) /\ lastRun' = lastRun + 1 /\ UNCHANGED call
    BY DEF Start
  <1> HIDE DEF R, new
  <1>3. run \in Seq(R) /\ Len(run) = lastRun
    BY <1>1, FunctionIsSeq
  <1>4. /\ run' \in Seq(R) /\ Len(run') = lastRun + 1 /\ run'[lastRun + 1] = new
        /\ \A r \in 1..lastRun : run'[r] = run[r]
    BY <1>1, <1>2, <1>3, AppendProperties
  <1>5. run' \in [1..lastRun + 1 -> R]
    BY <1>4, LenProperties
  <1> QED
    BY <1>1, <1>2, <1>4, <1>5 DEF R, new

\* A run that starts leaves the page of the call as it is.
LEMMA StartSpared ==
    ASSUME SparedInv, NEW kind \in Kinds, NEW parent \in Nat, Start(kind, parent)
    PROVE  SparedInv'
  <1>1. /\ lastRun \in Nat /\ lastRun' = lastRun + 1 /\ UNCHANGED call
        /\ run' \in [1..lastRun + 1 -> [kind : Kinds, state : States, parent : Nat]]
        /\ \A r \in 1..lastRun : run'[r].kind = run[r].kind
    BY StartAppends
  <1> QED
    BY <1>1, KindsKept

\* A call begins; a page is fetched.
LEMMA BeginSpared ==
    ASSUME SparedInv, NEW op, begin(op)
    PROVE  SparedInv'
  <1>1. op \in OperationKinds
    BY AirflowAssumption DEF begin
  <1>2. call' = [op |-> op, loops |-> loops_of(op), page |-> {}, progressed |-> FALSE,
                 since |-> lastRun, failed |-> FALSE, raised |-> FALSE]
    BY DEF begin, NoCall
  <1>3. /\ call' \in OpenCall /\ call'.op = op /\ call'.page = {}
        /\ call'.loops = loops_of(op) /\ ~call'.raised
    BY <1>1, <1>2, LoopsOfCalls DEF OpenCall, SparedInv
  <1>4. UNCHANGED <<run, lastRun>>
    BY DEF begin
  <1> QED
    BY <1>1, <1>3, <1>4, LoopsOfCalls DEF SparedInv, Loops

\* A page holds runs of the dataset and DAG that are searched.
LEMMA QuerySpared ==
    ASSUME SparedInv, query
    PROVE  SparedInv'
  <1>1. UNCHANGED <<run, lastRun>> /\ Loops # <<>> /\ Head(Loops).action # "delete_dag"
    BY DEF query
  <1>2. CASE Matching(Head(Loops)) = {}
    <2>1. call' = NextLoop(call)
      BY <1>2 DEF query
    <2>2. /\ call' \in OpenCall /\ call'.op = call.op /\ ~call'.raised
          /\ call'.loops = Tail(Loops) /\ call'.page = {}
      BY <1>1, <2>1, NextLoopOpen DEF SparedInv, Loops
    <2> QED
      BY <1>1, <2>2, GoesOnSpared DEF SparedInv
  <1>3. CASE Matching(Head(Loops)) # {}
    <2> DEFINE page == First(Matching(Head(Loops)))
    <2>1. call' = [call EXCEPT !.page = page, !.progressed = FALSE]
      BY <1>3 DEF query
    <2>2. /\ page \subseteq OfDataset
          /\ \A r \in page : run[r].kind \in Head(Loops).dag
      BY DEF First, Matching
    <2>3. page \in SUBSET Nat
      BY <2>2 DEF OfDataset, SparedInv
    <2> HIDE DEF page
    <2>4. call.op = "remove_ingestion_dag" => Head(Loops) \in RemovalStops
      <3>1. call.op = "remove_ingestion_dag" => Head(Loops) \in RemovalSteps
        BY <1>1, HeadTailProperties DEF SparedInv
      <3> QED
        BY <1>1, <3>1 DEF RemovalSteps, delete_dag
    <2>5. /\ call'.page = page /\ call'.op = call.op /\ call'.loops = call.loops
          /\ call' \in OpenCall /\ call'.raised = call.raised
      BY <2>1, <2>3 DEF SparedInv, OpenCall
    <2>6. OfDataset' = OfDataset
      BY <1>1 DEF OfDataset
    <2> QED
      BY <1>1, <2>2, <2>4, <2>5, <2>6 DEF SparedInv, Loops
  <1> QED
    BY <1>2, <1>3

\* A run of the page is changed or not.
LEMMA DoneOpen ==
    ASSUME SparedInv, Loops # <<>>, NEW r, NEW b \in BOOLEAN
    PROVE  /\ Done(r, b) \in OpenCall /\ Done(r, b).op = call.op
           /\ Done(r, b).raised = call.raised
           /\ \/ Done(r, b).loops = Loops /\ Done(r, b).page \subseteq call.page
              \/ Done(r, b).loops = Tail(Loops) /\ Done(r, b).page = {}
  <1> DEFINE c == [call EXCEPT !.progressed = @ \/ b]
  <1>1. /\ c \in OpenCall /\ c.op = call.op /\ c.loops = Loops /\ c.page = call.page
        /\ [c EXCEPT !.page = @ \ {r}] \in OpenCall /\ [c EXCEPT !.page = {}] \in OpenCall
    BY DEF SparedInv, OpenCall, Loops
  <1>2. /\ c.raised = call.raised /\ [c EXCEPT !.page = @ \ {r}].raised = call.raised
        /\ [c EXCEPT !.page = {}].raised = call.raised
    BY DEF SparedInv, OpenCall
  <1>3. Done(r, b) \in {[c EXCEPT !.page = @ \ {r}], NextLoop(c), [c EXCEPT !.page = {}]}
    BY DEF Done
  <1> HIDE DEF c
  <1>4. CASE Done(r, b) = [c EXCEPT !.page = @ \ {r}]
    BY <1>1, <1>4, <1>2 DEF OpenCall
  <1>5. CASE Done(r, b) = NextLoop(c)
    BY <1>1, <1>5, <1>2, NextLoopOpen
  <1>6. CASE Done(r, b) = [c EXCEPT !.page = {}]
    BY <1>1, <1>6, <1>2 DEF OpenCall
  <1> QED
    BY <1>3, <1>4, <1>5, <1>6

\* What a call does to a run changes neither its kind nor the rest of the page.
LEMMA ActSpared ==
    ASSUME SparedInv, NEW r, act(r)
    PROVE  SparedInv'
  <1>1. Loops # <<>> /\ r \in call.page /\ UNCHANGED lastRun
    BY DEF act
  <1>2. r \in 1..lastRun
    BY <1>1 DEF SparedInv, OfDataset
  <1>3. \/ UNCHANGED run
        \/ \E state \in States : run' = [run EXCEPT ![r].state = state]
    BY DEF act, States
  <1>4. /\ run' \in [1..lastRun -> [kind : Kinds, state : States, parent : Nat]]
        /\ \A s \in 1..lastRun : run'[s].kind = run[s].kind
    BY <1>2, <1>3 DEF SparedInv
  <1>5. \/ call' = Done(r, TRUE)
        \/ \E failed \in BOOLEAN : call' = [Done(r, FALSE) EXCEPT !.failed = failed]
    <2>1. Done(r, FALSE).failed \in BOOLEAN
      BY <1>1, DoneOpen DEF OpenCall
    <2> QED
      BY <2>1 DEF act
  <1>6. /\ call' \in OpenCall /\ call'.op = call.op /\ call'.raised = call.raised
        /\ \/ call'.loops = Loops /\ call'.page \subseteq call.page
           \/ call'.loops = Tail(Loops) /\ call'.page = {}
    <2>1. CASE call' = Done(r, TRUE)
      BY <1>1, <2>1, DoneOpen
    <2>2. ASSUME NEW failed \in BOOLEAN, call' = [Done(r, FALSE) EXCEPT !.failed = failed]
          PROVE  /\ call' \in OpenCall /\ call'.op = call.op /\ call'.raised = call.raised
                 /\ \/ call'.loops = Loops /\ call'.page \subseteq call.page
                    \/ call'.loops = Tail(Loops) /\ call'.page = {}
      BY <1>1, <2>2, DoneOpen DEF OpenCall
    <2> QED
      BY <1>5, <2>1, <2>2
  <1> QED
    BY <1>1, <1>4, <1>6, GoesOnSpared DEF SparedInv

\* The removal of the DAG has no page to work on.
LEMMA DeleteDagSpared ==
    ASSUME SparedInv, delete_ingestion_dag
    PROVE  SparedInv'
  <1>1. Loops # <<>> /\ UNCHANGED lastRun
    BY DEF delete_ingestion_dag
  <1>2. /\ run' \in [1..lastRun -> [kind : Kinds, state : States, parent : Nat]]
        /\ \A r \in 1..lastRun : run'[r].kind = run[r].kind
    BY DEF delete_ingestion_dag, SparedInv, States
  <1>3. CASE call' = NextLoop(call)
    <2>1. /\ call' \in OpenCall /\ call'.op = call.op /\ call'.raised = call.raised
          /\ call'.loops = Tail(Loops) /\ call'.page = {}
      BY <1>1, <1>3, NextLoopOpen DEF SparedInv, Loops
    <2> QED
      BY <1>1, <1>2, <2>1, GoesOnSpared DEF SparedInv
  <1>4. CASE \E loops \in {<<>>, <<force_fail(ingestion_dag, {}), delete_dag(TRUE)>>} :
                call' = [call EXCEPT !.loops = loops]
    <2>1. /\ force_fail(ingestion_dag, {}) \in RemovalSteps
          /\ delete_dag(TRUE) \in RemovalSteps
      BY DEF RemovalSteps, RemovalStops
    <2>2. /\ <<>> \in Seq(RemovalSteps)
          /\ <<force_fail(ingestion_dag, {}), delete_dag(TRUE)>> \in Seq(RemovalSteps)
      BY <2>1, PairIsSeq, EmptySeq, Zenon
    <2>3. PICK loops \in Seq(RemovalSteps) : call' = [call EXCEPT !.loops = loops]
      BY <1>4, <2>2
    <2>4. loops \in Seq(Loop)
      BY RemovalStepsAreLoops, SeqMonotonic
    <2>5. /\ call' \in OpenCall /\ call'.op = call.op /\ call'.raised = call.raised
          /\ call'.loops = loops /\ call'.page = call.page
      BY <2>3, <2>4 DEF SparedInv, OpenCall
    <2>6. call.op = "remove_ingestion_dag" => call.page = {}
      BY DEF SparedInv, delete_ingestion_dag, RemovalStops, force_fail
    <2>7. OfDataset' = OfDataset
      BY <1>1, <1>2 DEF OfDataset
    <2> QED
      BY <1>1, <1>2, <2>5, <2>6, <2>7 DEF SparedInv, Loops
  <1> QED
    BY <1>3, <1>4 DEF delete_ingestion_dag

\* Each step keeps SparedInv.
LEMMA SparedStep ==
    ASSUME SparedInv, [Next]_vars
    PROVE  SparedInv'
  <1>1. CASE UNCHANGED vars
    BY <1>1 DEF vars, SparedInv, OfDataset, Loops
  <1>2. ASSUME NEW kind \in Kinds \ {"scheduled"}, trigger(kind)
        PROVE  SparedInv'
    BY <1>2, StartSpared DEF trigger
  <1>3. ASSUME NEW r \in 1..lastRun, trigger_process_dag(r)
        PROVE  SparedInv'
    <2>1. "scheduled" \in Kinds /\ r \in Nat
      BY DEF Kinds, SparedInv
    <2> QED
      BY <1>3, <2>1, StartSpared DEF trigger_process_dag
  <1>4. ASSUME NEW r \in 1..lastRun, end(r)
        PROVE  SparedInv'
    <2>1. /\ run' \in [1..lastRun -> [kind : Kinds, state : States, parent : Nat]]
          /\ \A s \in 1..lastRun : run'[s].kind = run[s].kind
      BY <1>4 DEF end, SparedInv, States
    <2> QED
      BY <1>4, <2>1, KindsKept DEF end, SparedInv
  <1>5. ASSUME NEW op \in Operations, begin(op)
        PROVE  SparedInv'
    BY <1>5, BeginSpared
  <1>6. CASE Backend
    <2>1. CASE finish
      <3>1. call' = NoCall /\ UNCHANGED <<run, lastRun>>
        BY <2>1 DEF finish
      <3>2. /\ call' \in OpenCall /\ call'.op = "none" /\ call'.page = {}
            /\ ~call'.raised
        BY <3>1, EmptySeq DEF NoCall, OpenCall
      <3> QED
        BY <3>1, <3>2 DEF SparedInv
    <2>2. CASE raise
      <3>1. /\ call' = [NoCall EXCEPT !.op = call.op, !.raised = TRUE]
            /\ UNCHANGED <<run, lastRun>>
        BY <2>2 DEF raise
      <3>2. /\ call' \in OpenCall /\ call'.op = call.op /\ call'.loops = <<>>
            /\ call'.page = {}
        BY <3>1, EmptySeq DEF SparedInv, OpenCall, NoCall
      <3> QED
        BY <3>1, <3>2, GoesOnSpared DEF SparedInv
    <2> QED
      BY <1>6, <2>1, <2>2, QuerySpared, ActSpared, DeleteDagSpared DEF Backend
  <1> QED
    BY <1>1, <1>2, <1>3, <1>4, <1>5, <1>6 DEF Next

\* SparedInv holds at first.
LEMMA SparedInit == Init => SparedInv
  <1> SUFFICES ASSUME Init PROVE SparedInv
    OBVIOUS
  <1>1. run \in [1..0 -> [kind : Kinds, state : States, parent : Nat]]
    BY DEF Init
  <1>2. call \in OpenCall /\ call.op = "none" /\ call.page = {} /\ ~call.raised
    BY EmptySeq DEF Init, NoCall, OpenCall
  <1> QED
    BY <1>1, <1>2 DEF Init, SparedInv

\* A step that changes a run from within a call is about a run of the page.
LEMMA ActsOnPage ==
    ASSUME SparedInv, NEW s, act(s), NEW r \in 1..lastRun, run'[r].state # run[r].state
    PROVE  /\ run[r].kind # "other"
           /\ call.op = "remove_ingestion_dag" => run[r].kind \in {"ingestion", "scheduled"}
  <1>1. run[s].kind \notin Head(Loops).spared /\ s \in call.page /\ r = s
    BY DEF act, SparedInv, OfDataset
  <1>2. run[r].kind # "other"
    BY <1>1 DEF SparedInv, OfDataset
  <1>3. ASSUME call.op = "remove_ingestion_dag"
        PROVE  run[r].kind \in {"ingestion", "scheduled"}
    <2>1. Head(Loops) \in RemovalStops /\ run[r].kind \in Head(Loops).dag
      BY <1>1, <1>3 DEF SparedInv
    <2> QED
      BY <1>1, <1>2, <2>1 DEF RemovalStops, force_fail, process_dag, ingestion_dag
  <1> QED
    BY <1>2, <1>3

\* A call changes no run of another dataset, and the removal of a schedule no manual and
\* no staging run of its own, however pages, ends of runs and new runs alternate
\* (services/airflow_client.py, cancel_scheduled_runs).
THEOREM OthersSparedAlways == Spec => OthersSpared
  <1>1. Init => SparedInv
    BY SparedInit
  <1>2. SparedInv /\ [Next]_vars => SparedInv'
    BY SparedStep
  <1>3. SparedInv /\ [Next]_vars =>
            [\A r \in 1..lastRun :
                run'[r].state # run[r].state /\ (\E s \in Runs : act(s)) =>
                    /\ run[r].kind # "other"
                    /\ call.op = "remove_ingestion_dag" =>
                          run[r].kind \in {"ingestion", "scheduled"}]_vars
    BY ActsOnPage
  <1> QED
    BY <1>1, <1>2, <1>3, PTL DEF Spec, OthersSpared

-----------------------------------------------------------------------------

\* The three loops of cancel_dataset_runs: what is left of them.
ingestion_loop == force_fail(ingestion_dag, {})
process_loop   == force_fail(process_dag, {})
staging_loop   == force_fail(staging_dag, {})
AllLoops  == <<ingestion_loop, process_loop, staging_loop>>
TwoLoops  == <<process_loop, staging_loop>>
LastLoop  == <<staging_loop>>

\* A pair followed by one more.
LEMMA Triple ==
    ASSUME NEW a, NEW b, NEW c
    PROVE  <<a, b>> \o <<c>> = <<a, b, c>>
  <1> DEFINE S == {a, b, c}
             s == <<a, b>> \o <<c>>
  <1>1. /\ <<a, b>> \in Seq(S) /\ <<c>> \in Seq(S) /\ <<a, b, c>> \in Seq(S)
        /\ Len(<<a, b>>) = 2 /\ Len(<<c>>) = 1 /\ Len(<<a, b, c>>) = 3
    OBVIOUS
  <1>2. /\ s \in Seq(S) /\ Len(s) = 3
        /\ \A i \in 1..3 : s[i] = IF i <= 2 THEN <<a, b>>[i] ELSE <<c>>[i - 2]
    BY <1>1, ConcatProperties
  <1>3. s[1] = a /\ s[2] = b /\ s[3] = c
    BY <1>2
  <1>4. \A i \in 1..3 : s[i] = <<a, b, c>>[i]
    BY <1>3
  <1> HIDE DEF s, S
  <1>5. s = <<a, b, c>>
    BY <1>1, <1>2, <1>4
  <1> QED
    BY <1>5 DEF s

\* Sequences of three, two and one.
LEMMA ShortSeqs ==
    ASSUME NEW a, NEW b, NEW c
    PROVE  /\ <<a, b>> \o <<c>> = <<a, b, c>>
           /\ Tail(<<a, b, c>>) = <<b, c>> /\ Tail(<<b, c>>) = <<c>> /\ Tail(<<c>>) = <<>>
           /\ Head(<<a, b, c>>) = a /\ Head(<<b, c>>) = b /\ Head(<<c>>) = c
           /\ <<a, b, c>> # <<>> /\ <<b, c>> # <<>> /\ <<c>> # <<>>
           /\ <<a, b, c>> # <<b, c>> /\ <<a, b, c>> # <<c>> /\ <<b, c>> # <<c>>
  <1>1. <<a, b>> \o <<c>> = <<a, b, c>>
    BY Triple
  <1>2. Tail(<<a, b, c>>) = <<b, c>>
    OBVIOUS
  <1>3. Tail(<<b, c>>) = <<c>>
    OBVIOUS
  <1>4. Tail(<<c>>) = <<>>
    OBVIOUS
  <1>5. Head(<<a, b, c>>) = a /\ Head(<<b, c>>) = b /\ Head(<<c>>) = c
    OBVIOUS
  <1>6. Len(<<a, b, c>>) = 3 /\ Len(<<b, c>>) = 2 /\ Len(<<c>>) = 1 /\ Len(<<>>) = 0
    OBVIOUS
  <1>7. /\ <<a, b, c>> # <<>> /\ <<b, c>> # <<>> /\ <<c>> # <<>>
        /\ <<a, b, c>> # <<b, c>> /\ <<a, b, c>> # <<c>> /\ <<b, c>> # <<c>>
    BY <1>6
  <1> QED
    BY <1>1, <1>2, <1>3, <1>4, <1>5, <1>7

\* The runs a cancellation is about, and those of a DAG that are over.
Concerned   == {r \in OfDataset : r <= call.since \/ run[r].parent \in 1..call.since}
OverIn(dag) == \A r \in Concerned : run[r].kind \in dag => ~Active(r)

\* What a run of process_dag is triggered by.
ParentInv ==
    \A r \in 1..lastRun :
        run[r].parent \in 0..lastRun /\ (run[r].parent # 0 => run[r].kind = "scheduled")

\* The DAGs that cancel_dataset_runs has left behind have nothing active that it is about:
\* the parents first, so that nothing is triggered in the DAG searched next.
CancelInv ==
    /\ ParentInv
    /\ call.since <= lastRun
    /\ call.op = "cancel_dataset_runs" /\ ~call.raised =>
          /\ Loops \in {AllLoops, TwoLoops, LastLoop, <<>>}
          /\ Loops # AllLoops => OverIn(ingestion_dag)
          /\ Loops \in {LastLoop, <<>>} => OverIn(process_dag)
          /\ Loops = <<>> => OverIn(staging_dag)

\* Runs that keep what they are and are not made active.
NoneActivated ==
    \A r \in 1..lastRun : /\ run'[r].kind = run[r].kind
                          /\ run'[r].parent = run[r].parent
                          /\ run'[r].state = "active" => run[r].state = "active"

\* Ends, cancellations and deletions make no run active.
LEMMA EndsKeepOver ==
    ASSUME SparedInv, UNCHANGED lastRun, call'.since = call.since, NEW dag, OverIn(dag),
           NoneActivated
    PROVE  OverIn(dag)'
  <1>1. OfDataset' = OfDataset /\ OfDataset \subseteq 1..lastRun
    BY DEF OfDataset, NoneActivated
  <1>2. Concerned' = Concerned
    BY <1>1 DEF Concerned, NoneActivated
  <1>3. \A r \in Concerned :
            run'[r].kind = run[r].kind /\ (run'[r].state = "active" => run[r].state = "active")
    BY <1>1 DEF NoneActivated, Concerned
  <1> QED
    BY <1>2, <1>3 DEF OverIn, Active

\* A run that starts is none that the cancellation is about, once the runs of the
\* schedule are over.
LEMMA StartKeepsOver ==
    ASSUME SparedInv, CancelInv, NEW kind \in Kinds, NEW parent \in 0..lastRun,
           parent # 0 => Active(parent) /\ run[parent].kind = "ingestion",
           Start(kind, parent), OverIn(ingestion_dag), NEW dag, OverIn(dag)
    PROVE  OverIn(dag)'
  <1>1. /\ \A r \in 1..lastRun : run'[r] = run[r]
        /\ run'[lastRun + 1] = [kind |-> kind, state |-> "active", parent |-> parent]
        /\ lastRun' = lastRun + 1 /\ lastRun \in Nat /\ UNCHANGED call
    BY StartAppends DEF SparedInv
  <1>2. parent \notin 1..call.since
    BY DEF OverIn, Concerned, OfDataset, ingestion_dag, CancelInv
  <1>3. lastRun + 1 \notin Concerned'
    BY <1>1, <1>2 DEF Concerned, CancelInv, SparedInv, OpenCall
  <1>4. Concerned' \subseteq Concerned
    BY <1>1, <1>3 DEF Concerned, OfDataset
  <1> QED
    BY <1>1, <1>4 DEF OverIn, Active, Concerned, OfDataset

\* The same as a step of CancelInv.
LEMMA StartCancel ==
    ASSUME SparedInv, CancelInv, NEW kind \in Kinds, NEW parent \in 0..lastRun,
           parent # 0 => /\ Active(parent) /\ run[parent].kind = "ingestion"
                         /\ kind = "scheduled",
           Start(kind, parent)
    PROVE  CancelInv'
  <1>1. UNCHANGED call /\ lastRun' = lastRun + 1 /\ lastRun \in Nat /\ call.since \in Nat
    BY DEF Start, SparedInv, OpenCall
  <1>2. ParentInv'
    <2>1. /\ \A r \in 1..lastRun : run'[r] = run[r]
          /\ run'[lastRun + 1] = [kind |-> kind, state |-> "active", parent |-> parent]
      BY <1>1, StartAppends
    <2>2. ASSUME NEW r \in 1..lastRun'
          PROVE  /\ run'[r].parent \in 0..lastRun'
                 /\ run'[r].parent # 0 => run'[r].kind = "scheduled"
      <3>1. CASE r = lastRun + 1
        BY <1>1, <2>1, <3>1
      <3>2. CASE r \in 1..lastRun
        BY <1>1, <2>1, <3>2 DEF ParentInv, CancelInv
      <3> QED
        BY <1>1, <3>1, <3>2
    <2> QED
      BY <2>2 DEF ParentInv
  <1>3. ASSUME NEW dag, OverIn(ingestion_dag), OverIn(dag)
        PROVE  OverIn(dag)'
    BY <1>3, StartKeepsOver
  <1>4. AllLoops # TwoLoops /\ AllLoops # LastLoop /\ AllLoops # <<>>
    BY ShortSeqs DEF AllLoops, TwoLoops, LastLoop
  <1>5. call'.since <= lastRun'
    BY <1>1 DEF CancelInv
  <1> QED
    BY <1>1, <1>2, <1>3, <1>4, <1>5 DEF CancelInv, Loops

\* A step that starts no run and goes on in the same loop.
LEMMA SameLoopCancel ==
    ASSUME SparedInv, CancelInv, UNCHANGED lastRun, call'.since = call.since,
           call'.op = call.op, call'.raised = call.raised,
           call.op = "cancel_dataset_runs" => call'.loops = call.loops,
           NoneActivated
    PROVE  CancelInv'
  <1>1. ASSUME NEW dag, OverIn(dag)
        PROVE  OverIn(dag)'
    BY <1>1, EndsKeepOver
  <1>2. ParentInv'
    BY DEF ParentInv, CancelInv, NoneActivated
  <1> QED
    BY <1>1, <1>2 DEF CancelInv, Loops

\* The loop in progress of a cancellation.
LEMMA CancelLoop ==
    ASSUME SparedInv, CancelInv, call.op = "cancel_dataset_runs", Loops # <<>>
    PROVE  /\ Head(Loops).action = "force_fail" /\ Head(Loops).spared = {}
           /\ Loops = AllLoops => Head(Loops).dag = ingestion_dag /\ Tail(Loops) = TwoLoops
           /\ Loops = TwoLoops => Head(Loops).dag = process_dag /\ Tail(Loops) = LastLoop
           /\ Loops = LastLoop => Head(Loops).dag = staging_dag /\ Tail(Loops) = <<>>
           /\ Loops \in {AllLoops, TwoLoops, LastLoop}
  <1>1. Loops \in {AllLoops, TwoLoops, LastLoop}
    BY DEF CancelInv, SparedInv
  <1>2. /\ AllLoops # TwoLoops /\ AllLoops # LastLoop /\ TwoLoops # LastLoop
        /\ Head(AllLoops) = ingestion_loop /\ Tail(AllLoops) = TwoLoops
        /\ Head(TwoLoops) = process_loop /\ Tail(TwoLoops) = LastLoop
        /\ Head(LastLoop) = staging_loop /\ Tail(LastLoop) = <<>>
    BY ShortSeqs DEF AllLoops, TwoLoops, LastLoop
  <1> QED
    BY <1>1, <1>2 DEF ingestion_loop, process_loop, staging_loop, force_fail

\* A loop ends when a query brings no active run of its DAG.
LEMMA QueryCancel ==
    ASSUME SparedInv, CancelInv, query
    PROVE  CancelInv'
  <1>1. /\ UNCHANGED <<run, lastRun>> /\ Loops # <<>> /\ call \in OpenCall
        /\ Head(Loops).action # "delete_dag" /\ ~call.raised
    BY DEF query, SparedInv
  <1>2. CASE Matching(Head(Loops)) # {} \/ call.op # "cancel_dataset_runs"
    <2>1. /\ call'.since = call.since /\ call'.op = call.op /\ call'.raised = call.raised
          /\ call.op = "cancel_dataset_runs" => call'.loops = call.loops
      BY <1>1, <1>2 DEF query, NextLoop, OpenCall
    <2> QED
      BY <1>1, <2>1, SameLoopCancel DEF NoneActivated
  <1>3. CASE Matching(Head(Loops)) = {} /\ call.op = "cancel_dataset_runs"
    <2>1. /\ call'.since = call.since /\ call'.op = call.op /\ call'.loops = Tail(Loops)
      BY <1>1, <1>3 DEF query, NextLoop, OpenCall, Loops
    <2>2. OverIn(Head(Loops).dag)
      BY <1>1, <1>3, CancelLoop DEF OverIn, Concerned, Matching, Existing, Active, OfDataset
    <2>3. ASSUME NEW dag, OverIn(dag)
          PROVE  OverIn(dag)'
      BY <1>1, <2>1, <2>3 DEF OverIn, Concerned, OfDataset, Active
    <2>4. ParentInv' /\ call'.since <= lastRun'
      BY <1>1, <2>1 DEF CancelInv, ParentInv
    <2>5. CASE Loops = AllLoops
      <3>1. Loops' = TwoLoops /\ OverIn(ingestion_dag)'
        BY <1>1, <1>3, <2>1, <2>2, <2>3, <2>5, CancelLoop DEF Loops
      <3> QED
        BY <1>3, <2>1, <2>4, <3>1, ShortSeqs DEF CancelInv, TwoLoops, LastLoop
    <2>6. CASE Loops = TwoLoops
      <3>1. Loops' = LastLoop /\ OverIn(process_dag)' /\ OverIn(ingestion_dag)
        BY <1>1, <1>3, <2>1, <2>2, <2>3, <2>6, CancelLoop, ShortSeqs
        DEF Loops, CancelInv, AllLoops, TwoLoops
      <3>2. OverIn(ingestion_dag)'
        BY <2>3, <3>1
      <3> QED
        BY <1>3, <2>1, <2>4, <3>1, <3>2, ShortSeqs DEF CancelInv, LastLoop
    <2>7. CASE Loops = LastLoop
      <3>1. /\ Loops' = <<>> /\ OverIn(staging_dag)'
            /\ OverIn(process_dag) /\ OverIn(ingestion_dag)
        BY <1>1, <1>3, <2>1, <2>2, <2>3, <2>7, CancelLoop, ShortSeqs
        DEF Loops, CancelInv, AllLoops, LastLoop
      <3>2. OverIn(ingestion_dag)' /\ OverIn(process_dag)'
        BY <2>3, <3>1
      <3> QED
        BY <1>3, <2>1, <2>4, <3>1, <3>2 DEF CancelInv
    <2> QED
      BY <1>1, <1>3, <2>5, <2>6, <2>7, CancelLoop
  <1> QED
    BY <1>2, <1>3

\* A page of a cancellation makes progress: none of its runs is spared.
LEMMA ActCancel ==
    ASSUME SparedInv, CancelInv, NEW r, act(r)
    PROVE  CancelInv'
  <1>1. Loops # <<>> /\ r \in call.page /\ UNCHANGED lastRun /\ call \in OpenCall
    BY DEF act, SparedInv
  <1>2. NoneActivated
    <2>1. CASE UNCHANGED run
      BY <2>1 DEF NoneActivated
    <2>2. ASSUME NEW state \in {"over", "deleted"}, run' = [run EXCEPT ![r].state = state]
          PROVE  NoneActivated
      BY <2>2 DEF NoneActivated, SparedInv
    <2> QED
      BY <2>1, <2>2 DEF act
  <1>3. \A b \in BOOLEAN : Done(r, b).since = call.since /\ Done(r, b).op = call.op
                           /\ Done(r, b) \in OpenCall /\ Done(r, b).raised = call.raised
    <2>1. \A b \in BOOLEAN : /\ Done(r, b) \in OpenCall /\ Done(r, b).op = call.op
                            /\ Done(r, b).raised = call.raised
      BY <1>1, DoneOpen
    <2>2. \A b \in BOOLEAN : Done(r, b).since = call.since
      BY <1>1 DEF Done, NextLoop, OpenCall
    <2> QED
      BY <2>1, <2>2
  <1>4. call'.since = call.since /\ call'.op = call.op /\ call'.raised = call.raised
    <2>1. CASE call' = Done(r, TRUE)
      BY <1>3, <2>1
    <2>2. ASSUME NEW failed, call' = [Done(r, FALSE) EXCEPT !.failed = failed]
          PROVE  call'.since = call.since /\ call'.op = call.op /\ call'.raised = call.raised
      BY <1>3, <2>2 DEF OpenCall
    <2> QED
      BY <2>1, <2>2 DEF act
  <1>5. call.op = "cancel_dataset_runs" => call'.loops = call.loops
    <2> SUFFICES ASSUME call.op = "cancel_dataset_runs"
                 PROVE  call'.loops = call.loops
      OBVIOUS
    <2>1. call' = Done(r, TRUE)
      BY <1>1, CancelLoop DEF act
    <2>2. Done(r, TRUE).loops = call.loops
      BY <1>1 DEF Done, stuck, OpenCall
    <2> QED
      BY <2>1, <2>2
  <1> QED
    BY <1>1, <1>2, <1>4, <1>5, SameLoopCancel

\* Each step keeps CancelInv: what a call left behind stays over.
LEMMA CancelStep ==
    ASSUME SparedInv, CancelInv, [Next]_vars
    PROVE  CancelInv'
  <1>1. CASE UNCHANGED vars
    BY <1>1, SameLoopCancel DEF vars, NoneActivated
  <1>2. ASSUME NEW kind \in Kinds \ {"scheduled"}, trigger(kind)
        PROVE  CancelInv'
    <2>1. 0 \in 0..lastRun
      BY DEF SparedInv
    <2> QED
      BY <1>2, <2>1, StartCancel DEF trigger
  <1>3. ASSUME NEW r \in 1..lastRun, trigger_process_dag(r)
        PROVE  CancelInv'
    <2>1. "scheduled" \in Kinds /\ r \in 0..lastRun
      BY DEF Kinds, SparedInv
    <2> QED
      BY <1>3, <2>1, StartCancel DEF trigger_process_dag
  <1>4. ASSUME NEW r \in 1..lastRun, end(r)
        PROVE  CancelInv'
    <2>1. /\ UNCHANGED lastRun /\ call'.since = call.since /\ call'.op = call.op
          /\ call'.raised = call.raised /\ call'.loops = call.loops /\ NoneActivated
      BY <1>4 DEF end, SparedInv, NoneActivated
    <2> QED
      BY <2>1, SameLoopCancel
  <1>5. ASSUME NEW op \in Operations, begin(op)
        PROVE  CancelInv'
    <2>1. /\ call'.op = op /\ call'.loops = loops_of(op) /\ call'.since = lastRun
          /\ UNCHANGED <<run, lastRun>>
      BY <1>5 DEF begin, NoCall
    <2>2. op = "cancel_dataset_runs" =>
              loops_of(op) = cancel_runs({}) \o <<force_fail(staging_dag, {})>>
      BY Zenon DEF loops_of
    <2>3. op = "cancel_dataset_runs" => call'.loops = AllLoops
      BY <2>1, <2>2, ShortSeqs
      DEF cancel_runs, AllLoops, ingestion_loop, process_loop, staging_loop
    <2>4. AllLoops # LastLoop /\ AllLoops # <<>>
      BY ShortSeqs DEF AllLoops, LastLoop
    <2>5. call'.since <= lastRun' /\ ParentInv'
      BY <2>1 DEF ParentInv, CancelInv, SparedInv
    <2> QED
      BY <2>1, <2>3, <2>4, <2>5 DEF CancelInv, Loops
  <1>6. CASE delete_ingestion_dag
    <2>1. call.op # "cancel_dataset_runs"
      BY <1>6, CancelLoop DEF delete_ingestion_dag
    <2>2. /\ UNCHANGED lastRun /\ call'.since = call.since /\ call'.op = call.op
          /\ call'.raised = call.raised
      BY <1>6 DEF delete_ingestion_dag, NextLoop, SparedInv, OpenCall
    <2>3. NoneActivated
      BY <1>6 DEF delete_ingestion_dag, SparedInv, NoneActivated
    <2> QED
      BY <2>1, <2>2, <2>3, SameLoopCancel
  <1>7. CASE finish
    <2>1. call'.op = "none" /\ call'.since = 0 /\ UNCHANGED <<run, lastRun>>
      BY <1>7 DEF finish, NoCall
    <2> QED
      BY <2>1 DEF CancelInv, ParentInv, SparedInv
  <1>8. CASE raise
    <2>1. call'.raised /\ call'.since = 0 /\ UNCHANGED <<run, lastRun>>
      BY <1>8 DEF raise, NoCall, SparedInv, OpenCall
    <2> QED
      BY <2>1 DEF CancelInv, ParentInv, SparedInv
  <1> QED
    BY <1>1, <1>2, <1>3, <1>4, <1>5, <1>6, <1>7, <1>8, QueryCancel, ActCancel DEF Next, Backend

-----------------------------------------------------------------------------
(* Pages *)

\* A set of runs has a first one, and a last one if it is bounded.
LEMMA FirstOf ==
    ASSUME NEW S \in SUBSET Nat, S # {}
    PROVE  \E x \in S : \A y \in S : x <= y
  <1>1. PICK x \in S : \A y \in S : ~(<<y, x>> \in OpToRel(<, Nat))
    BY NatLessThanWellFounded, WFMin
  <1>2. \A y \in S : ~(y < x)
    BY <1>1 DEF OpToRel
  <1> QED
    BY <1>2

\* A bounded set has a last element.
LEMMA LastOf ==
    ASSUME NEW n \in Nat, NEW S \in SUBSET (0..n), S # {}
    PROVE  \E x \in S : \A y \in S : y <= x
  <1> DEFINE U == {n - x : x \in S}
  <1>1. \A x \in S : x \in 0..n
    OBVIOUS
  <1>2. U \in SUBSET Nat /\ U # {}
    <2>1. \A u \in U : u \in Nat
      BY <1>1
    <2>2. PICK x : x \in S
      OBVIOUS
    <2>3. n - x \in U
      BY <2>2
    <2> HIDE DEF U
    <2> QED
      BY <2>1, <2>3
  <1>3. PICK u \in U : \A v \in U : u <= v
    BY <1>2, FirstOf
  <1>4. PICK x \in S : u = n - x
    BY <1>3
  <1>5. \A y \in S : n - x <= n - y
    BY <1>3, <1>4
  <1>6. \A y \in S : y <= x
    BY <1>1, <1>5
  <1> QED
    BY <1>6

\* One answer brings LIMIT runs at most, and all there are if it brings fewer.
LEMMA FirstPage ==
    ASSUME NEW n \in Nat, NEW S \in SUBSET (0..n)
    PROVE  /\ IsFiniteSet(First(S)) /\ Cardinality(First(S)) <= LIMIT
           /\ Cardinality(First(S)) < LIMIT => First(S) = S
  <1> DEFINE page      == First(S)
             Before(x) == {s \in S : s < x}
  <1>1. /\ IsFiniteSet(S) /\ page \subseteq S /\ IsFiniteSet(page)
        /\ Cardinality(page) \in Nat /\ LIMIT \in Nat \ {0}
    <2>1. IsFiniteSet(0..n)
      BY FS_Interval
    <2>2. IsFiniteSet(S) /\ page \subseteq S
      BY <2>1, FS_Subset DEF First
    <2>3. IsFiniteSet(page)
      BY <2>2, FS_Subset
    <2> QED
      BY <2>2, <2>3, FS_CardinalityType, AirflowAssumption
  <1>2. (\A x \in S : x \in Nat) /\ (\A x \in page : x \in S)
    BY <1>1
  <1>3. \A x \in S : IsFiniteSet(Before(x)) /\ Cardinality(Before(x)) \in Nat
    BY <1>1, FS_Subset, FS_CardinalityType
  <1>4. \A x \in S : x \in page <=> Cardinality(Before(x)) < LIMIT
    BY DEF First
  <1>5. Cardinality(page) <= LIMIT
    <2>1. CASE page = {}
      BY <1>1, <2>1, FS_EmptySet
    <2>2. CASE page # {}
      <3>1. PICK m \in page : \A y \in page : y <= m
        BY <1>1, <2>2, LastOf
      <3>2. page \ {m} \subseteq Before(m) /\ m \in S
        <4> HIDE DEF page
        <4>1. m \in S /\ m \in Nat
          BY <1>2, <3>1
        <4>2. ASSUME NEW y \in page, y # m
              PROVE  y \in S /\ y < m
          <5>1. y \in S /\ y \in Nat /\ y <= m
            BY <1>2, <3>1
          <5> QED
            BY <4>1, <4>2, <5>1
        <4> QED
          BY <4>1, <4>2
      <3>3. Cardinality(page \ {m}) <= Cardinality(Before(m))
        BY <1>3, <3>2, FS_Subset
      <3>4. Cardinality(page \ {m}) = Cardinality(page) - 1
        BY <1>1, FS_RemoveElement
      <3>5. Cardinality(Before(m)) < LIMIT /\ Cardinality(Before(m)) \in Nat
        BY <1>3, <1>4, <3>1, <3>2
      <3> HIDE DEF page, Before
      <3> QED
        BY <1>1, <3>3, <3>4, <3>5
    <2> QED
      BY <2>1, <2>2
  <1>6. ASSUME page # S
        PROVE  Cardinality(page) >= LIMIT
    <2>1. S \ page \in SUBSET Nat /\ S \ page # {}
      <3> HIDE DEF page
      <3> QED
        BY <1>2, <1>6
    <2>2. PICK x \in S \ page : \A y \in S \ page : x <= y
      BY <2>1, FirstOf
    <2>3. Before(x) \subseteq page
      <3>1. \A y \in S : y < x => y \in page
        BY <1>2, <2>2
      <3> QED
        BY <3>1
    <2>4. Cardinality(Before(x)) <= Cardinality(page)
      BY <1>1, <2>3, FS_Subset
    <2>5. ~(Cardinality(Before(x)) < LIMIT) /\ Cardinality(Before(x)) \in Nat
      BY <1>3, <1>4, <2>2
    <2> HIDE DEF page, Before
    <2> QED
      BY <1>1, <2>4, <2>5
  <1> HIDE DEF page
  <1>7. Cardinality(page) < LIMIT => page = S
    BY <1>1, <1>6
  <1> QED
    BY <1>1, <1>5, <1>7 DEF page

\* The queries of a call and their pages are bounded.
PageInv ==
    /\ lastRun \in 0..MaxRuns
    /\ deployed \in BOOLEAN
    /\ call.op \in Operations \cup {"none"}
    /\ IsFiniteSet(call.page) /\ Cardinality(call.page) <= LIMIT

\* The runs that a query looks for are among those of the database.
LEMMA MatchingBounded ==
    ASSUME SparedInv, NEW loop
    PROVE  Matching(loop) \in SUBSET (0..lastRun)
  BY DEF Matching, Existing, SparedInv

\* A page only loses runs until the next one is fetched.
LEMMA PageShrinks ==
    ASSUME PageInv, lastRun' \in 0..MaxRuns, deployed' \in BOOLEAN,
           call'.op \in Operations \cup {"none"}, call'.page \subseteq call.page
    PROVE  PageInv'
  <1>1. /\ IsFiniteSet(call'.page) /\ Cardinality(call'.page) <= Cardinality(call.page)
        /\ Cardinality(call'.page) \in Nat /\ Cardinality(call.page) \in Nat
        /\ LIMIT \in Nat
    BY FS_Subset, FS_CardinalityType, AirflowAssumption DEF PageInv
  <1> QED
    BY <1>1 DEF PageInv

\* Each step keeps PageInv: a query answers LIMIT runs at most.
LEMMA PageStep ==
    ASSUME SparedInv, PageInv, [Next]_vars
    PROVE  PageInv'
  <1>1. CASE UNCHANGED vars
    BY <1>1 DEF vars, PageInv
  <1>2. ASSUME NEW kind, NEW parent, Start(kind, parent)
        PROVE  PageInv'
    <2>1. lastRun' \in 0..MaxRuns /\ UNCHANGED <<deployed, call>>
      BY <1>2, AirflowAssumption DEF Start, PageInv
    <2> QED
      BY <2>1 DEF PageInv
  <1>3. ASSUME NEW r, end(r)
        PROVE  PageInv'
    BY <1>3 DEF end, PageInv
  <1>4. ASSUME NEW op \in Operations, begin(op)
        PROVE  PageInv'
    <2>1. call'.op = op /\ call'.page = {} /\ UNCHANGED <<lastRun, deployed>>
      BY <1>4 DEF begin, NoCall
    <2> QED
      BY <2>1, PageShrinks DEF PageInv
  <1>5. CASE query
    <2>1. UNCHANGED <<lastRun, deployed>> /\ Loops # <<>> /\ call \in OpenCall
      BY <1>5 DEF query, SparedInv
    <2>2. CASE call' = NextLoop(call)
      <3>1. call'.op = call.op /\ call'.page = {}
        BY <2>1, <2>2, NextLoopOpen DEF Loops
      <3> QED
        BY <2>1, <3>1, PageShrinks DEF PageInv
    <2>3. CASE call' = [call EXCEPT !.page = First(Matching(Head(Loops))), !.progressed = FALSE]
      <3>1. call'.op = call.op /\ call'.page = First(Matching(Head(Loops)))
        BY <2>1, <2>3 DEF OpenCall
      <3>2. /\ IsFiniteSet(First(Matching(Head(Loops))))
            /\ Cardinality(First(Matching(Head(Loops)))) <= LIMIT
        BY MatchingBounded, FirstPage DEF SparedInv
      <3> QED
        BY <2>1, <3>1, <3>2 DEF PageInv
    <2> QED
      BY <1>5, <2>2, <2>3 DEF query
  <1>6. ASSUME NEW r, act(r)
        PROVE  PageInv'
    <2>1. UNCHANGED <<lastRun, deployed>> /\ Loops # <<>>
      BY <1>6 DEF act
    <2>2. \A b \in BOOLEAN : /\ Done(r, b) \in OpenCall /\ Done(r, b).op = call.op
                             /\ Done(r, b).page \subseteq call.page
      BY <2>1, DoneOpen
    <2>3. call'.op = call.op /\ call'.page \subseteq call.page
      <3>1. CASE call' = Done(r, TRUE)
        BY <2>2, <3>1
      <3>2. ASSUME NEW failed, call' = [Done(r, FALSE) EXCEPT !.failed = failed]
            PROVE  call'.op = call.op /\ call'.page \subseteq call.page
        BY <2>2, <3>2 DEF OpenCall
      <3> QED
        BY <1>6, <3>1, <3>2 DEF act
    <2> QED
      BY <2>1, <2>3, PageShrinks DEF PageInv
  <1>7. CASE delete_ingestion_dag
    <2>1. Loops # <<>> /\ UNCHANGED lastRun /\ deployed' \in BOOLEAN /\ call \in OpenCall
      BY <1>7 DEF delete_ingestion_dag, PageInv, SparedInv
    <2>2. call'.op = call.op /\ call'.page \subseteq call.page
      <3>1. CASE call' = NextLoop(call)
        BY <2>1, <3>1, NextLoopOpen DEF Loops
      <3>2. ASSUME NEW loops, call' = [call EXCEPT !.loops = loops]
            PROVE  call'.op = call.op /\ call'.page \subseteq call.page
        BY <2>1, <3>2 DEF OpenCall
      <3> QED
        BY <1>7, <3>1, <3>2 DEF delete_ingestion_dag
    <2> QED
      BY <2>1, <2>2, PageShrinks DEF PageInv
  <1>8. CASE finish
    <2>1. call'.op = "none" /\ call'.page = {} /\ UNCHANGED <<lastRun, deployed>>
      BY <1>8 DEF finish, NoCall
    <2> QED
      BY <2>1, PageShrinks DEF PageInv
  <1>9. CASE raise
    <2>1. call'.op = call.op /\ call'.page = {} /\ UNCHANGED <<lastRun, deployed>>
      BY <1>9 DEF raise, NoCall, SparedInv, OpenCall
    <2> QED
      BY <2>1, PageShrinks DEF PageInv
  <1> QED
    BY <1>1, <1>2, <1>3, <1>4, <1>5, <1>6, <1>7, <1>8, <1>9
    DEF Next, Backend, trigger, trigger_process_dag

\* The same for the parents and the run a call began after.
LEMMA CancelInit == Init => SparedInv /\ CancelInv /\ PageInv
  <1>1. Init => IsFiniteSet({}) /\ Cardinality({}) = 0
    BY FS_EmptySet
  <1> QED
    BY <1>1, SparedInit, AirflowAssumption DEF Init, NoCall, CancelInv, ParentInv, PageInv

\* Type correctness for every number of runs: no answer of Airflow brings more than
\* LIMIT runs, and a run names one that started before it as its parent
\* (services/airflow_client.py, _for_each_dag_run).
THEOREM RunsTypeOKAlways == Spec => []RunsTypeOK
  <1>1. SparedInv /\ CancelInv /\ PageInv /\ [Next]_vars => (SparedInv /\ CancelInv /\ PageInv)'
    BY SparedStep, CancelStep, PageStep
  <1>2. SparedInv /\ CancelInv /\ PageInv => RunsTypeOK
    <2> SUFFICES ASSUME SparedInv, CancelInv, PageInv
                 PROVE  RunsTypeOK
      OBVIOUS
    <2>1. lastRun \in 0..MaxRuns /\ call \in OpenCall /\ call.page \subseteq 1..lastRun
      BY DEF SparedInv, PageInv, OfDataset
    <2>2. run \in [1..lastRun -> DagRun]
      <3>1. \A r \in 1..lastRun : run[r].parent \in 0..MaxRuns
        BY <2>1, AirflowAssumption DEF CancelInv, ParentInv
      <3>2. \A r \in 1..lastRun : run[r] \in DagRun
        BY <3>1 DEF SparedInv, DagRun
      <3> QED
        BY <3>2 DEF SparedInv
    <2>3. call \in Call
      <3>1. call.page \in SUBSET Runs /\ call.since \in 0..MaxRuns
        BY <2>1, AirflowAssumption DEF Runs, CancelInv, OpenCall
      <3> QED
        BY <2>1, <3>1 DEF PageInv, OpenCall, Call
    <2> QED
      BY <2>1, <2>2, <2>3 DEF RunsTypeOK, PageInv
  <1> QED
    BY <1>1, <1>2, CancelInit, PTL DEF Spec

-----------------------------------------------------------------------------
(* The removal of a schedule *)

\* The manual runs that are not over are fewer than a page.
ManualInv == IsFiniteSet(Waiting("manual")) /\ Cardinality(Waiting("manual")) <= MaxManual

\* If no run is activated, there are no more manual ones than before.
LEMMA FewerManual ==
    ASSUME SparedInv, ManualInv, UNCHANGED lastRun, NoneActivated
    PROVE  ManualInv'
  <1>1. Waiting("manual")' \subseteq Waiting("manual")
    BY DEF Waiting, ActiveRuns, Active, NoneActivated
  <1>2. /\ IsFiniteSet(Waiting("manual")')
        /\ Cardinality(Waiting("manual")') <= Cardinality(Waiting("manual"))
        /\ Cardinality(Waiting("manual")') \in Nat /\ Cardinality(Waiting("manual")) \in Nat
    BY <1>1, FS_Subset, FS_CardinalityType DEF ManualInv
  <1> QED
    BY <1>2, AirflowAssumption DEF ManualInv

\* A manual run is started where there are fewer than MaxManual.
LEMMA StartManual ==
    ASSUME SparedInv, ManualInv, NEW kind \in Kinds, NEW parent \in Nat, Start(kind, parent),
           kind = "manual" => Cardinality(Waiting("manual")) < MaxManual
    PROVE  ManualInv'
  <1>1. /\ lastRun \in Nat /\ lastRun' = lastRun + 1
        /\ \A r \in 1..lastRun : run'[r] = run[r]
        /\ run'[lastRun + 1] = [kind |-> kind, state |-> "active", parent |-> parent]
    BY StartAppends
  <1>2. CASE kind # "manual"
    <2>1. Waiting("manual")' = Waiting("manual")
      BY <1>1, <1>2 DEF Waiting, ActiveRuns, Active
    <2> QED
      BY <2>1 DEF ManualInv
  <1>3. CASE kind = "manual"
    <2>1. Waiting("manual")' = Waiting("manual") \cup {lastRun + 1}
      BY <1>1, <1>3 DEF Waiting, ActiveRuns, Active
    <2>2. /\ IsFiniteSet(Waiting("manual")')
          /\ Cardinality(Waiting("manual")') <= Cardinality(Waiting("manual")) + 1
          /\ Cardinality(Waiting("manual")') \in Nat /\ Cardinality(Waiting("manual")) \in Nat
      <3>1. /\ IsFiniteSet(Waiting("manual")) /\ IsFiniteSet(Waiting("manual")')
            /\ Cardinality(Waiting("manual")') =
                  IF lastRun + 1 \in Waiting("manual") THEN Cardinality(Waiting("manual"))
                  ELSE Cardinality(Waiting("manual")) + 1
        BY <2>1, FS_AddElement DEF ManualInv
      <3>2. Cardinality(Waiting("manual")') \in Nat /\ Cardinality(Waiting("manual")) \in Nat
        BY <3>1, FS_CardinalityType
      <3> QED
        BY <3>1, <3>2
    <2> QED
      BY <1>3, <2>2, AirflowAssumption DEF ManualInv
  <1> QED
    BY <1>2, <1>3

\* The steps that start no run make none active.
LEMMA NoneActivatedBy ==
    ASSUME SparedInv,
           \/ \E r \in 1..lastRun : end(r)
           \/ \E op \in Operations : begin(op)
           \/ Backend \/ \E r : act(r)
           \/ UNCHANGED vars
    PROVE  NoneActivated /\ UNCHANGED lastRun
  <1>1. ASSUME NEW r \in 1..lastRun, NEW state \in {"over", "deleted"},
               run' = [run EXCEPT ![r].state = state]
        PROVE  NoneActivated
    BY <1>1 DEF NoneActivated, SparedInv
  <1>2. UNCHANGED run => NoneActivated
    BY DEF NoneActivated
  <1>3. ASSUME NEW r \in 1..lastRun, end(r)
        PROVE  NoneActivated /\ UNCHANGED lastRun
    BY <1>1, <1>3 DEF end
  <1>4. ASSUME NEW op \in Operations, begin(op)
        PROVE  NoneActivated /\ UNCHANGED lastRun
    BY <1>2, <1>4 DEF begin
  <1>5. ASSUME NEW r, act(r)
        PROVE  NoneActivated /\ UNCHANGED lastRun
    <2>1. r \in 1..lastRun
      BY <1>5 DEF act, SparedInv, OfDataset
    <2> QED
      BY <1>1, <1>2, <1>5, <2>1 DEF act
  <1>6. delete_ingestion_dag => NoneActivated /\ UNCHANGED lastRun
    BY DEF delete_ingestion_dag, SparedInv, NoneActivated
  <1>7. query \/ raise \/ finish \/ UNCHANGED vars => NoneActivated /\ UNCHANGED lastRun
    BY <1>2 DEF query, raise, finish, vars
  <1> QED
    BY <1>3, <1>4, <1>5, <1>6, <1>7 DEF Backend

\* Each step keeps ManualInv: MaxManual bounds the manual runs.
LEMMA ManualStep ==
    ASSUME SparedInv, ManualInv, [Next]_vars
    PROVE  ManualInv'
  <1>1. ASSUME NEW kind \in Kinds \ {"scheduled"}, trigger(kind)
        PROVE  ManualInv'
    BY <1>1, StartManual DEF trigger
  <1>2. ASSUME NEW r \in 1..lastRun, trigger_process_dag(r)
        PROVE  ManualInv'
    <2>1. "scheduled" \in Kinds /\ r \in Nat
      BY DEF Kinds, SparedInv
    <2> QED
      BY <1>2, <2>1, StartManual DEF trigger_process_dag
  <1> QED
    BY <1>1, <1>2, NoneActivatedBy, FewerManual DEF Next

\* What is left of the loops of a removal. If a run of the schedule is in the way of the
\* deletion, the runs of the schedule are forced to fail once more.
spare_loop    == force_fail(process_dag, {"manual"})
first_deletion  == delete_dag(FALSE)
second_deletion == delete_dag(TRUE)
RemovalLoops  == <<ingestion_loop, spare_loop, first_deletion>>
SpareLoops    == <<spare_loop, first_deletion>>
DeletionLoop  == <<first_deletion>>
RetryLoops    == <<ingestion_loop, second_deletion>>
RetryDeletion == <<second_deletion>>

\* A page of the second loop that has made no progress still has a run to stop, or there
\* was nothing to stop: manual runs, which are spared, do not fill a page.
RemovalInv ==
    call.op = "remove_ingestion_dag" /\ ~call.raised =>
        /\ Loops \in {RemovalLoops, SpareLoops, DeletionLoop, RetryLoops, RetryDeletion, <<>>}
        /\ Loops # RemovalLoops => OverIn(ingestion_dag)
        /\ Loops \in {DeletionLoop, RetryLoops, RetryDeletion, <<>>} => OverIn({"scheduled"})
        /\ Loops = SpareLoops /\ call.page # {} /\ ~call.progressed =>
              OverIn({"scheduled"}) \/ \E r \in call.page : run[r].kind # "manual"

\* The loop in progress of a removal.
LEMMA RemovalLoop ==
    ASSUME SparedInv, RemovalInv, call.op = "remove_ingestion_dag", Loops # <<>>
    PROVE  /\ Loops \in {RemovalLoops, SpareLoops, DeletionLoop, RetryLoops, RetryDeletion}
           /\ Loops = RemovalLoops => Head(Loops) = ingestion_loop /\ Tail(Loops) = SpareLoops
           /\ Loops = SpareLoops => Head(Loops) = spare_loop /\ Tail(Loops) = DeletionLoop
           /\ Loops = DeletionLoop => Head(Loops) = first_deletion /\ Tail(Loops) = <<>>
           /\ Loops = RetryLoops => Head(Loops) = ingestion_loop /\ Tail(Loops) = RetryDeletion
           /\ Loops = RetryDeletion => Head(Loops) = second_deletion /\ Tail(Loops) = <<>>
  <1>1. Loops \in {RemovalLoops, SpareLoops, DeletionLoop, RetryLoops, RetryDeletion}
    BY DEF RemovalInv, SparedInv
  <1>2. /\ Head(RemovalLoops) = ingestion_loop /\ Tail(RemovalLoops) = SpareLoops
        /\ Head(SpareLoops) = spare_loop /\ Tail(SpareLoops) = DeletionLoop
        /\ Head(DeletionLoop) = first_deletion /\ Tail(DeletionLoop) = <<>>
    BY ShortSeqs DEF RemovalLoops, SpareLoops, DeletionLoop
  <1>3. /\ Head(RetryLoops) = ingestion_loop /\ Tail(RetryLoops) = RetryDeletion
        /\ Head(RetryDeletion) = second_deletion /\ Tail(RetryDeletion) = <<>>
    BY ShortSeqs DEF RetryLoops, RetryDeletion
  <1> QED
    BY <1>1, <1>2, <1>3

\* They differ.
LEMMA RemovalStagesDiffer ==
    /\ SpareLoops # RemovalLoops /\ SpareLoops \notin {DeletionLoop, RetryLoops, RetryDeletion}
    /\ RemovalLoops \notin {DeletionLoop, RetryLoops, RetryDeletion, <<>>}
    /\ SpareLoops # <<>>
  <1>1. /\ Len(RemovalLoops) = 3 /\ Len(SpareLoops) = 2 /\ Len(DeletionLoop) = 1
        /\ Len(RetryLoops) = 2 /\ Len(RetryDeletion) = 1 /\ Len(<<>>) = 0
    BY DEF RemovalLoops, SpareLoops, DeletionLoop, RetryLoops, RetryDeletion
  <1>2. Head(SpareLoops) = spare_loop /\ Head(RetryLoops) = ingestion_loop
    BY ShortSeqs DEF SpareLoops, RetryLoops
  <1>3. spare_loop # ingestion_loop
    BY DEF spare_loop, ingestion_loop, force_fail
  <1>4. SpareLoops # RetryLoops
    BY <1>2, <1>3
  <1>5. /\ SpareLoops \notin {RemovalLoops, DeletionLoop, RetryDeletion, <<>>}
        /\ RemovalLoops \notin {DeletionLoop, RetryLoops, RetryDeletion, <<>>}
    BY <1>1
  <1> QED
    BY <1>4, <1>5

\* A step in the same loop, with the same page, that starts no run.
LEMMA SameLoopRemoval ==
    ASSUME SparedInv, RemovalInv, UNCHANGED lastRun, NoneActivated,
           call'.since = call.since, call'.op = call.op, call'.raised = call.raised,
           call.op = "remove_ingestion_dag" =>
              /\ call'.loops = call.loops
              /\ call.loops = SpareLoops =>
                    \/ call'.page = call.page /\ call'.progressed = call.progressed
                    \/ call'.page = {} \/ call'.progressed
    PROVE  RemovalInv'
  <1>1. ASSUME NEW dag, OverIn(dag)
        PROVE  OverIn(dag)'
    BY <1>1, EndsKeepOver
  <1>2. \A r \in call.page : run'[r].kind = run[r].kind
    BY DEF SparedInv, OfDataset, NoneActivated
  <1> QED
    BY <1>1, <1>2 DEF RemovalInv, Loops

\* A page of manual runs only is shorter than an answer may be, so it is all there is.
LEMMA ManualPage ==
    ASSUME SparedInv, ManualInv, CancelInv, Loops = SpareLoops, Head(Loops) = spare_loop,
           \A r \in First(Matching(Head(Loops))) : run[r].kind = "manual"
    PROVE  OverIn({"scheduled"})
  <1> DEFINE S == Matching(Head(Loops))
  <1>1. /\ Head(Loops).dag = process_dag /\ Head(Loops).action = "force_fail"
        /\ lastRun \in Nat
    BY DEF spare_loop, force_fail, SparedInv
  <1>2. \A r \in S : r \in 1..lastRun /\ Active(r)
    BY <1>1 DEF Matching, Existing
  <1>3. First(S) \subseteq S
    BY DEF First
  <1>4. First(S) \subseteq Waiting("manual")
    BY <1>2, <1>3 DEF Waiting, ActiveRuns
  <1>5. Cardinality(First(S)) <= Cardinality(Waiting("manual"))
    BY <1>4, FS_Subset DEF ManualInv
  <1>6. IsFiniteSet(First(S))
    BY <1>1, MatchingBounded, FirstPage
  <1>7. Cardinality(First(S)) < LIMIT
    <2>1. Cardinality(First(S)) \in Nat /\ Cardinality(Waiting("manual")) \in Nat
      BY <1>6, FS_CardinalityType DEF ManualInv
    <2> HIDE DEF S
    <2> QED
      BY <1>5, <2>1, AirflowAssumption DEF ManualInv
  <1>8. First(S) = S
    BY <1>1, <1>7, MatchingBounded, FirstPage
  <1>9. \A r \in S : run[r].kind = "manual"
    BY <1>8
  <1>10. ASSUME NEW r \in Concerned, run[r].kind = "scheduled", Active(r)
         PROVE  FALSE
    <2>1. r \in OfDataset /\ r \in Existing
      BY <1>10 DEF Concerned, OfDataset, Existing, Active
    <2>2. r \in S
      BY <1>1, <1>10, <2>1 DEF Matching, process_dag
    <2> QED
      BY <1>9, <1>10, <2>2
  <1> QED
    BY <1>10 DEF OverIn

\* An answer without progress means that there is nothing left to cancel.
LEMMA QueryRemoval ==
    ASSUME SparedInv, ManualInv, CancelInv, RemovalInv, query
    PROVE  RemovalInv'
  <1>1. /\ UNCHANGED <<run, lastRun>> /\ Loops # <<>> /\ call \in OpenCall /\ NoneActivated
        /\ Head(Loops).action # "delete_dag" /\ call.page = {} /\ ~call.raised
    BY DEF query, SparedInv, NoneActivated
  <1>2. ASSUME NEW dag, OverIn(dag), call'.since = call.since
        PROVE  OverIn(dag)'
    BY <1>1, <1>2, EndsKeepOver
  <1>3. CASE call.op # "remove_ingestion_dag"
    <2>1. call'.op = call.op
      BY <1>1 DEF query, NextLoop, OpenCall
    <2> QED
      BY <1>1, <1>3, <2>1 DEF RemovalInv
  <1>4. CASE call.op = "remove_ingestion_dag" /\ Matching(Head(Loops)) # {}
    <2> DEFINE page == First(Matching(Head(Loops)))
    <2>1. /\ call'.since = call.since /\ call'.op = call.op /\ Loops' = Loops
          /\ call'.page = page
      BY <1>1, <1>4 DEF query, OpenCall, Loops
    <2>2. CASE Loops = SpareLoops
      <3>1. Head(Loops) = spare_loop
        BY <1>1, <1>4, <2>2, RemovalLoop
      <3>2. OverIn({"scheduled"}) \/ \E r \in page : run[r].kind # "manual"
        BY <2>2, <3>1, ManualPage
      <3>3. OverIn({"scheduled"})' \/ \E r \in call'.page : run'[r].kind # "manual"
        BY <1>1, <1>2, <2>1, <3>2
      <3>4. OverIn(ingestion_dag)
        BY <1>1, <1>4, <2>2, RemovalStagesDiffer DEF RemovalInv
      <3> HIDE DEF page
      <3> QED
        BY <1>1, <1>2, <1>4, <2>1, <2>2, <3>3, <3>4, RemovalStagesDiffer DEF RemovalInv
    <2>3. CASE Loops # SpareLoops
      BY <1>1, <1>2, <1>4, <2>1, <2>3 DEF RemovalInv
    <2> QED
      BY <2>2, <2>3
  <1>5. CASE call.op = "remove_ingestion_dag" /\ Matching(Head(Loops)) = {}
    <2>1. /\ call'.since = call.since /\ call'.op = call.op /\ Loops' = Tail(Loops)
          /\ call'.page = {}
      BY <1>1, <1>5 DEF query, NextLoop, OpenCall, Loops
    <2>2. Head(Loops) \in {ingestion_loop, spare_loop} => OverIn(Head(Loops).dag)
      BY <1>5 DEF OverIn, Concerned, Matching, Existing, Active, OfDataset,
                  ingestion_loop, spare_loop, force_fail
    <2>3. CASE Loops = RemovalLoops
      <3>1. Head(Loops) = ingestion_loop /\ Loops' = SpareLoops
        BY <1>1, <1>5, <2>1, <2>3, RemovalLoop
      <3>2. OverIn(ingestion_dag)
        BY <2>2, <3>1 DEF ingestion_loop, force_fail
      <3>3. OverIn(ingestion_dag)'
        BY <1>2, <2>1, <3>2
      <3> QED
        BY <1>1, <2>1, <3>1, <3>3, RemovalStagesDiffer DEF RemovalInv
    <2>4. CASE Loops = SpareLoops
      <3>1. Head(Loops) = spare_loop /\ Loops' = DeletionLoop
        BY <1>1, <1>5, <2>1, <2>4, RemovalLoop
      <3>2. OverIn(process_dag) /\ OverIn(ingestion_dag) /\ Loops' = DeletionLoop
        <4>1. OverIn(process_dag)
          BY <2>2, <3>1 DEF spare_loop, force_fail
        <4>2. OverIn(ingestion_dag)
          BY <1>1, <1>5, <2>4, RemovalStagesDiffer DEF RemovalInv
        <4> QED
          BY <3>1, <4>1, <4>2
      <3>3. OverIn({"scheduled"})
        BY <3>2 DEF OverIn, process_dag
      <3>4. OverIn(ingestion_dag)' /\ OverIn({"scheduled"})'
        BY <1>2, <2>1, <3>2, <3>3
      <3> QED
        BY <1>1, <2>1, <3>2, <3>4 DEF RemovalInv
    <2>5. CASE Loops = RetryLoops
      <3>1. OverIn({"scheduled"}) /\ OverIn(ingestion_dag) /\ Loops' = RetryDeletion
        BY <1>1, <1>5, <2>1, <2>5, RemovalLoop, RemovalStagesDiffer DEF RemovalInv
      <3>2. OverIn(ingestion_dag)' /\ OverIn({"scheduled"})'
        BY <1>2, <2>1, <3>1
      <3> QED
        BY <1>1, <2>1, <3>1, <3>2 DEF RemovalInv
    <2>6. Loops \notin {DeletionLoop, RetryDeletion}
      BY <1>1, <1>5, RemovalLoop DEF first_deletion, second_deletion, delete_dag
    <2> QED
      BY <1>1, <1>5, <2>3, <2>4, <2>5, <2>6, RemovalLoop
  <1> QED
    BY <1>3, <1>4, <1>5

\* What becomes of a call after the last run of its page or another one.
LEMMA DoneMeans ==
    ASSUME call \in OpenCall, NEW r, NEW b \in BOOLEAN
    PROVE  /\ Done(r, b).since = call.since
           /\ call.page # {r} =>
                 /\ Done(r, b).loops = call.loops /\ Done(r, b).page = call.page \ {r}
                 /\ Done(r, b).progressed = (call.progressed \/ b)
           /\ call.page = {r} =>
                 /\ Done(r, b).page = {}
                 /\ Done(r, b).loops =
                       IF call.progressed \/ b THEN call.loops ELSE Tail(call.loops)
           /\ Done(r, b).failed = call.failed
  <1> DEFINE c == [call EXCEPT !.progressed = @ \/ b]
  <1>1. /\ c \in OpenCall /\ c.since = call.since /\ c.loops = call.loops
        /\ c.page = call.page /\ c.progressed = (call.progressed \/ b)
        /\ c.failed = call.failed
    BY DEF OpenCall
  <1>2. Done(r, b) = IF call.page # {r} THEN [c EXCEPT !.page = @ \ {r}]
                     ELSE IF stuck(c) THEN NextLoop(c) ELSE [c EXCEPT !.page = {}]
    BY DEF Done
  <1> HIDE DEF c
  <1>3. CASE call.page # {r}
    <2>1. Done(r, b) = [c EXCEPT !.page = @ \ {r}]
      BY <1>2, <1>3
    <2> QED
      BY <1>1, <1>3, <2>1 DEF OpenCall
  <1>4. CASE call.page = {r} /\ stuck(c)
    <2>1. Done(r, b) = NextLoop(c) /\ ~(call.progressed \/ b)
      BY <1>1, <1>2, <1>4 DEF stuck
    <2> QED
      BY <1>1, <1>4, <2>1 DEF OpenCall, NextLoop
  <1>5. CASE call.page = {r} /\ ~stuck(c)
    <2>1. Done(r, b) = [c EXCEPT !.page = {}] /\ (call.progressed \/ b)
      BY <1>1, <1>2, <1>5 DEF stuck
    <2> QED
      BY <1>1, <1>5, <2>1 DEF OpenCall
  <1> QED
    BY <1>3, <1>4, <1>5

\* A run of a page of a removal.
LEMMA ActRemoval ==
    ASSUME SparedInv, RemovalInv, NEW r, act(r)
    PROVE  RemovalInv'
  <1>1. /\ Loops # <<>> /\ r \in call.page /\ UNCHANGED lastRun /\ call \in OpenCall
        /\ Done(r, TRUE) \in OpenCall /\ Done(r, FALSE) \in OpenCall
        /\ Done(r, TRUE).op = call.op /\ Done(r, FALSE).op = call.op
        /\ Done(r, TRUE).raised = call.raised /\ Done(r, FALSE).raised = call.raised
        /\ ~call.raised
    BY DoneOpen DEF act, SparedInv
  <1>2. NoneActivated
    BY NoneActivatedBy
  <1>3. CASE call.op # "remove_ingestion_dag"
    <2>1. call'.op = call.op
      <3>1. CASE call' = Done(r, TRUE)
        BY <1>1, <3>1
      <3>2. ASSUME NEW failed, call' = [Done(r, FALSE) EXCEPT !.failed = failed]
            PROVE  call'.op = call.op
        BY <1>1, <3>2 DEF OpenCall
      <3> QED
        BY <3>1, <3>2 DEF act
    <2> QED
      BY <1>1, <1>3, <2>1 DEF RemovalInv
  <1>4. CASE call.op = "remove_ingestion_dag"
    <2>1. Head(Loops) \in {ingestion_loop, spare_loop}
      BY <1>1, <1>4 DEF SparedInv, RemovalStops, ingestion_loop, spare_loop
    <2>2. CASE call' = Done(r, TRUE)
      <3>1. /\ call'.since = call.since /\ call'.op = call.op /\ call'.raised = call.raised
            /\ call'.loops = call.loops
            /\ call'.page = {} \/ call'.progressed
        BY <1>1, <2>2, DoneMeans
      <3> QED
        BY <1>1, <1>2, <3>1, SameLoopRemoval
    <2>3. CASE call' # Done(r, TRUE)
      <3>1. /\ run[r].kind \in Head(Loops).spared
            /\ \E failed : call' = [Done(r, FALSE) EXCEPT !.failed = failed]
        <4>1. Head(Loops).action # "delete"
          BY <2>1 DEF ingestion_loop, spare_loop, force_fail
        <4> QED
          BY <2>3, <4>1 DEF act
      <3>2. /\ Loops = SpareLoops /\ run[r].kind = "manual" /\ Tail(Loops) = DeletionLoop
        <4>1. Head(Loops) = spare_loop /\ run[r].kind = "manual"
          BY <2>1, <3>1 DEF ingestion_loop, spare_loop, force_fail
        <4>2. spare_loop \notin {ingestion_loop, second_deletion, first_deletion}
          BY DEF ingestion_loop, spare_loop, first_deletion, second_deletion, force_fail, delete_dag
        <4> QED
          BY <1>1, <1>4, <4>1, <4>2, RemovalLoop
      <3>3. /\ call'.since = call.since /\ call'.op = call.op /\ call'.raised = call.raised
            /\ call'.loops = Done(r, FALSE).loops /\ call'.page = Done(r, FALSE).page
            /\ call'.progressed = Done(r, FALSE).progressed
        BY <1>1, <3>1, DoneMeans DEF OpenCall
      <3>4. CASE call.page # {r}
        <4>1. /\ call'.loops = call.loops /\ call'.page = call.page \ {r}
              /\ call'.progressed = (call.progressed \/ FALSE)
          BY <1>1, <3>3, <3>4, DoneMeans
        <4>2. ASSUME NEW dag, OverIn(dag)
              PROVE  OverIn(dag)'
          BY <1>1, <1>2, <3>3, <4>2, EndsKeepOver
        <4>3. \A s \in call.page : run'[s].kind = run[s].kind
          BY <1>2 DEF SparedInv, OfDataset, NoneActivated
        <4>4. OverIn(ingestion_dag)
          BY <1>1, <1>4, <3>2, RemovalStagesDiffer DEF RemovalInv
        <4>5. ~call'.progressed =>
                  OverIn({"scheduled"})' \/ \E s \in call'.page : run'[s].kind # "manual"
          BY <1>1, <1>4, <3>2, <4>1, <4>2, <4>3 DEF RemovalInv
        <4> QED
          BY <1>1, <1>4, <3>2, <3>3, <4>1, <4>2, <4>4, <4>5, RemovalStagesDiffer
          DEF RemovalInv, Loops
      <3>5. CASE call.page = {r}
        <4>1. /\ call'.page = {}
              /\ call'.loops = IF call.progressed \/ FALSE THEN call.loops ELSE Tail(call.loops)
          BY <1>1, <3>3, <3>5, DoneMeans
        <4>2. CASE call.progressed
          BY <1>1, <1>2, <3>3, <4>1, <4>2, SameLoopRemoval
        <4>3. CASE ~call.progressed
          <5>1. OverIn({"scheduled"}) /\ OverIn(ingestion_dag) /\ Loops' = DeletionLoop
            BY <1>1, <1>4, <3>2, <3>5, <4>1, <4>3, RemovalStagesDiffer DEF RemovalInv, Loops
          <5>2. OverIn({"scheduled"})' /\ OverIn(ingestion_dag)'
            BY <1>1, <1>2, <3>3, <5>1, EndsKeepOver
          <5> QED
            BY <1>1, <4>1, <5>1, <5>2 DEF RemovalInv
        <4> QED
          BY <4>2, <4>3
      <3> QED
        BY <3>4, <3>5
    <2> QED
      BY <2>2, <2>3
  <1> QED
    BY <1>3, <1>4

\* The DAG is removed, or its active runs are failed and it is tried once more.
LEMMA DeleteDagRemoval ==
    ASSUME SparedInv, RemovalInv, delete_ingestion_dag
    PROVE  RemovalInv'
  <1>1. /\ Loops # <<>> /\ Head(Loops).action = "delete_dag" /\ UNCHANGED lastRun
        /\ call \in OpenCall /\ NoneActivated /\ ~call.raised
    BY NoneActivatedBy DEF delete_ingestion_dag, SparedInv, Backend
  <1>2. /\ call'.since = call.since /\ call'.op = call.op
        /\ Loops' \in {Tail(Loops), <<>>, RetryLoops}
    BY <1>1 DEF delete_ingestion_dag, NextLoop, OpenCall, Loops, RetryLoops, ingestion_loop,
                second_deletion
  <1>3. CASE call.op # "remove_ingestion_dag"
    BY <1>1, <1>2, <1>3 DEF RemovalInv
  <1>4. CASE call.op = "remove_ingestion_dag"
    <2>1. Loops \in {DeletionLoop, RetryDeletion} /\ Tail(Loops) = <<>>
      BY <1>1, <1>4, RemovalLoop DEF ingestion_loop, spare_loop, force_fail
    <2>2. OverIn(ingestion_dag) /\ OverIn({"scheduled"})
      BY <1>1, <1>4, <2>1, RemovalStagesDiffer DEF RemovalInv
    <2>3. OverIn(ingestion_dag)' /\ OverIn({"scheduled"})'
      BY <1>1, <1>2, <2>2, EndsKeepOver
    <2>4. Loops' \in {<<>>, RetryLoops}
      BY <1>2, <2>1
    <2> QED
      BY <1>1, <2>3, <2>4, RemovalStagesDiffer DEF RemovalInv
  <1> QED
    BY <1>3, <1>4

\* The runs of the schedule, and those they trigger, start after the removal began.
LEMMA StartRemoval ==
    ASSUME SparedInv, CancelInv, RemovalInv, NEW kind \in Kinds, NEW parent \in 0..lastRun,
           parent # 0 => Active(parent) /\ run[parent].kind = "ingestion",
           Start(kind, parent)
    PROVE  RemovalInv'
  <1>1. /\ UNCHANGED call /\ \A r \in 1..lastRun : run'[r] = run[r]
    <2>1. parent \in Nat
      BY DEF SparedInv
    <2> QED
      BY <2>1, StartAppends
  <1>2. ASSUME NEW dag, OverIn(ingestion_dag), OverIn(dag)
        PROVE  OverIn(dag)'
    BY <1>2, StartKeepsOver
  <1>3. \A r \in call.page : run'[r] = run[r]
    BY <1>1 DEF SparedInv, OfDataset
  <1> QED
    BY <1>1, <1>2, <1>3, RemovalStagesDiffer DEF RemovalInv, Loops

\* Each step keeps RemovalInv.
LEMMA RemovalStep ==
    ASSUME SparedInv, ManualInv, CancelInv, RemovalInv, [Next]_vars
    PROVE  RemovalInv'
  <1>1. CASE UNCHANGED vars
    BY <1>1, NoneActivatedBy, SameLoopRemoval DEF vars
  <1>2. ASSUME NEW kind \in Kinds \ {"scheduled"}, trigger(kind)
        PROVE  RemovalInv'
    <2>1. 0 \in 0..lastRun
      BY DEF SparedInv
    <2> QED
      BY <1>2, <2>1, StartRemoval DEF trigger
  <1>3. ASSUME NEW r \in 1..lastRun, trigger_process_dag(r)
        PROVE  RemovalInv'
    <2>1. "scheduled" \in Kinds /\ r \in 0..lastRun
      BY DEF Kinds, SparedInv
    <2> QED
      BY <1>3, <2>1, StartRemoval DEF trigger_process_dag
  <1>4. ASSUME NEW r \in 1..lastRun, end(r)
        PROVE  RemovalInv'
    BY <1>4, NoneActivatedBy, SameLoopRemoval DEF end
  <1>5. ASSUME NEW op \in Operations, begin(op)
        PROVE  RemovalInv'
    <2>1. call'.op = op /\ call'.loops = loops_of(op)
      BY <1>5 DEF begin, NoCall
    <2>2. op = "remove_ingestion_dag" =>
              loops_of(op) = cancel_runs({"manual"}) \o <<delete_dag(FALSE)>>
      BY Zenon DEF loops_of
    <2>3. op = "remove_ingestion_dag" => Loops' = RemovalLoops
      <3>1. cancel_runs({"manual"}) \o <<delete_dag(FALSE)>>
              = <<ingestion_loop, spare_loop>> \o <<first_deletion>>
        BY Zenon DEF cancel_runs, ingestion_loop, spare_loop, first_deletion
      <3>2. <<ingestion_loop, spare_loop>> \o <<first_deletion>> = RemovalLoops
        BY Triple, Zenon DEF RemovalLoops
      <3> QED
        BY <2>1, <2>2, <3>1, <3>2, Zenon DEF Loops
    <2> QED
      BY <2>1, <2>3, RemovalStagesDiffer DEF RemovalInv
  <1>6. CASE finish
    <2>1. call'.op = "none"
      BY <1>6 DEF finish, NoCall
    <2> QED
      BY <2>1 DEF RemovalInv
  <1>7. CASE raise
    <2>1. call'.raised
      BY <1>7 DEF raise, NoCall, SparedInv, OpenCall
    <2> QED
      BY <2>1 DEF RemovalInv
  <1> QED
    BY <1>1, <1>2, <1>3, <1>4, <1>5, <1>6, <1>7, QueryRemoval, ActRemoval, DeleteDagRemoval
    DEF Next, Backend

\* When a cancellation ends without an exception, no run it is about that existed when it
\* began, and no run that one of them triggered meanwhile, is active, for any pages, runs and
\* users, and wherever Airflow may stop answering in the calls that raise: the
\* parents are searched before the DAG they feed, and the manual runs that the removal of
\* a schedule skips do not fill a page (services/airflow_client.py,
\* cancel_dataset_runs, cancel_scheduled_runs).
THEOREM CancelledRunsAreOverAlways == Spec => []CancelledRunsAreOver
  <1> DEFINE Inv == SparedInv /\ CancelInv /\ ManualInv /\ RemovalInv
  <1>1. Init => Inv
    <2> SUFFICES ASSUME Init
                 PROVE  ManualInv /\ RemovalInv
      BY CancelInit
    <2>1. Waiting("manual") = {}
      BY DEF Init, Waiting, ActiveRuns
    <2> QED
      BY <2>1, FS_EmptySet, AirflowAssumption DEF ManualInv, RemovalInv, Init, NoCall
  <1>2. Inv /\ [Next]_vars => Inv'
    BY SparedStep, CancelStep, ManualStep, RemovalStep
  <1>3. Inv => CancelledRunsAreOver
    <2> SUFFICES ASSUME Inv, call.op # "none", Loops = <<>>, ~call.raised,
                        NEW r \in Stopped, r <= call.since \/ run[r].parent \in 1..call.since
                 PROVE  ~Active(r)
      BY DEF CancelledRunsAreOver
    <2>1. call.op \in {"cancel_dataset_runs", "remove_ingestion_dag"}
      <3>1. call.op \in OperationKinds
        BY DEF SparedInv, OpenCall
      <3>2. call.op # "purge_dataset_dag_runs"
        BY Zenon DEF Stopped
      <3> QED
        BY <3>1, <3>2 DEF OperationKinds
    <2>2. CASE call.op = "cancel_dataset_runs"
      <3>1. r \in Concerned
        <4>1. Stopped = OfDataset
          BY <2>2, Zenon DEF Stopped
        <4> QED
          BY <4>1 DEF Concerned
      <3>2. OverIn(ingestion_dag) /\ OverIn(process_dag) /\ OverIn(staging_dag)
        BY <2>2, ShortSeqs DEF CancelInv, AllLoops
      <3>3. run[r].kind \in ingestion_dag \cup process_dag \cup staging_dag
        BY <3>1
        DEF Concerned, OfDataset, SparedInv, Kinds, ingestion_dag, process_dag, staging_dag
      <3> QED
        BY <3>1, <3>2, <3>3 DEF OverIn
    <2>3. CASE call.op = "remove_ingestion_dag"
      <3>1. r \in Concerned /\ run[r].kind \in {"ingestion", "scheduled"}
        <4>1. Stopped = {x \in OfDataset : run[x].kind \in {"ingestion", "scheduled"}}
          BY <2>3, Zenon DEF Stopped
        <4> QED
          BY <4>1 DEF Concerned
      <3>2. OverIn(ingestion_dag) /\ OverIn({"scheduled"})
        BY <2>3, RemovalStagesDiffer DEF RemovalInv
      <3> QED
        BY <3>1, <3>2 DEF OverIn, ingestion_dag
    <2> QED
      BY <2>1, <2>2, <2>3
  <1> QED
    BY <1>1, <1>2, <1>3, PTL DEF Spec

-----------------------------------------------------------------------------
(* Purges *)

P2Loops == <<delete(staging_dag), delete(process_dag)>>
P1Loop  == <<delete(process_dag)>>

\* The runs of a DAG that existed when the call began are deleted.
GoneIn(dag) ==
    \A r \in 1..lastRun : r \in OfDataset /\ r <= call.since /\ run[r].kind \in dag =>
        run[r].state = "deleted"

\* The DAGs that a purge has left behind have no history of the dataset left.
PurgeInv ==
    call.op = "purge_dataset_dag_runs" /\ ~call.failed /\ ~call.raised =>
        /\ Loops \in {P2Loops, P1Loop, <<>>}
        /\ Loops # P2Loops => GoneIn(staging_dag)
        /\ Loops = <<>> => GoneIn(process_dag)

\* Deleted runs stay deleted.
LEMMA GoneKept ==
    ASSUME SparedInv, NEW dag, GoneIn(dag), call'.since = call.since,
           lastRun <= lastRun', lastRun' \in Nat,
           \A r \in 1..lastRun' : lastRun < r \/
              /\ run'[r].kind = run[r].kind
              /\ run[r].state = "deleted" => run'[r].state = "deleted",
           call.since <= lastRun
    PROVE  GoneIn(dag)'
  <1>1. ASSUME NEW r \in 1..lastRun', r \in OfDataset', r <= call'.since, run'[r].kind \in dag
        PROVE  run'[r].state = "deleted"
    <2>1. r \in 1..lastRun
      BY <1>1 DEF SparedInv, OpenCall
    <2>2. /\ run'[r].kind = run[r].kind
          /\ run[r].state = "deleted" => run'[r].state = "deleted"
      BY <1>1, <2>1 DEF SparedInv
    <2>3. r \in OfDataset
      BY <1>1, <2>1, <2>2 DEF OfDataset
    <2> QED
      BY <1>1, <2>1, <2>2, <2>3 DEF GoneIn
  <1> QED
    BY <1>1 DEF GoneIn

\* The loops of a purge.
LEMMA PurgeLoop ==
    /\ Head(P2Loops) = delete(staging_dag) /\ Tail(P2Loops) = P1Loop
    /\ Head(P1Loop) = delete(process_dag) /\ Tail(P1Loop) = <<>>
    /\ P2Loops # P1Loop /\ P2Loops # <<>> /\ P1Loop # <<>>
  BY ShortSeqs DEF P2Loops, P1Loop

\* A step that revives no deleted run and ends no loop keeps PurgeInv.
LEMMA SameLoopPurge ==
    ASSUME SparedInv, CancelInv, PurgeInv, call'.op = call.op, call'.since = call.since,
           call'.raised = call.raised,
           call.op = "purge_dataset_dag_runs" /\ ~call'.failed =>
              ~call.failed /\ call'.loops = call.loops,
           lastRun <= lastRun', lastRun' \in Nat,
           \A r \in 1..lastRun' : lastRun < r \/
              /\ run'[r].kind = run[r].kind
              /\ run[r].state = "deleted" => run'[r].state = "deleted"
    PROVE  PurgeInv'
  <1>1. ASSUME NEW dag, GoneIn(dag)
        PROVE  GoneIn(dag)'
    BY <1>1, GoneKept DEF CancelInv
  <1> QED
    BY <1>1 DEF PurgeInv, Loops

\* Each step keeps PurgeInv.
LEMMA PurgeStep ==
    ASSUME SparedInv, CancelInv, PurgeInv, [Next]_vars
    PROVE  PurgeInv'
  <1>1. lastRun \in Nat /\ call \in OpenCall /\ call.since <= lastRun
    BY DEF SparedInv, CancelInv
  <1>2. CASE UNCHANGED vars
    BY <1>1, <1>2, SameLoopPurge DEF vars
  <1>3. ASSUME NEW kind \in Kinds, NEW parent \in Nat, Start(kind, parent)
        PROVE  PurgeInv'
    <2>1. /\ lastRun' = lastRun + 1 /\ UNCHANGED call
          /\ \A r \in 1..lastRun : run'[r] = run[r]
      BY <1>3, StartAppends
    <2>2. \A r \in 1..lastRun' : lastRun < r \/ run'[r] = run[r]
      BY <1>1, <2>1
    <2> QED
      BY <1>1, <2>1, <2>2, SameLoopPurge
  <1>4. ASSUME NEW r \in 1..lastRun, end(r)
        PROVE  PurgeInv'
    <2>1. \A s \in 1..lastRun : /\ run'[s].kind = run[s].kind
                                /\ run[s].state = "deleted" => run'[s].state = "deleted"
      BY <1>4 DEF end, Active, SparedInv
    <2> QED
      BY <1>1, <1>4, <2>1, SameLoopPurge DEF end
  <1>5. ASSUME NEW op \in Operations, begin(op)
        PROVE  PurgeInv'
    <2>1. call'.op = op /\ call'.loops = loops_of(op)
      BY <1>5 DEF begin, NoCall
    <2>2. op = "purge_dataset_dag_runs" => loops_of(op) = P2Loops
      BY Zenon DEF loops_of, P2Loops
    <2> QED
      BY <2>1, <2>2, PurgeLoop DEF PurgeInv, Loops
  <1>6. CASE query
    <2>1. /\ Loops # <<>> /\ UNCHANGED <<run, lastRun>> /\ call'.since = call.since
          /\ call'.op = call.op /\ call'.failed = call.failed
          /\ call'.raised = call.raised /\ ~call.raised
          /\ \/ call'.loops = call.loops
             \/ Matching(Head(Loops)) = {} /\ call'.loops = Tail(Loops)
      BY <1>1, <1>6 DEF query, NextLoop, OpenCall, Loops, SparedInv
    <2>2. CASE call'.loops = call.loops
      BY <1>1, <2>1, <2>2, SameLoopPurge
    <2>3. CASE Matching(Head(Loops)) = {} /\ call'.loops = Tail(Loops)
      <3> SUFFICES ASSUME call.op = "purge_dataset_dag_runs", ~call.failed
                   PROVE  PurgeInv'
        BY <2>1 DEF PurgeInv
      <3>1. ASSUME NEW dag, GoneIn(dag)
            PROVE  GoneIn(dag)'
        BY <1>1, <2>1, <3>1, GoneKept
      <3>2. Head(Loops).action = "delete" => GoneIn(Head(Loops).dag)
        BY <2>3 DEF Matching, GoneIn, Existing
      <3>3. CASE Loops = P2Loops
        <4>1. Loops' = P1Loop /\ GoneIn(staging_dag)
          BY <2>3, <3>2, <3>3, PurgeLoop DEF delete, Loops
        <4> QED
          BY <3>1, <4>1, PurgeLoop DEF PurgeInv
      <3>4. CASE Loops = P1Loop
        <4>1. Loops' = <<>> /\ GoneIn(process_dag) /\ GoneIn(staging_dag)
          BY <2>1, <2>3, <3>2, <3>4, PurgeLoop DEF delete, Loops, PurgeInv
        <4> QED
          BY <3>1, <4>1, PurgeLoop DEF PurgeInv
      <3> QED
        BY <2>1, <3>3, <3>4 DEF PurgeInv
    <2> QED
      BY <2>1, <2>2, <2>3
  <1>7. ASSUME NEW r, act(r)
        PROVE  PurgeInv'
    <2>1. /\ Loops # <<>> /\ r \in 1..lastRun /\ UNCHANGED lastRun
          /\ Done(r, TRUE) \in OpenCall /\ Done(r, FALSE) \in OpenCall
          /\ Done(r, TRUE).op = call.op /\ Done(r, FALSE).op = call.op
          /\ Done(r, TRUE).raised = call.raised /\ Done(r, FALSE).raised = call.raised
          /\ ~call.raised
      BY <1>7, DoneOpen DEF act, SparedInv, OfDataset
    <2>2. \/ UNCHANGED run
          \/ \E state \in States : run' = [run EXCEPT ![r].state = state]
      BY <1>7 DEF act, States
    <2>3. \A s \in 1..lastRun : run'[s].kind = run[s].kind
      BY <2>2, <2>1 DEF SparedInv
    <2>4. \A s \in 1..lastRun : run[s].state = "deleted" => run'[s].state = "deleted"
      BY <1>7, <2>1 DEF act, SparedInv
    <2>5. CASE call' = Done(r, TRUE)
      <3>1. /\ call'.op = call.op /\ call'.since = call.since /\ call'.loops = call.loops
            /\ call'.failed = call.failed /\ call'.raised = call.raised
        BY <1>1, <2>1, <2>5, DoneMeans
      <3> QED
        BY <1>1, <2>1, <2>3, <2>4, <3>1, SameLoopPurge
    <2>6. CASE call' # Done(r, TRUE)
      <3>1. call' = [Done(r, FALSE) EXCEPT !.failed = @ \/ Head(Loops).action = "delete"]
        BY <1>7, <2>6 DEF act
      <3>2. /\ call'.op = call.op
            /\ call'.failed = (call.failed \/ Head(Loops).action = "delete")
        BY <1>1, <2>1, <3>1, DoneMeans DEF OpenCall
      <3>3. call.op = "purge_dataset_dag_runs" /\ ~call.failed => Head(Loops).action = "delete"
        BY <2>1, PurgeLoop DEF PurgeInv, delete
      <3> QED
        BY <3>2, <3>3 DEF PurgeInv
    <2> QED
      BY <2>5, <2>6
  <1>8. CASE delete_ingestion_dag
    <2>1. call'.op = call.op /\ call'.failed = call.failed /\ ~call.raised
      BY <1>1, <1>8 DEF delete_ingestion_dag, NextLoop, OpenCall, SparedInv
    <2>2. ~(call.op = "purge_dataset_dag_runs" /\ ~call.failed)
      BY <1>8, <2>1, PurgeLoop DEF delete_ingestion_dag, PurgeInv, delete
    <2> QED
      BY <2>1, <2>2 DEF PurgeInv
  <1>9. CASE finish
    <2>1. call'.op = "none"
      BY <1>9 DEF finish, NoCall
    <2> QED
      BY <2>1 DEF PurgeInv
  <1>10. ASSUME NEW r \in 1..lastRun, trigger_process_dag(r)
        PROVE  PurgeInv'
    <2>1. "scheduled" \in Kinds /\ r \in Nat
      BY <1>1 DEF Kinds
    <2> QED
      BY <1>3, <1>10, <2>1 DEF trigger_process_dag
  <1>11. CASE raise
    <2>1. call'.raised
      BY <1>1, <1>11 DEF raise, NoCall, OpenCall
    <2> QED
      BY <2>1 DEF PurgeInv
  <1> QED
    BY <1>2, <1>3, <1>4, <1>5, <1>6, <1>7, <1>8, <1>9, <1>10, <1>11 DEF Next, Backend, trigger

\* A purge whose queries and deletions succeed leaves nothing of what existed when it began in the
\* history of the dataset, however many pages it takes and whatever is started meanwhile
\* (services/airflow_client.py, purge_dataset_dag_runs).
THEOREM PurgedHistoryAlways == Spec => []PurgedHistory
  <1>1. Init => PurgeInv
    BY DEF Init, NoCall, PurgeInv
  <1>2. SparedInv /\ CancelInv /\ PurgeInv /\ [Next]_vars =>
            (SparedInv /\ CancelInv /\ PurgeInv)'
    BY SparedStep, CancelStep, PurgeStep
  <1>3. SparedInv /\ CancelInv /\ PurgeInv => PurgedHistory
    <2> SUFFICES ASSUME SparedInv, CancelInv, PurgeInv, ~call.failed, ~call.raised, Loops = <<>>,
                        call.op = "purge_dataset_dag_runs",
                        NEW r \in (1..call.since) \cap OfDataset, run[r].kind # "ingestion"
                 PROVE  run[r].state = "deleted"
      BY DEF PurgedHistory
    <2>1. GoneIn(staging_dag) /\ GoneIn(process_dag)
      BY PurgeLoop DEF PurgeInv
    <2>2. r \in 1..lastRun /\ run[r].kind \in staging_dag \cup process_dag
      BY DEF OfDataset, SparedInv, Kinds, staging_dag, process_dag
    <2> QED
      BY <2>1, <2>2 DEF GoneIn
  <1> QED
    BY <1>1, <1>2, <1>3, CancelInit, PTL DEF Spec
=============================================================================
