------------------------- MODULE TableTransferProofs -------------------------
(***************************************************************************)
(* What TableTransformation and TableTransfer keep for every source,       *)
(* configuration, rule and number of datasets, runs and tables.            *)
(***************************************************************************)
EXTENDS TableTransfer, TLAPS

-----------------------------------------------------------------------------
(* Types *)

Joins == {None} \cup [dataset : Datasets, columns : SUBSET STRING]

Transformations ==
    [columns : SUBSET STRING, excluded : SUBSET STRING,
     names : UNION {[S -> STRING] : S \in SUBSET STRING}, xy : BOOLEAN, join : Joins]

StagingTables == UNION {Ingested[d] : d \in Datasets}

Run == [phase : {"idle", "asked", "reflected", "success", "failed"}, present : BOOLEAN,
        staging : StagingTables \cup {None}, config : Transformations \cup {None},
        target : Datasets \cup {None}, rerun : BOOLEAN]

TransformationTypeOK ==
    /\ submitted \subseteq Datasets /\ live \subseteq Datasets
    /\ named \subseteq Datasets /\ retrieved \subseteq Datasets
    /\ staging \in [Datasets -> StagingTables \cup {None}]
    /\ config \in [Datasets -> Transformations \cup {None}]
    /\ final = [d \in Datasets |-> final[d]]
    /\ runs \in [Datasets -> [Kinds -> Run]]

\* No run is one of the runs.
LEMMA NoRunTyped == NoRun \in Run
  BY DEF NoRun, Run

\* A staging table has the columns of a source.
LEMMA ColumnsTyped ==
    ASSUME NEW t \in StagingTables
    PROVE  Columns(t) \subseteq STRING
  <1>1. PICK d \in Datasets : \E s \in Sources[d] : t \in ingest_into_postgis(s)
    BY DEF StagingTables, Ingested
  <1> PICK s \in Sources[d] : t \in ingest_into_postgis(s)
    BY <1>1
  <1>2. t.source = s
    BY DEF ingest_into_postgis, Loaded
  <1>3. IsSource(s)
    BY <1>1, TransformationAssumption
  <1> QED
    BY <1>2, <1>3 DEF IsSource, Columns

\* What an ingestion makes of a source is a staging table.
LEMMA IngestedTyped ==
    ASSUME NEW d \in Datasets, NEW t \in Ingested[d]
    PROVE  t \in StagingTables
  BY DEF StagingTables

\* What a user saves is a configuration.
LEMMA EditTyped ==
    ASSUME TransformationTypeOK, NEW u \in Users, NEW d \in Datasets, NEW choice \in Choices[d],
           NEW t \in Ingested[d], edit_staging_metadata(u, d, choice, Columns(t))
    PROVE  config' \in [Datasets -> Transformations \cup {None}]
  <1> DEFINE listed == Columns(t)
             names == [c \in listed |-> IF choice.rename # None /\ choice.rename[1] = c
                                        THEN choice.rename[2] ELSE c]
  <1>1. choice \in Choice
    BY TransformationAssumption
  <1>2. t \in StagingTables
    BY IngestedTyped
  <1>3. listed \subseteq STRING
    BY <1>2, ColumnsTyped
  <1>4. names \in [listed -> STRING]
    BY <1>1, <1>3 DEF Choice
  <1>5. names \in UNION {[S -> STRING] : S \in SUBSET STRING}
    BY <1>3, <1>4
  <1>6. /\ choice.excluded \cap listed \in SUBSET STRING
        /\ choice.xy \in BOOLEAN /\ choice.join \in Joins
    BY <1>1, <1>3 DEF Choice, Joins
  <1>7. config' = [config EXCEPT ![d] =
                     [columns |-> listed, excluded |-> choice.excluded \cap listed, names |-> names,
                      xy |-> choice.xy, join |-> choice.join]]
    BY DEF edit_staging_metadata
  <1> HIDE DEF listed, names
  <1>8. [columns |-> listed, excluded |-> choice.excluded \cap listed, names |-> names,
         xy |-> choice.xy, join |-> choice.join] \in Transformations
    BY <1>3, <1>5, <1>6 DEF Transformations
  <1> QED
    BY <1>7, <1>8 DEF TransformationTypeOK

\* Each dataset has a run of each kind.
LEMMA RunTyped ==
    ASSUME TransformationTypeOK, NEW d \in Datasets, NEW k \in Kinds
    PROVE  runs[d][k] \in Run
  BY DEF TransformationTypeOK

\* One run changes, the others are left.
LEMMA RunSet ==
    ASSUME TransformationTypeOK, NEW d \in Datasets, NEW k \in Kinds, NEW r \in Run,
           runs' = [runs EXCEPT ![d][k] = r]
    PROVE  runs' \in [Datasets -> [Kinds -> Run]]
  BY DEF TransformationTypeOK

\* What is left of a run that fails.
LEMMA FailedTyped ==
    ASSUME TransformationTypeOK, NEW d \in Datasets, NEW k \in Kinds, Failed(d, k)
    PROVE  runs' \in [Datasets -> [Kinds -> Run]]
  <1>1. [NoRun EXCEPT !.phase = IF k = "manual" THEN "failed" ELSE "success"] \in Run
    BY NoRunTyped DEF Run
  <1> QED
    BY <1>1, RunSet DEF Failed

\* The types are right at first.
LEMMA TypeInit == TransformationInit => TransformationTypeOK
  <1> SUFFICES ASSUME TransformationInit PROVE TransformationTypeOK
    OBVIOUS
  <1>1. runs \in [Datasets -> [Kinds -> Run]]
    BY NoRunTyped DEF TransformationInit
  <1> QED
    BY <1>1 DEF TransformationInit, TransformationTypeOK

\* Each step keeps the types, whatever tables are locked.
LEMMA TypeStep ==
    ASSUME TransformationTypeOK, NEW L, TransformationNext(L)
    PROVE  TransformationTypeOK'
  <1>1. ASSUME NEW d \in Datasets, run_staging(d)
        PROVE  TransformationTypeOK'
    BY <1>1, IngestedTyped DEF run_staging, TransformationTypeOK
  <1>2. ASSUME NEW d \in Datasets, edit_staging(d)
        PROVE  TransformationTypeOK'
    <2>1. [runs[d]["manual"] EXCEPT !.present = FALSE] \in Run
      BY RunTyped DEF Run, Kinds
    <2>2. runs' \in [Datasets -> [Kinds -> Run]]
      BY <1>2, <2>1 DEF edit_staging, TransformationTypeOK, Kinds
    <2> QED
      BY <1>2, <2>2 DEF edit_staging, TransformationTypeOK
  <1>3. ASSUME NEW d \in Datasets, trigger_refresh(d)
        PROVE  TransformationTypeOK'
    <2>1. PICK t \in Ingested[d], x \in Datasets \cup {None} :
             runs' = [runs EXCEPT ![d]["scheduled"] = Asked(t, config[d], x, FALSE)]
      <3>1. live \cap named \subseteq Datasets
        BY DEF TransformationTypeOK
      <3> QED
        BY <1>3, <3>1 DEF trigger_refresh
    <2>2. Asked(t, config[d], x, FALSE) \in Run
      BY IngestedTyped DEF Asked, Run, TransformationTypeOK
    <2>3. runs' \in [Datasets -> [Kinds -> Run]]
      BY <2>1, <2>2, RunSet DEF Kinds
    <2> QED
      BY <1>3, <2>3 DEF trigger_refresh, TransformationTypeOK
  <1>4. ASSUME NEW d \in Datasets, delete_dataset(d, L)
        PROVE  TransformationTypeOK'
    <2>1. [k \in Kinds |-> NoRun] \in [Kinds -> Run]
      BY NoRunTyped
    <2> QED
      BY <1>4, <2>1 DEF delete_dataset, TransformationTypeOK
  <1>5. ASSUME NEW d \in Datasets, dag_failure_callback(d, L)
        PROVE  TransformationTypeOK'
    <2>1. runs' \in [Datasets -> [Kinds -> Run]]
      BY <1>5, RunSet, NoRunTyped DEF dag_failure_callback, Kinds
    <2> QED
      BY <1>5, <2>1 DEF dag_failure_callback, TransformationTypeOK
  <1>6. ASSUME NEW d \in Datasets, NEW u \in Users, change_access(d, u)
        PROVE  TransformationTypeOK'
    BY <1>6 DEF change_access, TransformationTypeOK
  <1>7. ASSUME NEW d \in Datasets, NEW u \in Users, process_staging_data(u, d)
        PROVE  TransformationTypeOK'
    <2>1. JoinedBy(config[d]) \in Datasets \cup {None}
      BY DEF TransformationTypeOK, JoinedBy, JoinOf, Transformations, Joins
    <2>2. Asked(None, config[d], JoinedBy(config[d]), d \in retrieved) \in Run
      BY <2>1 DEF Asked, Run, TransformationTypeOK
    <2>3. runs' \in [Datasets -> [Kinds -> Run]]
      BY <1>7, <2>2, RunSet DEF process_staging_data, Kinds
    <2> QED
      BY <1>7, <2>3 DEF process_staging_data, TransformationTypeOK
  <1>8. ASSUME NEW d \in Datasets, NEW u \in Users, NEW choice \in Choices[d],
               NEW t \in Ingested[d], edit_staging_metadata(u, d, choice, Columns(t))
        PROVE  TransformationTypeOK'
    BY <1>8, EditTyped DEF edit_staging_metadata, TransformationTypeOK
  <1>9. ASSUME NEW d \in Datasets, NEW k \in Kinds, reflect_tables(d, k, L)
        PROVE  TransformationTypeOK'
    <2>1. runs' \in [Datasets -> [Kinds -> Run]]
      <3>1. [runs[d][k] EXCEPT !.phase = "reflected"] \in Run
        BY RunTyped DEF Run
      <3>2. CASE runs' = [runs EXCEPT ![d][k].phase = "reflected"]
        BY <3>1, <3>2 DEF TransformationTypeOK
      <3>3. CASE Failed(d, k)
        BY <3>3, FailedTyped
      <3> QED
        BY <1>9, <3>2, <3>3 DEF reflect_tables
    <2>2. final' = [e \in Datasets |-> final'[e]]
      BY <1>9 DEF reflect_tables, TransformationTypeOK
    <2> QED
      BY <1>9, <2>1, <2>2 DEF reflect_tables, TransformationTypeOK
  <1>10. ASSUME NEW d \in Datasets, NEW k \in Kinds, transform_staging_to_final(d, k, L)
         PROVE  TransformationTypeOK'
    <2>1. [NoRun EXCEPT !.phase = "success"] \in Run
      BY NoRunTyped DEF Run
    <2>2. runs' \in [Datasets -> [Kinds -> Run]]
      BY <1>10, <2>1, RunSet, FailedTyped DEF transform_staging_to_final
    <2>3. final' = [e \in Datasets |-> final'[e]]
      BY <1>10 DEF transform_staging_to_final, TransformationTypeOK
    <2>4. staging' \in [Datasets -> StagingTables \cup {None}]
      BY <1>10 DEF transform_staging_to_final, TransformationTypeOK
    <2> QED
      BY <1>10, <2>2, <2>3, <2>4 DEF transform_staging_to_final, TransformationTypeOK
  <1>11. ASSUME NEW d \in Datasets, NEW k \in Kinds, dag_success_callback(d, k)
         PROVE  TransformationTypeOK'
    <2>1. runs' \in [Datasets -> [Kinds -> Run]]
      BY <1>11, RunSet, NoRunTyped DEF dag_success_callback
    <2> QED
      BY <1>11, <2>1 DEF dag_success_callback, TransformationTypeOK
  <1> QED
    BY <1>1, <1>2, <1>3, <1>4, <1>5, <1>6, <1>7, <1>8, <1>9, <1>10, <1>11
    DEF TransformationNext

-----------------------------------------------------------------------------
(* Copies *)

\* What a dump read is of one table, and the table it locks stays that one.
DumpInv ==
    /\ writes \in Nat
    /\ \A d \in Datasets : final[d] # None => final[d].number \in Nat
    /\ dump \in [phase : {"idle", "locked", "defined", "done"}, dataset : Datasets \cup {None},
                defined_by : Nat, number : Nat]
    /\ dump.phase \in {"locked", "defined"} => dump.dataset \in Datasets
    /\ dump.phase = "defined" => final[dump.dataset] # None
                                /\ final[dump.dataset].number = dump.defined_by
    /\ dump.phase = "done" => dump.number = dump.defined_by
    /\ RestoredWasPublished

\* Which steps touch the final tables, and how.
LEMMA FinalStep ==
    ASSUME NEW L, TransformationNext(L)
    PROVE  \/ UNCHANGED <<final, writes>>
           \/ \E d \in Datasets \ L :
                 /\ final' = [final EXCEPT ![d] = None]
                 /\ UNCHANGED writes
           \/ \E d \in Datasets \ L, k \in Kinds :
                 \/ /\ succeeds(d, runs[d][k]) /\ runs[d][k].phase = "reflected"
                    /\ final' = [final EXCEPT ![d] = Transformed(d, runs[d][k])]
                    /\ writes' = writes + 1
                 \/ /\ final' = [final EXCEPT ![d] = rolled_back(d)]
                    /\ UNCHANGED writes
  <1> DEFINE Goal ==
           \/ UNCHANGED <<final, writes>>
           \/ \E d \in Datasets \ L :
                 /\ final' = [final EXCEPT ![d] = None]
                 /\ UNCHANGED writes
           \/ \E d \in Datasets \ L, k \in Kinds :
                 \/ /\ succeeds(d, runs[d][k]) /\ runs[d][k].phase = "reflected"
                    /\ final' = [final EXCEPT ![d] = Transformed(d, runs[d][k])]
                    /\ writes' = writes + 1
                 \/ /\ final' = [final EXCEPT ![d] = rolled_back(d)]
                    /\ UNCHANGED writes
  <1>1. ASSUME NEW d \in Datasets,
               run_staging(d) \/ edit_staging(d) \/ trigger_refresh(d)
        PROVE  Goal
    BY <1>1 DEF run_staging, edit_staging, trigger_refresh
  <1>2. ASSUME NEW d \in Datasets, delete_dataset(d, L) \/ dag_failure_callback(d, L)
        PROVE  Goal
    <2>1. d \in Datasets \ L /\ final' = [final EXCEPT ![d] = None] /\ UNCHANGED writes
      BY <1>2 DEF delete_dataset, dag_failure_callback
    <2> QED
      BY <2>1
  <1>3. ASSUME NEW d \in Datasets, NEW u \in Users,
               change_access(d, u) \/ process_staging_data(u, d)
        PROVE  Goal
    BY <1>3 DEF change_access, process_staging_data
  <1>4. ASSUME NEW d \in Datasets, NEW u \in Users, NEW choice \in Choices[d],
               NEW t \in Ingested[d], edit_staging_metadata(u, d, choice, Columns(t))
        PROVE  Goal
    <2>1. UNCHANGED <<final, writes>>
      BY <1>4 DEF edit_staging_metadata
    <2> QED
      BY <2>1
  <1>5. ASSUME NEW d \in Datasets, NEW k \in Kinds, reflect_tables(d, k, L)
        PROVE  Goal
    <2>1. UNCHANGED writes
      BY <1>5 DEF reflect_tables
    <2>2. \/ d \notin L /\ final' = [final EXCEPT ![d] = None]
          \/ UNCHANGED final
      BY <1>5 DEF reflect_tables
    <2> QED
      BY <2>1, <2>2
  <1>6. ASSUME NEW d \in Datasets, NEW k \in Kinds, transform_staging_to_final(d, k, L)
        PROVE  Goal
    <2>1. d \in Datasets \ L /\ runs[d][k].phase = "reflected"
      BY <1>6 DEF transform_staging_to_final
    <2>2. \/ /\ succeeds(d, runs[d][k])
             /\ final' = [final EXCEPT ![d] = Transformed(d, runs[d][k])]
             /\ writes' = writes + 1
          \/ /\ final' = [final EXCEPT ![d] = rolled_back(d)]
             /\ UNCHANGED writes
      BY <1>6 DEF transform_staging_to_final
    <2> QED
      BY <2>1, <2>2
  <1>7. ASSUME NEW d \in Datasets, NEW k \in Kinds, dag_success_callback(d, k)
        PROVE  Goal
    BY <1>7 DEF dag_success_callback
  <1> HIDE DEF Goal
  <1>8. Goal
    BY <1>1, <1>2, <1>3, <1>4, <1>5, <1>6, <1>7 DEF TransformationNext
  <1> QED
    BY <1>8 DEF Goal

\* No step replaces or drops a table that is locked (LOCK TABLE ... IN ACCESS SHARE
\* MODE, table_transfer.py).
LEMMA LockedKept ==
    ASSUME TransformationTypeOK, NEW L, TransformationNext(L), NEW e \in Datasets, e \in L
    PROVE  final'[e] = final[e]
  <1>1. \A v : \A d \in Datasets \ L : final' = [final EXCEPT ![d] = v] => final'[e] = final[e]
    BY DEF TransformationTypeOK
  <1> QED
    BY <1>1, FinalStep

\* Every table has the number of its write.
LEMMA NumberedStep ==
    ASSUME TransformationTypeOK, NEW L, TransformationNext(L), writes \in Nat,
           \A d \in Datasets : final[d] # None => final[d].number \in Nat
    PROVE  /\ writes' \in Nat
           /\ \A d \in Datasets : final'[d] # None => final'[d].number \in Nat
  <1>1. \A v : \A d, e \in Datasets :
           final' = [final EXCEPT ![d] = v] => final'[e] = IF e = d THEN v ELSE final[e]
    BY DEF TransformationTypeOK
  <1>2. \A r : \A d \in Datasets : Transformed(d, r).number = writes + 1
    BY DEF Transformed
  <1>3. \A d \in Datasets : rolled_back(d) = final[d]
    BY DEF rolled_back
  <1>4. CASE UNCHANGED <<final, writes>>
    BY <1>4
  <1>5. ASSUME NEW d \in Datasets, final' = [final EXCEPT ![d] = None], UNCHANGED writes
        PROVE  /\ writes' \in Nat
               /\ \A e \in Datasets : final'[e] # None => final'[e].number \in Nat
    BY <1>1, <1>5
  <1>6. ASSUME NEW d \in Datasets, NEW k \in Kinds,
               final' = [final EXCEPT ![d] = Transformed(d, runs[d][k])], writes' = writes + 1
        PROVE  /\ writes' \in Nat
               /\ \A e \in Datasets : final'[e] # None => final'[e].number \in Nat
    BY <1>1, <1>2, <1>6
  <1>7. ASSUME NEW d \in Datasets, final' = [final EXCEPT ![d] = rolled_back(d)],
               UNCHANGED writes
        PROVE  /\ writes' \in Nat
               /\ \A e \in Datasets : final'[e] # None => final'[e].number \in Nat
    BY <1>1, <1>3, <1>7
  <1> QED
    BY <1>4, <1>5, <1>6, <1>7, FinalStep

\* The types are right in every reachable state.
LEMMA CopiesTyped == CopiesSpec => []TransformationTypeOK
  <1>1. CopiesInit => TransformationTypeOK
    BY TypeInit DEF CopiesInit
  <1>2. TransformationTypeOK /\ [CopiesNext]_<<tableVars, transferVars>>
          => TransformationTypeOK'
    <2> SUFFICES ASSUME TransformationTypeOK, [CopiesNext]_<<tableVars, transferVars>>
                 PROVE  TransformationTypeOK'
      OBVIOUS
    <2>1. CASE UNCHANGED tableVars
      BY <2>1 DEF TransformationTypeOK, tableVars
    <2>2. CASE TransformationNext(locked)
      BY <2>2, TypeStep
    <2> QED
      BY <2>1, <2>2 DEF CopiesNext, dump_table, read_definition, copy_rows, restore_table
  <1> QED
    BY <1>1, <1>2, PTL DEF CopiesSpec

\* What is restored on another platform is one published table, its columns and its
\* rows of the same write, however runs replaced the table while it was read and
\* wherever the stream was cut (table_transfer.py).
THEOREM RestoredWasPublishedAlways == CopiesSpec => []RestoredWasPublished
  <1>1. CopiesInit => DumpInv
    BY DEF CopiesInit, TransferInit, TransformationInit, NoDump, DumpInv, RestoredWasPublished
  <1>2. TransformationTypeOK /\ DumpInv /\ [CopiesNext]_<<tableVars, transferVars>> => DumpInv'
    <2> SUFFICES ASSUME TransformationTypeOK, DumpInv,
                        [CopiesNext]_<<tableVars, transferVars>>
                 PROVE  DumpInv'
      OBVIOUS
    <2>1. CASE TransformationNext(locked) /\ UNCHANGED transferVars
      <3>1. dump.phase = "defined" => final'[dump.dataset] = final[dump.dataset]
        BY <2>1, LockedKept DEF DumpInv, locked
      <3>2. /\ writes' \in Nat
            /\ \A d \in Datasets : final'[d] # None => final'[d].number \in Nat
        BY <2>1, NumberedStep DEF DumpInv
      <3> QED
        BY <2>1, <3>1, <3>2 DEF DumpInv, transferVars, RestoredWasPublished
    <2>2. ASSUME NEW d \in Exported, dump_table(d)
          PROVE  DumpInv'
      BY <2>2, ExportedAssumption DEF dump_table, DumpInv, NoDump, tableVars, RestoredWasPublished
    <2>3. CASE read_definition
      BY <2>3 DEF read_definition, DumpInv, NoDump, tableVars, RestoredWasPublished
    <2>4. CASE copy_rows
      BY <2>4 DEF copy_rows, DumpInv, NoDump, tableVars, RestoredWasPublished
    <2>5. ASSUME NEW truncated \in BOOLEAN, restore_table(truncated)
          PROVE  DumpInv'
      BY <2>5 DEF restore_table, DumpInv, NoDump, tableVars, RestoredWasPublished
    <2>6. CASE UNCHANGED <<tableVars, transferVars>>
      BY <2>6 DEF DumpInv, tableVars, transferVars, RestoredWasPublished
    <2> QED
      BY <2>1, <2>2, <2>3, <2>4, <2>5, <2>6 DEF CopiesNext
  <1>3. DumpInv => RestoredWasPublished
    BY DEF DumpInv
  <1> QED
    BY <1>1, <1>2, <1>3, CopiesTyped, PTL DEF CopiesSpec

-----------------------------------------------------------------------------
(* Joins *)

\* The join of a configuration, that of a run and that of a table were each asked for
\* by someone who could read the dataset joined.
AccessInv ==
    /\ \A d \in Datasets : JoinedBy(config[d]) # None => <<d, JoinedBy(config[d])>> \in vetted
    /\ \A d \in Datasets, k \in Kinds :
          runs[d][k].target # None => <<d, runs[d][k].target>> \in vetted
    /\ JoinVetted

\* Whoever resolve_join_target lets through is vetted.
LEMMA ResolvedIsVetted ==
    ASSUME NEW u \in Users, NEW d \in Datasets, NEW join,
           resolve_join_target(u, join), join # None
    PROVE  <<d, join.dataset>> \in Vetting(u, d, join)
  <1>1. compute_effective_access(u, join.dataset) \in {"ADMIN", "OWNER", "WRITE", "READ"}
    BY DEF resolve_join_target, load_authorized_integrity_link, Satisfying
  <1> QED
    BY <1>1 DEF Vetting

\* A step that writes no configuration and asks for no run disturbs nothing of it, as
\* long as those who are vetted stay so.
LEMMA AccessFrame ==
    ASSUME AccessInv, TransformationTypeOK, vetted \subseteq vetted',
           \A d \in Datasets :
              /\ config'[d] = config[d] \/ JoinedBy(config'[d]) = None
                 \/ <<d, JoinedBy(config'[d])>> \in vetted'
              /\ \A k \in Kinds : \/ runs'[d][k].target = runs[d][k].target
                                  \/ runs'[d][k].target = None
                                  \/ <<d, runs'[d][k].target>> \in vetted'
              /\ \/ final'[d] = final[d] \/ final'[d] = None
                 \/ \E k \in Kinds : final'[d].joined = runs[d][k].target
                 \/ final'[d].joined = None
    PROVE  AccessInv'
  <1>1. ASSUME NEW d \in Datasets, JoinedBy(config'[d]) # None
        PROVE  <<d, JoinedBy(config'[d])>> \in vetted'
    BY <1>1 DEF AccessInv
  <1>2. ASSUME NEW d \in Datasets, NEW k \in Kinds, runs'[d][k].target # None
        PROVE  <<d, runs'[d][k].target>> \in vetted'
    BY <1>2 DEF AccessInv
  <1>3. ASSUME NEW d \in Datasets, final'[d] # None, final'[d].joined # None
        PROVE  <<d, final'[d].joined>> \in vetted'
    BY <1>3 DEF AccessInv, JoinVetted
  <1> QED
    BY <1>1, <1>2, <1>3 DEF AccessInv, JoinVetted

\* Each step keeps AccessInv.
LEMMA AccessStep ==
    ASSUME AccessInv, TransformationTypeOK, NEW L, TransformationNext(L)
    PROVE  AccessInv'
  <1>1. ASSUME NEW d \in Datasets, run_staging(d)
        PROVE  AccessInv'
    BY <1>1, AccessFrame DEF run_staging
  <1>2. ASSUME NEW d \in Datasets, edit_staging(d)
        PROVE  AccessInv'
    <2>1. \A e \in Datasets : config'[e] = config[e] \/ JoinedBy(config'[e]) = None
      BY <1>2 DEF edit_staging, TransformationTypeOK, JoinedBy, JoinOf
    <2>2. \A e \in Datasets, k \in Kinds : runs'[e][k].target = runs[e][k].target
      <3>1. [runs[d]["manual"] EXCEPT !.present = FALSE].target = runs[d]["manual"].target
        BY RunTyped DEF Run, Kinds
      <3> QED
        BY <1>2, <3>1 DEF edit_staging, TransformationTypeOK, Kinds
    <2> QED
      BY <1>2, <2>1, <2>2, AccessFrame DEF edit_staging
  <1>3. ASSUME NEW d \in Datasets, trigger_refresh(d)
        PROVE  AccessInv'
    <2>1. PICK t \in Ingested[d], x \in {JoinedBy(config[d]), None} :
             runs' = [runs EXCEPT ![d]["scheduled"] = Asked(t, config[d], x, FALSE)]
      BY <1>3 DEF trigger_refresh
    <2>2. Asked(t, config[d], x, FALSE).target = x
      BY DEF Asked
    <2>3. \A e \in Datasets, k \in Kinds :
             runs'[e][k].target = runs[e][k].target \/ (runs'[e][k].target = x /\ e = d)
      BY <2>1, <2>2 DEF TransformationTypeOK, Kinds
    <2>4. x = None \/ <<d, x>> \in vetted
      BY DEF AccessInv
    <2> QED
      BY <1>3, <2>3, <2>4, AccessFrame DEF trigger_refresh
  <1>4. ASSUME NEW d \in Datasets, delete_dataset(d, L)
        PROVE  AccessInv'
    <2>1. \A e \in Datasets : config'[e] = config[e] \/ JoinedBy(config'[e]) = None
      BY <1>4 DEF delete_dataset, TransformationTypeOK, JoinedBy, JoinOf
    <2>2. \A e \in Datasets, k \in Kinds :
             runs'[e][k].target = runs[e][k].target \/ runs'[e][k].target = None
      BY <1>4 DEF delete_dataset, TransformationTypeOK, NoRun
    <2>3. \A e \in Datasets : final'[e] = final[e] \/ final'[e] = None
      BY <1>4 DEF delete_dataset, TransformationTypeOK
    <2> QED
      BY <1>4, <2>1, <2>2, <2>3, AccessFrame DEF delete_dataset
  <1>5. ASSUME NEW d \in Datasets, dag_failure_callback(d, L)
        PROVE  AccessInv'
    <2>1. \A e \in Datasets, k \in Kinds :
             runs'[e][k].target = runs[e][k].target \/ runs'[e][k].target = None
      BY <1>5 DEF dag_failure_callback, TransformationTypeOK, NoRun, Kinds
    <2>2. \A e \in Datasets : final'[e] = final[e] \/ final'[e] = None
      BY <1>5 DEF dag_failure_callback, TransformationTypeOK
    <2> QED
      BY <1>5, <2>1, <2>2, AccessFrame DEF dag_failure_callback
  <1>6. ASSUME NEW d \in Datasets, NEW u \in Users, change_access(d, u)
        PROVE  AccessInv'
    BY <1>6, AccessFrame DEF change_access
  <1>7. ASSUME NEW d \in Datasets, NEW u \in Users, process_staging_data(u, d)
        PROVE  AccessInv'
    <2> DEFINE x == JoinedBy(config[d])
    <2>1. Asked(None, config[d], x, d \in retrieved).target = x
      BY DEF Asked
    <2>2. \A e \in Datasets, k \in Kinds :
             runs'[e][k].target = runs[e][k].target \/ (runs'[e][k].target = x /\ e = d)
      BY <1>7, <2>1 DEF process_staging_data, TransformationTypeOK, Kinds
    <2>3. x = None \/ <<d, x>> \in vetted'
      BY <1>7 DEF process_staging_data, AccessInv
    <2> HIDE DEF x
    <2> QED
      BY <1>7, <2>2, <2>3, AccessFrame DEF process_staging_data
  <1>8. ASSUME NEW d \in Datasets, NEW u \in Users, NEW choice \in Choices[d],
               NEW t \in Ingested[d], edit_staging_metadata(u, d, choice, Columns(t))
        PROVE  AccessInv'
    <2>1. vetted' = vetted \cup Vetting(u, d, choice.join) /\ UNCHANGED <<runs, final>>
      BY <1>8 DEF edit_staging_metadata
    <2>2. config'[d].join = choice.join
      BY <1>8 DEF edit_staging_metadata, TransformationTypeOK
    <2>3. JoinedBy(config'[d]) = None \/ <<d, JoinedBy(config'[d])>> \in vetted'
      <3>1. resolve_join_target(u, choice.join)
        BY <1>8 DEF edit_staging_metadata
      <3> QED
        BY <2>1, <2>2, <3>1, ResolvedIsVetted DEF JoinedBy, JoinOf
    <2>4. \A e \in Datasets : e # d => config'[e] = config[e]
      BY <1>8 DEF edit_staging_metadata, TransformationTypeOK
    <2> QED
      BY <2>1, <2>3, <2>4, AccessFrame
  <1>9. ASSUME NEW d \in Datasets, NEW k \in Kinds, reflect_tables(d, k, L)
        PROVE  AccessInv'
    <2>1. \A e \in Datasets, l \in Kinds :
             runs'[e][l].target = runs[e][l].target \/ runs'[e][l].target = None
      <3>1. [runs[d][k] EXCEPT !.phase = "reflected"].target = runs[d][k].target
        BY RunTyped DEF Run
      <3>2. CASE runs' = [runs EXCEPT ![d][k].phase = "reflected"]
        BY <3>1, <3>2 DEF TransformationTypeOK
      <3>3. CASE Failed(d, k)
        BY <3>3 DEF Failed, NoRun, TransformationTypeOK
      <3> QED
        BY <1>9, <3>2, <3>3 DEF reflect_tables
    <2>2. \A e \in Datasets : final'[e] = final[e] \/ final'[e] = None
      BY <1>9 DEF reflect_tables, TransformationTypeOK
    <2> QED
      BY <1>9, <2>1, <2>2, AccessFrame DEF reflect_tables
  <1>10. ASSUME NEW d \in Datasets, NEW k \in Kinds, transform_staging_to_final(d, k, L)
         PROVE  AccessInv'
    <2>1. \A e \in Datasets, l \in Kinds :
             runs'[e][l].target = runs[e][l].target \/ runs'[e][l].target = None
      <3>1. CASE runs' = [runs EXCEPT ![d][k] = [NoRun EXCEPT !.phase = "success"]]
        BY <3>1 DEF NoRun, TransformationTypeOK
      <3>2. CASE Failed(d, k)
        BY <3>2 DEF Failed, NoRun, TransformationTypeOK
      <3> QED
        BY <1>10, <3>1, <3>2 DEF transform_staging_to_final
    <2>2. Transformed(d, runs[d][k]).joined \in {None, runs[d][k].target}
      BY DEF Transformed
    <2>3. /\ \A e \in Datasets : e # d => final'[e] = final[e]
          /\ final'[d] = Transformed(d, runs[d][k]) \/ final'[d] = final[d]
      BY <1>10 DEF transform_staging_to_final, rolled_back, TransformationTypeOK
    <2>4. UNCHANGED <<config, vetted>>
      BY <1>10 DEF transform_staging_to_final
    <2> QED
      BY <2>1, <2>2, <2>3, <2>4, AccessFrame
  <1>11. ASSUME NEW d \in Datasets, NEW k \in Kinds, dag_success_callback(d, k)
         PROVE  AccessInv'
    <2>1. \A e \in Datasets, l \in Kinds :
             runs'[e][l].target = runs[e][l].target \/ runs'[e][l].target = None
      BY <1>11 DEF dag_success_callback, TransformationTypeOK, NoRun
    <2> QED
      BY <1>11, <2>1, AccessFrame DEF dag_success_callback
  <1> QED
    BY <1>1, <1>2, <1>3, <1>4, <1>5, <1>6, <1>7, <1>8, <1>9, <1>10, <1>11
    DEF TransformationNext

\* A final table holds columns of another dataset only if someone who could read that
\* dataset asked for the join, although a refresh looks it up without asking again and
\* access may be withdrawn in between (join_target.py, process-dag-generator.py).
THEOREM JoinVettedAlways == CopiesSpec => []JoinVetted
  <1>1. CopiesInit => AccessInv
    BY DEF CopiesInit, TransformationInit, AccessInv, JoinVetted, JoinedBy, JoinOf, NoRun
  <1>2. TransformationTypeOK /\ AccessInv /\ [CopiesNext]_<<tableVars, transferVars>>
          => AccessInv'
    <2> SUFFICES ASSUME TransformationTypeOK, AccessInv,
                        [CopiesNext]_<<tableVars, transferVars>>
                 PROVE  AccessInv'
      OBVIOUS
    <2>1. CASE UNCHANGED tableVars
      BY <2>1 DEF AccessInv, JoinVetted, tableVars
    <2>2. CASE TransformationNext(locked)
      BY <2>2, AccessStep
    <2> QED
      BY <2>1, <2>2 DEF CopiesNext, dump_table, read_definition, copy_rows, restore_table
  <1>3. AccessInv => JoinVetted
    BY DEF AccessInv
  <1> QED
    BY <1>1, <1>2, <1>3, CopiesTyped, PTL DEF CopiesSpec

-----------------------------------------------------------------------------
(* Previews *)

\* A configuration names each of its columns.
NamesInv ==
    \A d \in Datasets : config[d] # None => DOMAIN config[d].names = config[d].columns

\* Each step keeps NamesInv.
LEMMA NamesStep ==
    ASSUME NamesInv, TransformationTypeOK, NEW L, TransformationNext(L)
    PROVE  NamesInv'
  <1>1. ASSUME NEW d \in Datasets, NEW u \in Users, NEW choice \in Choices[d],
               NEW t \in Ingested[d], edit_staging_metadata(u, d, choice, Columns(t))
        PROVE  NamesInv'
    <2> DEFINE names == [c \in Columns(t) |->
                           IF choice.rename # None /\ choice.rename[1] = c
                           THEN choice.rename[2] ELSE c]
    <2>1. config' = [config EXCEPT ![d] =
                       [columns |-> Columns(t), excluded |-> choice.excluded \cap Columns(t),
                        names |-> names, xy |-> choice.xy, join |-> choice.join]]
      BY <1>1 DEF edit_staging_metadata
    <2>2. DOMAIN names = Columns(t)
      OBVIOUS
    <2> HIDE DEF names
    <2>4. config'[d].columns = Columns(t) /\ config'[d].names = names
      BY <2>1 DEF TransformationTypeOK
    <2>5. \A e \in Datasets : e # d => config'[e] = config[e]
      BY <2>1 DEF TransformationTypeOK
    <2> QED
      BY <2>2, <2>4, <2>5 DEF NamesInv
  <1>2. ASSUME NEW d \in Datasets, edit_staging(d) \/ delete_dataset(d, L)
        PROVE  NamesInv'
    <2>1. config' = [config EXCEPT ![d] = None]
      BY <1>2 DEF edit_staging, delete_dataset
    <2> QED
      BY <2>1 DEF NamesInv, TransformationTypeOK
  <1>3. CASE UNCHANGED config
    BY <1>3 DEF NamesInv
  <1>4. ASSUME NEW d \in Datasets,
               run_staging(d) \/ trigger_refresh(d) \/ dag_failure_callback(d, L)
        PROVE  UNCHANGED config
    BY <1>4 DEF run_staging, trigger_refresh, dag_failure_callback
  <1>5. ASSUME NEW d \in Datasets, NEW u \in Users,
               change_access(d, u) \/ process_staging_data(u, d)
        PROVE  UNCHANGED config
    BY <1>5 DEF change_access, process_staging_data
  <1>6. ASSUME NEW d \in Datasets, NEW k \in Kinds,
               \/ reflect_tables(d, k, L) \/ transform_staging_to_final(d, k, L)
               \/ dag_success_callback(d, k)
        PROVE  UNCHANGED config
    BY <1>6 DEF reflect_tables, transform_staging_to_final, dag_success_callback
  <1> QED
    BY <1>1, <1>2, <1>3, <1>4, <1>5, <1>6 DEF TransformationNext

\* What the preview keeps with its excluded columns put back has no name of a joined
\* column, if what it keeps without them has none and the geometry is given none.
LEMMA IncludedBuilds ==
    ASSUME NEW columns, NEW cfg \in Transformations, NEW joined,
           DOMAIN cfg.names = cfg.columns,
           ~renamed_geometry(cfg), can_build(columns, cfg, joined)
    PROVE  can_build(columns, include_excluded(cfg), joined)
  <1> DEFINE wide == include_excluded(cfg)
  <1>1. /\ wide.columns = cfg.columns /\ wide.names = cfg.names
        /\ wide.xy = cfg.xy /\ wide.join = cfg.join
        /\ wide.excluded = {c \in cfg.excluded : output_name(cfg, c) \in JoinedColumns(cfg)}
    BY DEF include_excluded, Transformations
  <1> HIDE DEF wide
  <1>2. ASSUME cfg.join # None, NEW c \in kept(columns, wide)
        PROVE  cfg.names[c] \notin cfg.join.columns
    <2>1. CASE c \in kept(columns, cfg)
      BY <1>2, <2>1 DEF can_build, join_from_clause, taken_names
    <2>2. CASE c \notin kept(columns, cfg)
      <3>1. c \in cfg.excluded /\ c \in cfg.columns
        BY <1>1, <2>2 DEF kept
      <3>2. output_name(cfg, c) \notin cfg.join.columns
        BY <1>1, <1>2, <3>1 DEF kept, JoinedColumns
      <3> QED
        BY <1>2, <3>1, <3>2 DEF output_name, renamed_geometry, JoinedColumns
    <2> QED
      BY <2>1, <2>2
  <1>3. cfg.join # None => cfg.join.columns \cap taken_names(columns, wide) = {}
    <2>1. cfg.join # None =>
            cfg.join.columns \cap ({ID_COLUMN} \cup (IF cfg.xy THEN {GEOM} ELSE {})) = {}
      BY DEF can_build, join_from_clause, taken_names
    <2> QED
      BY <1>1, <1>2, <2>1 DEF taken_names
  <1>4. join_from_clause(columns, wide, joined)
    BY <1>1, <1>3 DEF can_build, join_from_clause
  <1> QED
    BY <1>1, <1>4 DEF can_build, wide

\* A configuration that leaves everything as it is.
LEMMA NothingConfigured ==
    ASSUME NEW columns \in SUBSET STRING
    PROVE  /\ Configured(None, columns) \in Transformations
           /\ DOMAIN Configured(None, columns).names = Configured(None, columns).columns
           /\ Configured(None, columns).columns = columns
  <1>1. [c \in columns |-> c] \in UNION {[S -> STRING] : S \in SUBSET STRING}
    <2>1. [c \in columns |-> c] \in [columns -> STRING]
      OBVIOUS
    <2> QED
      BY <2>1
  <1> DEFINE same == [c \in columns |-> c]
  <1>2. DOMAIN same = columns
    OBVIOUS
  <1> HIDE DEF same
  <1>3. Configured(None, columns) =
          [columns |-> columns, excluded |-> {}, names |-> same, xy |-> FALSE, join |-> None]
    BY DEF Configured, same
  <1>4. same \in UNION {[S -> STRING] : S \in SUBSET STRING}
    BY <1>1 DEF same
  <1> QED
    BY <1>2, <1>3, <1>4 DEF Transformations, Joins

\* Whenever the preview of a dataset can be built, so can the one that puts its
\* excluded columns back, whatever was joined in their place, unless the excluded
\* geometry was given the name of a joined column (staging.py, include_excluded).
THEOREM ExcludedPreviewableAlways == CopiesSpec => []ExcludedPreviewable
  <1>1. CopiesInit => NamesInv
    BY DEF CopiesInit, TransformationInit, NamesInv
  <1>2. TransformationTypeOK /\ NamesInv /\ [CopiesNext]_<<tableVars, transferVars>>
          => NamesInv'
    <2> SUFFICES ASSUME TransformationTypeOK, NamesInv,
                        [CopiesNext]_<<tableVars, transferVars>>
                 PROVE  NamesInv'
      OBVIOUS
    <2>1. CASE UNCHANGED tableVars
      BY <2>1 DEF NamesInv, tableVars
    <2>2. CASE TransformationNext(locked)
      BY <2>2, NamesStep
    <2> QED
      BY <2>1, <2>2 DEF CopiesNext, dump_table, read_definition, copy_rows, restore_table
  <1>3. TransformationTypeOK /\ NamesInv => ExcludedPreviewable
    <2> SUFFICES ASSUME TransformationTypeOK, NamesInv, NEW d \in Datasets,
                        staging[d] # None, ~renamed_geometry(ConfigOf(d)),
                        can_build(Columns(staging[d]), ConfigOf(d), JoinedNow(d))
                 PROVE  can_build(Columns(staging[d]), include_excluded(ConfigOf(d)),
                                  JoinedNow(d))
      BY DEF ExcludedPreviewable
    <2>1. Columns(staging[d]) \in SUBSET STRING
      BY ColumnsTyped DEF TransformationTypeOK
    <2>2. /\ ConfigOf(d) \in Transformations
          /\ DOMAIN ConfigOf(d).names = ConfigOf(d).columns
      <3>1. CASE config[d] = None
        BY <2>1, <3>1, NothingConfigured DEF ConfigOf
      <3>2. CASE config[d] # None
        BY <3>2 DEF ConfigOf, Configured, TransformationTypeOK, NamesInv
      <3> QED
        BY <3>1, <3>2
    <2> QED
      BY <2>2, IncludedBuilds
  <1> QED
    BY <1>1, <1>2, <1>3, CopiesTyped, PTL DEF CopiesSpec

-----------------------------------------------------------------------------
(* Refreshes *)

\* No table is None.
TablesAreSomething ==
    \A columns, joined, number :
        [columns |-> columns, joined |-> joined, number |-> number] # None

\* A refresh is never a re-run: it does not drop the table before it transforms.
RefreshInv == \A d \in Datasets : runs[d]["scheduled"].rerun = FALSE

\* Each step keeps RefreshInv.
LEMMA RefreshStep ==
    ASSUME RefreshInv, TransformationTypeOK, NEW L, TransformationNext(L)
    PROVE  RefreshInv'
  <1>1. ASSUME NEW d \in Datasets, edit_staging(d)
        PROVE  RefreshInv'
    BY <1>1 DEF edit_staging, RefreshInv, TransformationTypeOK, Kinds
  <1>2. ASSUME NEW d \in Datasets, trigger_refresh(d)
        PROVE  RefreshInv'
    <2>1. PICK t \in Ingested[d], x \in {JoinedBy(config[d]), None} :
             runs' = [runs EXCEPT ![d]["scheduled"] = Asked(t, config[d], x, FALSE)]
      BY <1>2 DEF trigger_refresh
    <2>2. Asked(t, config[d], x, FALSE).rerun = FALSE
      BY DEF Asked
    <2> QED
      BY <2>1, <2>2 DEF RefreshInv, TransformationTypeOK, Kinds
  <1>3. ASSUME NEW d \in Datasets, delete_dataset(d, L)
        PROVE  RefreshInv'
    BY <1>3 DEF delete_dataset, NoRun, RefreshInv, TransformationTypeOK, Kinds
  <1>4. ASSUME NEW d \in Datasets, dag_failure_callback(d, L)
        PROVE  RefreshInv'
    BY <1>4 DEF dag_failure_callback, RefreshInv, TransformationTypeOK, Kinds
  <1>5. ASSUME NEW d \in Datasets, NEW u \in Users, process_staging_data(u, d)
        PROVE  RefreshInv'
    BY <1>5 DEF process_staging_data, RefreshInv, TransformationTypeOK, Kinds
  <1>6. ASSUME NEW d \in Datasets, NEW k \in Kinds, reflect_tables(d, k, L)
        PROVE  RefreshInv'
    <2>1. CASE runs' = [runs EXCEPT ![d][k].phase = "reflected"]
      <3>1. [runs[d][k] EXCEPT !.phase = "reflected"].rerun = runs[d][k].rerun
        BY RunTyped DEF Run
      <3> QED
        BY <2>1, <3>1 DEF RefreshInv, TransformationTypeOK, Kinds
    <2>2. CASE Failed(d, k)
      BY <2>2 DEF Failed, NoRun, RefreshInv, TransformationTypeOK, Kinds
    <2> QED
      BY <1>6, <2>1, <2>2 DEF reflect_tables
  <1>7. ASSUME NEW d \in Datasets, NEW k \in Kinds, transform_staging_to_final(d, k, L)
        PROVE  RefreshInv'
    <2>1. CASE runs' = [runs EXCEPT ![d][k] = [NoRun EXCEPT !.phase = "success"]]
      BY <2>1 DEF NoRun, RefreshInv, TransformationTypeOK, Kinds
    <2>2. CASE Failed(d, k)
      BY <2>2 DEF Failed, NoRun, RefreshInv, TransformationTypeOK, Kinds
    <2> QED
      BY <1>7, <2>1, <2>2 DEF transform_staging_to_final
  <1>8. ASSUME NEW d \in Datasets, NEW k \in Kinds, dag_success_callback(d, k)
        PROVE  RefreshInv'
    BY <1>8 DEF dag_success_callback, NoRun, RefreshInv, TransformationTypeOK, Kinds
  <1>9. CASE UNCHANGED runs
    BY <1>9 DEF RefreshInv
  <1>10. ASSUME NEW d \in Datasets, run_staging(d)
         PROVE  UNCHANGED runs
    BY <1>10 DEF run_staging
  <1>11. ASSUME NEW d \in Datasets, NEW u \in Users, change_access(d, u)
         PROVE  UNCHANGED runs
    BY <1>11 DEF change_access
  <1>12. ASSUME NEW d \in Datasets, NEW u \in Users, NEW choice \in Choices[d],
                NEW t \in Ingested[d], edit_staging_metadata(u, d, choice, Columns(t))
         PROVE  UNCHANGED runs
    BY <1>12 DEF edit_staging_metadata
  <1> QED
    BY <1>1, <1>2, <1>3, <1>4, <1>5, <1>6, <1>7, <1>8, <1>9, <1>10, <1>11, <1>12
    DEF TransformationNext

\* What drops a published table, one dataset at a time.
LEMMA DropStep ==
    ASSUME TablesAreSomething, RefreshInv, TransformationTypeOK,
           NEW L, TransformationNext(L), NEW e \in Datasets, final[e] # None, final'[e] = None
    PROVE  e \notin live' \/ runs[e]["manual"].rerun \/ runs[e]["manual"].phase = "failed"
  <1>1. ASSUME NEW d \in Datasets, delete_dataset(d, L)
        PROVE  e \notin live'
    BY <1>1 DEF delete_dataset, TransformationTypeOK
  <1>2. ASSUME NEW d \in Datasets, dag_failure_callback(d, L)
        PROVE  runs[e]["manual"].phase = "failed"
    BY <1>2 DEF dag_failure_callback, TransformationTypeOK
  <1>3. ASSUME NEW d \in Datasets, NEW k \in Kinds, reflect_tables(d, k, L)
        PROVE  runs[e]["manual"].rerun
    <2>1. runs[d][k].rerun /\ d = e
      BY <1>3 DEF reflect_tables, TransformationTypeOK
    <2>2. k = "manual"
      BY <2>1 DEF RefreshInv, Kinds
    <2> QED
      BY <2>1, <2>2
  <1>4. ASSUME NEW d \in Datasets, NEW k \in Kinds, transform_staging_to_final(d, k, L)
        PROVE  FALSE
    <2>1. final' = [final EXCEPT ![d] = Transformed(d, runs[d][k])] \/ UNCHANGED final
      BY <1>4 DEF transform_staging_to_final, rolled_back, TransformationTypeOK
    <2>2. Transformed(d, runs[d][k]) # None
      BY DEF Transformed, TablesAreSomething
    <2> QED
      BY <2>1, <2>2 DEF TransformationTypeOK
  <1>5. ASSUME NEW d \in Datasets,
               run_staging(d) \/ edit_staging(d) \/ trigger_refresh(d)
        PROVE  UNCHANGED final
    BY <1>5 DEF run_staging, edit_staging, trigger_refresh
  <1>6. ASSUME NEW d \in Datasets, NEW u \in Users,
               change_access(d, u) \/ process_staging_data(u, d)
        PROVE  UNCHANGED final
    BY <1>6 DEF change_access, process_staging_data
  <1>7. ASSUME NEW d \in Datasets, NEW u \in Users, NEW choice \in Choices[d],
               NEW t \in Ingested[d], edit_staging_metadata(u, d, choice, Columns(t))
        PROVE  UNCHANGED final
    BY <1>7 DEF edit_staging_metadata
  <1>8. ASSUME NEW d \in Datasets, NEW k \in Kinds, dag_success_callback(d, k)
        PROVE  UNCHANGED final
    BY <1>8 DEF dag_success_callback
  <1> QED
    BY <1>1, <1>2, <1>3, <1>4, <1>5, <1>6, <1>7, <1>8 DEF TransformationNext

\* A published table goes only by a deletion or a manual run, a re-run or one that
\* fails: what has become of the source, of the configuration or of the joined table
\* makes a refresh fail, not lose the table (sql_transform.py, one transaction).
THEOREM RefreshKeepsDataAlways ==
    ASSUME TablesAreSomething
    PROVE  CopiesSpec => RefreshKeepsData
  <1> DEFINE Kept == \A d \in Datasets :
                        final[d] # None /\ final'[d] = None =>
                            \/ d \notin live'
                            \/ runs[d]["manual"].rerun \/ runs[d]["manual"].phase = "failed"
  <1>1. CopiesInit => RefreshInv
    BY DEF CopiesInit, TransformationInit, RefreshInv, NoRun, Kinds
  <1>2. TransformationTypeOK /\ RefreshInv /\ [CopiesNext]_<<tableVars, transferVars>>
          => RefreshInv' /\ [Kept]_tableVars
    <2> SUFFICES ASSUME TransformationTypeOK, RefreshInv,
                        [CopiesNext]_<<tableVars, transferVars>>
                 PROVE  RefreshInv' /\ [Kept]_tableVars
      OBVIOUS
    <2>1. CASE UNCHANGED tableVars
      BY <2>1 DEF RefreshInv, tableVars
    <2>2. CASE TransformationNext(locked)
      <3>1. Kept
        BY <2>2, DropStep
      <3> QED
        BY <2>2, <3>1, RefreshStep
    <2> QED
      BY <2>1, <2>2 DEF CopiesNext, dump_table, read_definition, copy_rows, restore_table
  <1>3. CopiesSpec => [][Kept]_tableVars
    BY <1>1, <1>2, CopiesTyped, PTL DEF CopiesSpec
  <1> QED
    BY <1>3 DEF RefreshKeepsData

-----------------------------------------------------------------------------
(* Sources *)

\* Whichever .cst is read names an encoding that is known.
HasKnownCst(s) ==
    members(s, "cst") # {} /\ \A f \in members(s, "cst") : f.says \in KnownEncodings

\* What the files of an archive say of its text is right: a .cpg, a .cst, and where
\* there may be neither the content, up to what chardet confuses.
Trustworthy(s) ==
    \A f \in s.files :
        /\ f.suffix = "cpg" /\ ~f.metadata => f.says = s.written
        /\ f.suffix = "cst" /\ f.says \in KnownEncodings => f.says = s.written
        /\ f.suffix = "dbf" /\ members(s, "cpg") = {} /\ ~HasKnownCst(s) =>
              \/ f.says \in {s.written, "none"}
              \/ {f.says, s.written} \subseteq WesternLatin \cup {"cp1252"}

\* An ingestion that ends well reads the text as it was written.
LEMMA IngestedWellLoaded ==
    ASSUME NEW s, IsSource(s), Trustworthy(s), NEW t \in ingest_into_postgis(s)
    PROVE  WellLoaded(t)
  <1>1. PICK e \in detect_shapefile_encoding(s) : run_ogr2ogr(s, e) /\ t = Loaded(s, e)
    BY DEF ingest_into_postgis
  <1>2. t.source = s /\ t.encoding = read_with(s, e)
    BY <1>1 DEF Loaded
  <1>3. s.zipped => Cardinality(datasets(s)) = 1
    BY DEF ingest_into_postgis, resolve_zip_source
  <1>4. s.written \in Encodings /\ s.files \subseteq File
    BY DEF IsSource
  <1>5. ASSUME read_with(s, e) = "utf8"
        PROVE  legible(t)
    <2>1. s.written \in ReadAsUtf8
      BY <1>1, <1>5 DEF run_ogr2ogr, reports_error
    <2> QED
      BY <1>2, <1>5, <2>1 DEF legible, same_letters, ReadAsUtf8
  <1>6. CASE e = "default"
    <2> DEFINE cpg == {f \in members(s, "cpg") : ~is_archive_metadata(f)}
    <2>1. CASE is_shapefile(s) /\ cpg # {}
      <3>1. PICK f \in cpg : read_with(s, e) = f.says
        BY <1>6, <2>1 DEF read_with
      <3>2. f.says = s.written
        BY DEF Trustworthy, members, is_archive_metadata
      <3> QED
        BY <1>2, <1>3, <3>1, <3>2 DEF legible, same_letters, WellLoaded
    <2>2. CASE ~(is_shapefile(s) /\ cpg # {})
      <3>1. read_with(s, e) = "utf8"
        BY <1>6, <2>2 DEF read_with
      <3> QED
        BY <1>2, <1>3, <1>5, <3>1 DEF WellLoaded
    <2> QED
      BY <2>1, <2>2
  <1>7. CASE e # "default"
    <2>1. read_with(s, e) = e
      BY <1>7 DEF read_with
    <2>2. CASE \E f \in members(s, "cst") : f.says \in KnownEncodings /\ e = f.says
      <3>1. PICK f \in members(s, "cst") : f.says \in KnownEncodings /\ e = f.says
        BY <2>2
      <3>2. f.says = s.written
        BY <3>1 DEF Trustworthy, members
      <3> QED
        BY <1>2, <1>3, <2>1, <3>1, <3>2 DEF legible, same_letters, WellLoaded
    <2>3. CASE ~HasKnownCst(s) /\ \E f \in members(s, "dbf") : e = guess(f.says)
      <3>1. PICK f \in members(s, "dbf") : e = guess(f.says)
        BY <2>3
      <3>2. members(s, "cpg") = {}
        BY <1>1, <1>7 DEF detect_shapefile_encoding
      <3>3. \/ f.says \in {s.written, "none"}
            \/ {f.says, s.written} \subseteq WesternLatin \cup {"cp1252"}
        BY <2>3, <3>2 DEF Trustworthy, members
      <3>4. f.says \notin ReadAsUtf8 \cup {"none"}
        BY <1>7, <3>1 DEF guess
      <3>5. e = s.written \/ (e = "cp1252" /\ s.written \in WesternLatin)
        BY <3>1, <3>3, <3>4 DEF guess, WesternLatin
      <3>6. s.written = "cp1250" => ~Declared(s)
        BY <2>3, <3>2 DEF Declared, HasKnownCst, KnownEncodings, WesternLatin
      <3> QED
        BY <1>2, <1>3, <2>1, <3>5, <3>6
        DEF legible, same_letters, WellLoaded, WesternLatin
    <2> QED
      BY <1>1, <1>7, <2>2, <2>3 DEF detect_shapefile_encoding, HasKnownCst
  <1> QED
    BY <1>6, <1>7

\* Every staging table, and every source a refresh loaded, has its text as it was
\* written and is the only dataset of its archive, but for Central European text that
\* nothing declares, as long as what the files declare is right (ingestion.py).
THEOREM LoadedWholeAlways ==
    ASSUME \A d \in Datasets : \A s \in Sources[d] : resolve_zip_source(s) => Trustworthy(s)
    PROVE  CopiesSpec => []LoadedWhole
  <1>1. ASSUME NEW t \in StagingTables
        PROVE  WellLoaded(t)
    <2>1. PICK d \in Datasets : \E s \in Sources[d] : t \in ingest_into_postgis(s)
      BY DEF StagingTables, Ingested
    <2> PICK s \in Sources[d] : t \in ingest_into_postgis(s)
      BY <2>1
    <2>2. IsSource(s) /\ Trustworthy(s)
      BY TransformationAssumption DEF ingest_into_postgis
    <2> QED
      BY <2>2, IngestedWellLoaded
  <1>2. TransformationTypeOK => LoadedWhole
    <2> SUFFICES ASSUME TransformationTypeOK PROVE LoadedWhole
      OBVIOUS
    <2>1. \A d \in Datasets : runs[d]["scheduled"] \in Run
      BY RunTyped DEF Kinds
    <2> QED
      BY <1>1, <2>1 DEF TransformationTypeOK, Run, LoadedWhole
  <1> QED
    BY <1>2, CopiesTyped, PTL

-----------------------------------------------------------------------------
(* What a manual run writes *)

\* A manual run joins what the configuration it was given joins.
TargetInv ==
    \A d \in Datasets : runs[d]["manual"].target = JoinedBy(runs[d]["manual"].config)

\* Each step keeps TargetInv.
LEMMA TargetStep ==
    ASSUME TargetInv, TransformationTypeOK, NEW L, TransformationNext(L)
    PROVE  TargetInv'
  <1>1. NoRun.target = JoinedBy(NoRun.config)
    BY DEF NoRun, JoinedBy, JoinOf
  <1>2. \A phase : [NoRun EXCEPT !.phase = phase].target
                  = JoinedBy([NoRun EXCEPT !.phase = phase].config)
    BY DEF NoRun, JoinedBy, JoinOf
  <1>3. ASSUME NEW d \in Datasets, NEW k \in Kinds, NEW r \in Run,
               runs' = [runs EXCEPT ![d][k] = r],
               k = "manual" => r.target = JoinedBy(r.config)
        PROVE  TargetInv'
    BY <1>3 DEF TargetInv, TransformationTypeOK, Kinds
  <1>4. ASSUME NEW d \in Datasets, edit_staging(d)
        PROVE  TargetInv'
    <2> DEFINE r == [runs[d]["manual"] EXCEPT !.present = FALSE]
    <2>1. r \in Run /\ r.target = runs[d]["manual"].target /\ r.config = runs[d]["manual"].config
      BY RunTyped DEF Run, Kinds
    <2>2. runs' = [runs EXCEPT ![d]["manual"] = r]
      BY <1>4 DEF edit_staging, TransformationTypeOK, Kinds
    <2> HIDE DEF r
    <2> QED
      BY <1>3, <2>1, <2>2 DEF TargetInv, Kinds
  <1>5. ASSUME NEW d \in Datasets, trigger_refresh(d)
        PROVE  TargetInv'
    <2>1. PICK t \in Ingested[d], x \in {JoinedBy(config[d]), None} :
             runs' = [runs EXCEPT ![d]["scheduled"] = Asked(t, config[d], x, FALSE)]
      BY <1>5 DEF trigger_refresh
    <2> QED
      BY <2>1 DEF TargetInv, TransformationTypeOK, Kinds
  <1>6. ASSUME NEW d \in Datasets, delete_dataset(d, L)
        PROVE  TargetInv'
    BY <1>1, <1>6 DEF delete_dataset, TargetInv, TransformationTypeOK, Kinds
  <1>7. ASSUME NEW d \in Datasets, dag_failure_callback(d, L)
        PROVE  TargetInv'
    BY <1>1, <1>3, <1>7, NoRunTyped DEF dag_failure_callback, Kinds
  <1>8. ASSUME NEW d \in Datasets, NEW u \in Users, process_staging_data(u, d)
        PROVE  TargetInv'
    <2> DEFINE r == Asked(None, config[d], JoinedBy(config[d]), d \in retrieved)
    <2>1. r.target = JoinedBy(r.config)
      BY DEF Asked
    <2>2. runs' = [runs EXCEPT ![d]["manual"] = r]
      BY <1>8 DEF process_staging_data
    <2> HIDE DEF r
    <2> QED
      BY <2>1, <2>2 DEF TargetInv, TransformationTypeOK, Kinds
  <1>9. ASSUME NEW d \in Datasets, NEW k \in Kinds, Failed(d, k)
        PROVE  TargetInv'
    BY <1>2, <1>9 DEF Failed, TargetInv, TransformationTypeOK, Kinds
  <1>10. ASSUME NEW d \in Datasets, NEW k \in Kinds, reflect_tables(d, k, L)
         PROVE  TargetInv'
    <2>1. CASE runs' = [runs EXCEPT ![d][k].phase = "reflected"]
      <3> DEFINE r == [runs[d][k] EXCEPT !.phase = "reflected"]
      <3>1. r \in Run /\ r.target = runs[d][k].target /\ r.config = runs[d][k].config
        BY RunTyped DEF Run
      <3>2. runs' = [runs EXCEPT ![d][k] = r]
        BY <2>1
      <3> HIDE DEF r
      <3> QED
        BY <1>3, <3>1, <3>2 DEF TargetInv
    <2> QED
      BY <1>9, <1>10, <2>1 DEF reflect_tables
  <1>11. ASSUME NEW d \in Datasets, NEW k \in Kinds, transform_staging_to_final(d, k, L)
         PROVE  TargetInv'
    <2>1. CASE runs' = [runs EXCEPT ![d][k] = [NoRun EXCEPT !.phase = "success"]]
      BY <1>2, <2>1 DEF TargetInv, TransformationTypeOK, Kinds
    <2> QED
      BY <1>9, <1>11, <2>1 DEF transform_staging_to_final
  <1>12. ASSUME NEW d \in Datasets, NEW k \in Kinds, dag_success_callback(d, k)
         PROVE  TargetInv'
    BY <1>1, <1>3, <1>12, NoRunTyped DEF dag_success_callback
  <1>13. CASE UNCHANGED runs
    BY <1>13 DEF TargetInv
  <1>14. ASSUME NEW d \in Datasets, run_staging(d)
         PROVE  UNCHANGED runs
    BY <1>14 DEF run_staging
  <1>15. ASSUME NEW d \in Datasets, NEW u \in Users, change_access(d, u)
         PROVE  UNCHANGED runs
    BY <1>15 DEF change_access
  <1>16. ASSUME NEW d \in Datasets, NEW u \in Users, NEW choice \in Choices[d],
                NEW t \in Ingested[d], edit_staging_metadata(u, d, choice, Columns(t))
         PROVE  UNCHANGED runs
    BY <1>16 DEF edit_staging_metadata
  <1> QED
    BY <1>4, <1>5, <1>6, <1>7, <1>8, <1>10, <1>11, <1>12, <1>13, <1>14, <1>15, <1>16
    DEF TransformationNext

\* The table a run writes has the columns of its SELECT and the identifier.
LEMMA TransformedColumns ==
    ASSUME NEW d, NEW r
    PROVE  DOMAIN Transformed(d, r).columns = NamesIn(SelectOf(d, r)) \cup {ID_COLUMN}
  BY DEF Transformed

\* A run of the dataset as it is configured, whose preview can be built with unique
\* names and no id_datafeeder, succeeds with the columns of the preview.
LEMMA ShownSucceeds ==
    ASSUME NEW d \in Datasets, NEW r,
           r.present, staging[d] # None, config[d] = r.config,
           r.target = JoinedBy(r.config),
           can_build(Columns(staging[d]), ConfigOf(d), JoinedNow(d)),
           unique_names(PreviewOf(d)), ID_COLUMN \notin read_transformed_preview(d)
    PROVE  /\ succeeds(d, r) /\ unique_names(SelectOf(d, r))
           /\ NamesIn(SelectOf(d, r)) = read_transformed_preview(d)
  <1>1. SelectOf(d, r) = PreviewOf(d)
    BY DEF SelectOf, PreviewOf, ConfigOf, JoinedNow, StagingOf
  <1>2. JoinOf(r.config) # None => ConfigOf(d) = r.config /\ JoinOf(r.config) = r.config.join
    BY DEF JoinOf, ConfigOf, Configured
  <1>3. still_there(r)
    BY <1>2 DEF still_there, can_build, join_from_clause, JoinedNow
  <1> QED
    BY <1>1, <1>3 DEF succeeds, StagingOf, read_transformed_preview

\* A manual run writes the columns a preview shows just before, as long as the dataset
\* is still staged and configured as when it was asked, unless two of them have one name
\* or one has that of the identifier the table is given (FR-021, sql_transform.py).
THEOREM WrittenAsShownAlways ==
    ASSUME TablesAreSomething
    PROVE  CopiesSpec => WrittenAsShown
  <1> DEFINE Shown ==
        \A d \in Datasets :
          LET r == runs[d]["manual"] IN
          /\ r.phase = "reflected" /\ runs'[d]["manual"].phase # "reflected" /\ d \in live'
          /\ r.present /\ staging[d] # None /\ config[d] = r.config
          /\ can_build(Columns(staging[d]), ConfigOf(d), JoinedNow(d))
          /\ unique_names(PreviewOf(d)) /\ ID_COLUMN \notin read_transformed_preview(d)
          => final'[d] # None
             /\ DOMAIN final'[d].columns = read_transformed_preview(d) \cup {ID_COLUMN}
  <1>1. CopiesInit => TargetInv
    BY DEF CopiesInit, TransformationInit, TargetInv, NoRun, JoinedBy, JoinOf, Kinds
  <1>2. ASSUME TransformationTypeOK, TargetInv, TablesAreSomething,
               NEW L, TransformationNext(L), NEW d \in Datasets,
               runs[d]["manual"].phase = "reflected",
               runs'[d]["manual"].phase # "reflected", d \in live',
               runs[d]["manual"].present, staging[d] # None,
               config[d] = runs[d]["manual"].config,
               can_build(Columns(staging[d]), ConfigOf(d), JoinedNow(d)),
               unique_names(PreviewOf(d)), ID_COLUMN \notin read_transformed_preview(d)
        PROVE  /\ final'[d] # None
               /\ DOMAIN final'[d].columns = read_transformed_preview(d) \cup {ID_COLUMN}
    <2> DEFINE r == runs[d]["manual"]
    <2>1. /\ succeeds(d, r) /\ unique_names(SelectOf(d, r))
          /\ NamesIn(SelectOf(d, r)) = read_transformed_preview(d)
      <3>1. r.target = JoinedBy(r.config)
        BY <1>2 DEF TargetInv
      <3> HIDE DEF r
      <3> QED
        BY <1>2, <3>1, ShownSucceeds DEF r
    <2>2. ASSUME transform_staging_to_final(d, "manual", L)
          PROVE  final'[d] = Transformed(d, r)
      BY <1>2, <2>1, <2>2 DEF transform_staging_to_final, TransformationTypeOK
    <2>3. ASSUME NEW e \in Datasets, NEW k \in Kinds, e # d \/ k # "manual",
                 \/ reflect_tables(e, k, L) \/ transform_staging_to_final(e, k, L)
                 \/ dag_success_callback(e, k)
          PROVE  runs'[d]["manual"] = runs[d]["manual"]
      BY <1>2, <2>3 DEF reflect_tables, transform_staging_to_final, dag_success_callback, Failed,
                  TransformationTypeOK, Kinds
    <2>4. ASSUME reflect_tables(d, "manual", L) \/ dag_success_callback(d, "manual")
          PROVE  FALSE
      BY <1>2, <2>4 DEF reflect_tables, dag_success_callback
    <2>5. ASSUME NEW e \in Datasets, edit_staging(e)
          PROVE  runs'[d]["manual"].phase = runs[d]["manual"].phase
      <3>1. [runs[d]["manual"] EXCEPT !.present = FALSE].phase = runs[d]["manual"].phase
        BY RunTyped DEF Run, Kinds
      <3> QED
        BY <2>5, <3>1 DEF edit_staging, TransformationTypeOK, Kinds
    <2>6. ASSUME NEW e \in Datasets, run_staging(e) \/ trigger_refresh(e)
          PROVE  runs'[d]["manual"] = runs[d]["manual"]
      <3>1. CASE trigger_refresh(e)
        <4>1. PICK x : runs' = [runs EXCEPT ![e]["scheduled"] = x]
          BY <3>1 DEF trigger_refresh
        <4> QED
          BY <1>2, <4>1 DEF TransformationTypeOK, Kinds
      <3> QED
        BY <2>6, <3>1 DEF run_staging
    <2>7. ASSUME NEW e \in Datasets, delete_dataset(e, L)
          PROVE  runs'[d]["manual"] = runs[d]["manual"]
      BY <1>2, <2>7 DEF delete_dataset, TransformationTypeOK, Kinds
    <2>8. ASSUME NEW e \in Datasets, dag_failure_callback(e, L)
          PROVE  runs'[d]["manual"] = runs[d]["manual"]
      BY <1>2, <2>8 DEF dag_failure_callback, TransformationTypeOK, Kinds
    <2>9. ASSUME NEW e \in Datasets, NEW u \in Users, process_staging_data(u, e)
          PROVE  runs'[d]["manual"] = runs[d]["manual"]
      <3>1. e # d
        BY <1>2, <2>9 DEF process_staging_data, NoRun
      <3> QED
        BY <2>9, <3>1 DEF process_staging_data, TransformationTypeOK, Kinds
    <2>10. ASSUME NEW e \in Datasets, NEW u \in Users, change_access(e, u)
           PROVE  runs'[d]["manual"] = runs[d]["manual"]
      BY <2>10 DEF change_access
    <2>11. ASSUME NEW e \in Datasets, NEW u \in Users, NEW choice \in Choices[e],
                  NEW t \in Ingested[e], edit_staging_metadata(u, e, choice, Columns(t))
           PROVE  runs'[d]["manual"] = runs[d]["manual"]
      BY <2>11 DEF edit_staging_metadata
    <2>12. transform_staging_to_final(d, "manual", L)
      BY <1>2, <2>3, <2>4, <2>5, <2>6, <2>7, <2>8, <2>9, <2>10, <2>11
      DEF TransformationNext
    <2>13. Transformed(d, r) # None
      BY <1>2 DEF Transformed, TablesAreSomething
    <2> QED
      BY <2>1, <2>2, <2>12, <2>13, TransformedColumns
  <1>3. TransformationTypeOK /\ TargetInv /\ [CopiesNext]_<<tableVars, transferVars>>
          => TargetInv' /\ [Shown]_tableVars
    <2> SUFFICES ASSUME TransformationTypeOK, TargetInv,
                        [CopiesNext]_<<tableVars, transferVars>>
                 PROVE  TargetInv' /\ [Shown]_tableVars
      OBVIOUS
    <2>1. CASE UNCHANGED tableVars
      BY <2>1 DEF TargetInv, tableVars
    <2>2. CASE TransformationNext(locked)
      <3>1. Shown
        BY <1>2, <2>2
      <3> QED
        BY <2>2, <3>1, TargetStep
    <2> QED
      BY <2>1, <2>2 DEF CopiesNext, dump_table, read_definition, copy_rows, restore_table
  <1>4. CopiesSpec => [][Shown]_tableVars
    BY <1>1, <1>3, CopiesTyped, PTL DEF CopiesSpec
  <1> QED
    BY <1>4 DEF WrittenAsShown
=============================================================================
