------------------------- MODULE TableTransformation -------------------------
(***************************************************************************)
(* From the staging table of a dataset to its final table: the columns a   *)
(* user configures, the table of another dataset they join, the preview    *)
(* they look at, and the CREATE TABLE AS that manual and scheduled runs    *)
(* execute (sql_transform.py, staging.py, join_target.py, security.py).    *)
(* A table is the function from its column names to where their data comes *)
(* from, a dataset and a column of its source.                             *)
(***************************************************************************)
EXTENDS SourceIngestion, Functions

CONSTANTS
    Datasets, Users,
    owner,           \* integrity_owner of each dataset
    Administrators,  \* users with the ADMINISTRATOR role
    Recurring,       \* datasets processed with a recurrence
    Sources,         \* what the source of each dataset may be found to hold
    Rules,           \* the METADATA rules each user's groups may get on each dataset
    Choices,         \* what users may choose for each dataset
    MaxRunning,      \* bound on the runs at a time
    MaxWrites,       \* bound on the tables written
    None

GEOM == "geom"
ID_COLUMN == "id_datafeeder"

Kinds == {"manual", "scheduled"}

(* What a user fills in for the columns listed to them: those excluded, the one *)
(* renamed and its new name, whether the geometry is built from X/Y columns,    *)
(* and the join (the dataset and the columns added, both keys being "insee").   *)
Choice ==
    [excluded: SUBSET STRING, rename: {None} \cup (STRING \X STRING), xy: BOOLEAN,
     join: {None} \cup [dataset: Datasets, columns: (SUBSET STRING) \ {{}}]]

JoinKey == "insee"
XYColumns == {"x", "y"}

ASSUME TransformationAssumption ==
    /\ owner \in [Datasets -> Users]
    /\ Administrators \subseteq Users /\ Recurring \subseteq Datasets
    /\ \A d \in Datasets : \A s \in Sources[d] : IsSource(s)
    /\ Rules \in [Datasets -> [Users -> SUBSET {"none", "READ", "WRITE"}]]
    /\ \A d \in Datasets : Choices[d] \subseteq Choice
    /\ {MaxRunning, MaxWrites} \subseteq Nat

VARIABLES
    submitted,  \* datasets whose staging run has not loaded their source yet
    staging,    \* the staging table of each dataset, or None
    config,     \* its integrity_transformation, or None
    rule,       \* the METADATA rule each user's groups have on it
    live,       \* datasets that have a row
    named,      \* those whose final_table_name is set
    retrieved,  \* those whose last_retrieval_timestamp is set
    final,      \* their final tables, or None
    runs,       \* the run of each kind that transforms a dataset
    vetted,     \* who joined what while its joiner could read it (history)
    writes      \* tables written so far

tableVars ==
    <<submitted, staging, config, rule, live, named, retrieved, final, runs, vetted, writes>>

\* present: the run names the present staging table of its dataset.
NoRun == [phase |-> "idle", present |-> FALSE, staging |-> None, config |-> None,
          target |-> None, rerun |-> FALSE]

TransformationInit ==
    /\ submitted = Datasets
    /\ staging = [d \in Datasets |-> None]
    /\ config = [d \in Datasets |-> None]
    /\ rule \in {r \in [Datasets -> [Users -> {"none", "READ", "WRITE"}]] :
                    \A d \in Datasets, u \in Users : r[d][u] \in Rules[d][u]}
    /\ live = Datasets
    /\ named = {} /\ retrieved = {}
    /\ final = [d \in Datasets |-> None]
    /\ runs = [d \in Datasets |-> [k \in Kinds |-> NoRun]]
    /\ vetted = {}
    /\ writes = 0

-----------------------------------------------------------------------------
(* Access *)

\* ADMIN, OWNER, WRITE, READ, or "none" without access.
compute_effective_access(u, d) ==
    IF u \in Administrators THEN "ADMIN"
    ELSE IF owner[d] = u THEN "OWNER" ELSE rule[d][u]

Satisfying(level) ==
    {"ADMIN", "OWNER"} \cup
        (CASE level = "OWNER_ONLY" -> {}
           [] level = "METADATA_WRITE" -> {"WRITE"}
           [] level = "METADATA_READ" -> {"WRITE", "READ"})

load_authorized_integrity_link(u, d, level) ==
    d \in live /\ compute_effective_access(u, d) \in Satisfying(level)

\* A bug to compare with: the join is resolved whoever asks.
resolve_without_access(u, join) == join # None => join.dataset \in named

\* The dataset joined, if any, is one the caller reads and that has a final table name.
resolve_join_target(u, join) ==
    join # None =>
        load_authorized_integrity_link(u, join.dataset, "METADATA_READ")
        /\ join.dataset \in named

-----------------------------------------------------------------------------
(* The transformation SELECT *)

\* Every column as it is when nothing is configured.
Configured(cfg, columns) ==
    IF cfg # None THEN cfg
    ELSE [columns |-> columns, excluded |-> {}, names |-> [c \in columns |-> c],
          xy |-> FALSE, join |-> None]

JoinedColumns(cfg) == IF cfg.join = None THEN {} ELSE cfg.join.columns

\* The columns kept: listed, not excluded, found, and not replaced by a point.
kept(columns, cfg) ==
    {c \in cfg.columns \ cfg.excluded : c \in columns /\ (c = GEOM => ~cfg.xy)}

\* The geometry is never renamed, whatever name it was given.
output_name(cfg, c) == IF c = GEOM THEN GEOM ELSE cfg.names[c]

\* The names a joined column must not have, the one given to the geometry included.
taken_names(columns, cfg) ==
    {cfg.names[c] : c \in kept(columns, cfg)} \cup {ID_COLUMN}
        \cup (IF cfg.xy THEN {GEOM} ELSE {})

\* The joined table was found and has what the join names, under free names.
join_from_clause(columns, cfg, joined) ==
    cfg.join # None =>
        /\ joined # None
        /\ JoinKey \in columns
        /\ {JoinKey} \cup cfg.join.columns \subseteq DOMAIN joined.columns
        /\ cfg.join.columns \cap taken_names(columns, cfg) = {}

\* The columns the SELECT takes: from the staging table, then from the joined one,
\* then the point, each with where its data comes from.
build_transformation_select(d, columns, cfg, joined) ==
    LET own == {<<output_name(cfg, c), <<d, c>>>> : c \in kept(columns, cfg)}
        added == IF cfg.join = None THEN {}
                 ELSE {<<c, joined.columns[c]>> : c \in cfg.join.columns}
        point == IF cfg.xy THEN {<<GEOM, <<d, "xy">>>>} ELSE {}
    IN  own \cup added \cup point

\* It raises on a join that does not fit, and on X/Y columns that do not exist.
can_build(columns, cfg, joined) ==
    /\ join_from_clause(columns, cfg, joined)
    /\ cfg.xy => XYColumns \subseteq columns

NamesIn(select) == {p[1] : p \in select}

unique_names(select) == \A p, q \in select : p[1] = q[1] => p = q

\* A bug to compare with: all of them.
include_all(cfg) == [cfg EXCEPT !.excluded = {}]

\* Excluded columns are put back for the preview, without those a joined one replaces.
include_excluded(cfg) ==
    [cfg EXCEPT !.excluded =
        {c \in cfg.excluded : output_name(cfg, c) \in JoinedColumns(cfg)}]

-----------------------------------------------------------------------------
(* Sources and staging *)

Columns(t) == t.source.columns

\* The configuration the staging table of a dataset is previewed with.
ConfigOf(d) == Configured(config[d], Columns(staging[d]))

\* The join of a saved configuration, and the dataset joined, or None.
JoinOf(cfg) == IF cfg = None THEN None ELSE cfg.join
JoinedBy(cfg) == IF JoinOf(cfg) = None THEN None ELSE JoinOf(cfg).dataset

\* The final table a run or a preview joins, or None.
Joined(target) == IF target = None THEN None ELSE final[target]

\* What the source of a dataset may be found to hold, any time it is read.
Ingested == [d \in Datasets |-> UNION {ingest_into_postgis(s) : s \in Sources[d]}]

\* A staging run loads the source.
run_staging(d) ==
    /\ d \in live \cap submitted
    /\ \E t \in Ingested[d] : staging' = [staging EXCEPT ![d] = t]
    /\ submitted' = submitted \ {d}
    /\ UNCHANGED <<config, rule, live, named, retrieved, final, runs, vetted, writes>>

\* The source is submitted again: the former staging table is dropped, which a run
\* may be about to read, and the transformation is cleared.
edit_staging(d) ==
    /\ d \in live
    /\ submitted' = submitted \cup {d}
    /\ staging' = [staging EXCEPT ![d] = None]
    /\ config' = [config EXCEPT ![d] = None]
    /\ runs' = [runs EXCEPT ![d]["manual"].present = FALSE]
    /\ UNCHANGED <<rule, live, named, retrieved, final, vetted, writes>>

\* The rules that give each user's groups access to a dataset are changed.
change_access(d, u) ==
    /\ d \in live
    /\ \E value \in Rules[d][u] \ {rule[d][u]} : rule' = [rule EXCEPT ![d][u] = value]
    /\ UNCHANGED <<submitted, staging, config, live, named, retrieved, final, runs, vetted, writes>>

-----------------------------------------------------------------------------
(* What users configure and look at *)

\* Who asked for the join could read the dataset joined.
Vetting(u, d, join) ==
    IF join # None /\ compute_effective_access(u, join.dataset) # "none"
    THEN {<<d, join.dataset>>} ELSE {}

\* The columns are those the client sends, listed to it from any staging table the dataset had.
edit_staging_metadata(u, d, choice, listed) ==
    LET names == [c \in listed |-> IF choice.rename # None /\ choice.rename[1] = c
                                   THEN choice.rename[2] ELSE c]
    IN  /\ load_authorized_integrity_link(u, d, "METADATA_WRITE")
        /\ IsInjective(names)
        /\ choice.join # None => choice.join.dataset # d
        /\ resolve_join_target(u, choice.join)
        /\ config' = [config EXCEPT ![d] =
                         [columns |-> listed, excluded |-> choice.excluded \cap listed,
                          names |-> names, xy |-> choice.xy, join |-> choice.join]]
        /\ vetted' = vetted \cup Vetting(u, d, choice.join)
        /\ UNCHANGED <<submitted, staging, rule, live, named, retrieved, final, runs, writes>>

\* The table a dataset joins when it is previewed, or None.
JoinedNow(d) == Joined(JoinedBy(config[d]))

\* The preview runs the SELECT of the process on the staging table: the columns shown.
PreviewOf(d) ==
    build_transformation_select(d, Columns(staging[d]), ConfigOf(d), JoinedNow(d))

read_transformed_preview(d) == NamesIn(PreviewOf(d))

-----------------------------------------------------------------------------
(* Runs *)

\* A bound, not a guard of the code.
may_run ==
    Cardinality({x \in Datasets \X Kinds : runs[x[1]][x[2]] # NoRun}) < MaxRunning

Asked(t, cfg, target, rerun) ==
    [phase |-> "asked", present |-> t = None, staging |-> t, config |-> cfg, target |-> target,
     rerun |-> rerun]

\* The run names the staging table, which may not be loaded yet.
process_staging_data(u, d) ==
    /\ load_authorized_integrity_link(u, d, "OWNER_ONLY")
    /\ resolve_join_target(u, JoinOf(config[d]))
    /\ runs[d]["manual"] = NoRun /\ may_run
    /\ named' = named \cup {d}
    /\ vetted' = vetted \cup Vetting(u, d, JoinOf(config[d]))
    /\ runs' = [runs EXCEPT ![d]["manual"] =
                   Asked(None, config[d], JoinedBy(config[d]), d \in retrieved)]
    /\ UNCHANGED <<submitted, staging, config, rule, live, retrieved, final, writes>>

\* A schedule loads the source again, into a table of its own.  The joined dataset is
\* looked up in the rows: access to it was checked when the join was saved.
trigger_refresh(d) ==
    /\ d \in live \cap named \cap Recurring
    /\ runs[d]["scheduled"] = NoRun /\ may_run
    /\ \E t \in Ingested[d] :
           runs' = [runs EXCEPT ![d]["scheduled"] =
                       Asked(t, config[d],
                             IF JoinedBy(config[d]) \in live \cap named
                             THEN JoinedBy(config[d]) ELSE None, FALSE)]
    /\ UNCHANGED <<submitted, staging, config, rule, live, named, retrieved, final, vetted, writes>>

\* The staging table a run reads, or None.
StagingOf(d, r) == IF r.present THEN staging[d] ELSE r.staging

\* A manual run that fails is answered for by a failure callback. A refresh that fails
\* to transform goes on to its last task, and ends as a success.
Failed(d, k) ==
    runs' = [runs EXCEPT ![d][k] =
                [NoRun EXCEPT !.phase = IF k = "manual" THEN "failed" ELSE "success"]]

\* The former table of a manual re-run is dropped, then both tables are read for
\* their columns.  locked: datasets whose table is being read by a dump.
reflect_tables(d, k, locked) ==
    LET r == runs[d][k] IN
    /\ r.phase = "asked"
    /\ IF r.rerun THEN d \notin locked /\ final' = [final EXCEPT ![d] = None]
                  ELSE UNCHANGED final
    /\ IF StagingOf(d, r) # None
             /\ LET columns == Columns(StagingOf(d, r)) IN
                can_build(columns, Configured(r.config, columns), Joined(r.target))
       THEN runs' = [runs EXCEPT ![d][k].phase = "reflected"]
       ELSE Failed(d, k)
    /\ UNCHANGED <<submitted, staging, config, rule, live, named, retrieved, vetted, writes>>

\* A bug to compare with: the excluded columns are selected.
select_excluded(d, r) ==
    LET columns == Columns(StagingOf(d, r)) IN
    build_transformation_select(d, columns, include_excluded(Configured(r.config, columns)),
                                Joined(r.target))

\* The SELECT of a run, over what is in the tables when it is executed.
SelectOf(d, r) ==
    LET columns == Columns(StagingOf(d, r)) IN
    build_transformation_select(d, columns, Configured(r.config, columns), Joined(r.target))

\* The table a run writes, with its identifier.
Transformed(d, r) ==
    [columns |-> [n \in NamesIn(SelectOf(d, r)) \cup {ID_COLUMN} |->
                     IF n = ID_COLUMN THEN <<d, ID_COLUMN>>
                     ELSE (CHOOSE p \in SelectOf(d, r) : p[1] = n)[2]],
     joined |-> IF JoinOf(r.config) = None THEN None ELSE r.target,
     number |-> writes + 1]

\* The joined table, if any, still has the columns the SELECT names.
still_there(r) ==
    JoinOf(r.config) # None =>
        Joined(r.target) # None
        /\ {JoinKey} \cup JoinOf(r.config).columns \subseteq DOMAIN Joined(r.target).columns

\* A bug to compare with: the table is dropped in a transaction of its own.
dropped_first(d) == None

\* What a transaction that fails leaves of the former table: it was dropped in it.
rolled_back(d) == final[d]

\* The transaction fails on a table or a column that is gone since the tables were
\* reflected, and on a second id_datafeeder. Two other columns of one name are refused
\* or told apart, according to the library: the step may then go either way.
succeeds(d, r) ==
    /\ StagingOf(d, r) # None
    /\ still_there(r)
    /\ ID_COLUMN \notin NamesIn(SelectOf(d, r))

\* One transaction drops the former table and creates the new one. The task that drops
\* the staging table follows.
transform_staging_to_final(d, k, locked) ==
    LET r == runs[d][k] IN
    /\ r.phase = "reflected" /\ d \notin locked
    /\ \/ /\ succeeds(d, r) /\ writes < MaxWrites
          /\ final' = [final EXCEPT ![d] = Transformed(d, r)]
          /\ writes' = writes + 1
          /\ staging' = IF k = "manual" THEN [staging EXCEPT ![d] = None] ELSE staging
          /\ runs' = [runs EXCEPT ![d][k] = [NoRun EXCEPT !.phase = "success"]]
       \/ /\ succeeds(d, r) => ~unique_names(SelectOf(d, r))
          /\ final' = [final EXCEPT ![d] = rolled_back(d)]
          /\ Failed(d, k)
          /\ UNCHANGED <<staging, writes>>
    /\ UNCHANGED <<submitted, config, rule, live, named, retrieved, vetted>>

\* The callbacks of a run, of which the failure one drops the table.
dag_success_callback(d, k) ==
    /\ runs[d][k].phase = "success"
    /\ retrieved' = retrieved \cup {d}
    /\ runs' = [runs EXCEPT ![d][k] = NoRun]
    /\ UNCHANGED <<submitted, staging, config, rule, live, named, final, vetted, writes>>

dag_failure_callback(d, locked) ==
    /\ runs[d]["manual"].phase = "failed" /\ d \notin locked
    /\ final' = [final EXCEPT ![d] = None]
    /\ runs' = [runs EXCEPT ![d]["manual"] = NoRun]
    /\ UNCHANGED <<submitted, staging, config, rule, live, named, retrieved, vetted, writes>>

\* A dataset is deleted with its tables, and its runs are ended.
delete_dataset(d, locked) ==
    /\ d \in live \ locked
    /\ live' = live \ {d} /\ named' = named \ {d} /\ retrieved' = retrieved \ {d}
    /\ submitted' = submitted \ {d}
    /\ staging' = [staging EXCEPT ![d] = None]
    /\ config' = [config EXCEPT ![d] = None]
    /\ final' = [final EXCEPT ![d] = None]
    /\ runs' = [runs EXCEPT ![d] = [k \in Kinds |-> NoRun]]
    /\ UNCHANGED <<rule, vetted, writes>>

TransformationNext(locked) ==
    \E d \in Datasets :
        \/ run_staging(d) \/ edit_staging(d)
        \/ trigger_refresh(d) \/ delete_dataset(d, locked) \/ dag_failure_callback(d, locked)
        \/ \E u \in Users :
               \/ change_access(d, u)
               \/ process_staging_data(u, d)
               \/ \E choice \in Choices[d], t \in Ingested[d] :
                      edit_staging_metadata(u, d, choice, Columns(t))
        \/ \E k \in Kinds :
               \/ reflect_tables(d, k, locked)
               \/ transform_staging_to_final(d, k, locked)
               \/ dag_success_callback(d, k)

-----------------------------------------------------------------------------
(* Properties *)

\* Every staging table and every run that loaded a source holds its text as it was
\* written, and the only dataset of its archive, but for Central European text that
\* nothing declares, which is read as Western (ingestion.py, the .cpg, .cst and
\* chardet fallbacks, ogr2ogr that exits with 0 on a layer it gave up).
Declared(s) ==
    \/ \E f \in members(s, "cpg") : f.says = s.written
    \/ members(s, "cst") # {} /\ \A f \in members(s, "cst") : f.says = s.written

WellLoaded(t) ==
    /\ legible(t) \/ (t.source.written = "cp1250" /\ ~Declared(t.source))
    /\ t.source.zipped => Cardinality(datasets(t.source)) = 1

LoadedWhole ==
    \A d \in Datasets :
        /\ staging[d] # None => WellLoaded(staging[d])
        /\ runs[d]["scheduled"].staging # None => WellLoaded(runs[d]["scheduled"].staging)

\* An excluded geometry, given the name of a joined column that is not the geometry.
renamed_geometry(cfg) ==
    /\ GEOM \in cfg.columns \cap cfg.excluded
    /\ GEOM \notin JoinedColumns(cfg) /\ cfg.names[GEOM] \in JoinedColumns(cfg)

\* When the preview of a dataset can be built, so can the preview that puts its
\* excluded columns back, whatever was joined in their place, unless the excluded
\* geometry was given the name of a joined column: the name it is never written with
\* is then taken (staging.py, include_excluded; sql_transform.py, taken_names).
ExcludedPreviewable ==
    \A d \in Datasets :
        /\ staging[d] # None
        /\ can_build(Columns(staging[d]), ConfigOf(d), JoinedNow(d))
        /\ ~renamed_geometry(ConfigOf(d))
        => can_build(Columns(staging[d]), include_excluded(ConfigOf(d)), JoinedNow(d))

\* A final table holds columns of another dataset only if someone who could read that
\* dataset asked for the join, although schedules look it up without asking again
\* (join_target.py, process-dag-generator.py).
JoinVetted ==
    \A d \in Datasets :
        final[d] # None /\ final[d].joined # None => <<d, final[d].joined>> \in vetted

\* A manual run writes the columns a preview shows just before, as long as the dataset
\* is still staged and configured as when it was asked, unless two of them have one name
\* or one has that of the identifier the table is given (FR-021, sql_transform.py).
WrittenAsShown ==
    [][\A d \in Datasets :
          LET r == runs[d]["manual"] IN
          /\ r.phase = "reflected" /\ runs'[d]["manual"].phase # "reflected" /\ d \in live'
          /\ r.present /\ staging[d] # None /\ config[d] = r.config
          /\ can_build(Columns(staging[d]), ConfigOf(d), JoinedNow(d))
          /\ unique_names(PreviewOf(d)) /\ ID_COLUMN \notin read_transformed_preview(d)
          => final'[d] # None
             /\ DOMAIN final'[d].columns = read_transformed_preview(d) \cup {ID_COLUMN}]_tableVars

\* A published table goes only by a deletion or a manual run, a re-run or one that
\* fails: what has become of the source, of the configuration or of the joined table
\* makes a refresh fail, not lose the table (sql_transform.py, one transaction).
RefreshKeepsData ==
    [][\A d \in Datasets :
          final[d] # None /\ final'[d] = None =>
              \/ d \notin live'
              \/ runs[d]["manual"].rerun \/ runs[d]["manual"].phase = "failed"]_tableVars
=============================================================================
