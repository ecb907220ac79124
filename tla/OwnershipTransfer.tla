-------------------------- MODULE OwnershipTransfer --------------------------
(***************************************************************************)
(* PUT /ingestion/integrity-link/{id}/ownership, by which an administrator *)
(* gives a dataset to another organization: the final table moves to       *)
(* another schema, the layer to another workspace                          *)
(* (api/routes/ingestion/integrity_link_admin.py), while runs write tables *)
(* and callbacks publish layers (services/layer_publication.py).           *)
(*                                                                         *)
(* All the datasets have one title and would use one table name, the case  *)
(* where they meet: a table is known by its schema, a layer by its         *)
(* workspace. Processing a dataset is seen from here: a row that names its *)
(* table, a run that writes it, a callback.                                *)
(***************************************************************************)
EXTENDS Naturals, FiniteSets

CONSTANTS
    Links,          \* datasets
    NoLink,         \* owner of a table that does not exist
    Organizations,  \* also workspaces, and schemas when USE_ORG_SCHEMA is true
    DEFAULT_DATA_SCHEMA,
    None,           \* no organization, no schema
    InitialOrgSchema,  \* value of USE_ORG_SCHEMA at the start
    Recurring,      \* datasets with a schedule
    Faults          \* see FaultKinds

FaultKinds ==
    { "publish",   \* GeoServer refuses to publish a layer
      "delete",    \* GeoServer refuses to delete a layer
      "restore",   \* a table cannot be moved back
      "config" }   \* an operator changes USE_ORG_SCHEMA and restarts the services

ASSUME OwnershipAssumption ==
    /\ NoLink \notin Links
    /\ DEFAULT_DATA_SCHEMA \notin Organizations
    /\ None \notin Organizations \cup {DEFAULT_DATA_SCHEMA}
    /\ InitialOrgSchema \in BOOLEAN
    /\ Faults \subseteq FaultKinds

VARIABLES
    use_org_schema,  \* USE_ORG_SCHEMA, read by the backend and by Airflow
    row,             \* committed rows
    table,           \* the final table of each schema: the dataset it holds
    datastore,       \* the schema that the datastore of a workspace reads
    layers,          \* workspaces that hold the layer
    stale,           \* those whose layer GeoServer refused to delete
    dag,             \* target_schema in the conf of ingestion_<id>
    chosen,          \* names chosen by a POST /process that has not committed yet
    runs,            \* runs of process_dag, until their callback
    move             \* the reassignment in progress, between two of its steps

storeVars == <<datastore, layers, stale>>
vars == <<use_org_schema, row, table, datastore, layers, stale, dag, chosen, runs, move>>

-----------------------------------------------------------------------------

Schemas == Organizations \cup {DEFAULT_DATA_SCHEMA}

IntegrityLink ==
    [ organization : Organizations,
      named : BOOLEAN,                        \* final_table_name is set
      stamped : BOOLEAN,                      \* last_retrieval_timestamp is set
      data_id : Organizations \cup {None} ]   \* the workspace data_id names

Choice == [ link : Links, schema : Schemas ]

Run == [ link : Links, manual : BOOLEAN, schema : Schemas, step : {"running", "success"} ]

Move == [ phase : {"idle", "cancelled", "moved", "published"},
          link : Links \cup {NoLink}, to : Organizations \cup {None},
          current_ws : Organizations \cup {None},
          current_schema : Schemas \cup {None} ]

Idle == [ phase |-> "idle", link |-> NoLink, to |-> None, current_ws |-> None,
          current_schema |-> None ]

OwnershipTypeOK ==
    /\ use_org_schema \in BOOLEAN
    /\ row \in [Links -> IntegrityLink]
    /\ table \in [Schemas -> Links \cup {NoLink}]
    /\ datastore \in [Organizations -> Schemas \cup {None}]
    /\ layers \subseteq Organizations /\ stale \subseteq Organizations
    /\ chosen \subseteq Choice
    /\ dag \in [Links -> Schemas \cup {None}]
    /\ runs \subseteq Run
    /\ move \in Move

Init ==
    /\ use_org_schema = InitialOrgSchema
    /\ row \in [Links -> { x \in IntegrityLink :
                              ~x.named /\ ~x.stamped /\ x.data_id = None }]
    /\ table = [s \in Schemas |-> NoLink]
    /\ datastore = [o \in Organizations |-> None]
    /\ layers = {} /\ stale = {}
    /\ chosen = {}
    /\ dag = [l \in Links |-> None]
    /\ runs = {}
    /\ move = Idle

get_data_schema(o) == IF use_org_schema THEN o ELSE DEFAULT_DATA_SCHEMA

\* (integrity_organization, final_table_name) is UNIQUE in integrity_link.
name_taken(l, o) ==
    \E m \in Links \ {l} : row[m].named /\ row[m].organization = o

\* The reassignment and the callbacks are async handlers: they hold the event loop
\* from their first to their last step.
LoopFree == move.phase = "idle"

-----------------------------------------------------------------------------
(* Processing, as far as tables and layers go *)

\* POST /process, a threaded handler: the name is free in the schema, or the dataset's
\* since its last retrieval.
process(l) ==
    LET s == get_data_schema(row[l].organization) IN
    /\ row[l].stamped \/ table[s] = NoLink
    /\ ~ \E c \in chosen : c.link = l
    /\ ~ \E x \in runs : x.link = l /\ x.manual
    /\ chosen' = chosen \cup {[link |-> l, schema |-> s]}
    /\ UNCHANGED <<use_org_schema, row, table, storeVars, dag, runs, move>>

\* The row commits the name, whatever organization it has by then, and a run is
\* triggered for the schema of the choice; a name that is taken ends the request.
process_commit(c) ==
    LET l == c.link IN
    /\ chosen' = chosen \ {c}
    /\ IF name_taken(l, row[l].organization) THEN UNCHANGED <<row, runs>>
       ELSE /\ row' = [row EXCEPT ![l].named = TRUE]
            /\ runs' = runs \cup {[link |-> l, manual |-> TRUE, schema |-> c.schema,
                                   step |-> "running"]}
    /\ UNCHANGED <<use_org_schema, table, storeVars, dag, move>>

\* process-dag-generator.py: the DAG is parsed again.
create_dag(l) ==
    LET s == get_data_schema(row[l].organization) IN
    /\ l \in Recurring /\ row[l].named /\ dag[l] # s
    /\ dag' = [dag EXCEPT ![l] = s]
    /\ UNCHANGED <<use_org_schema, row, table, storeVars, runs, move, chosen>>

\* A cron fires for any dataset.
any_dag(l) == TRUE

\* An ingestion_<id> DAG exists once it was parsed.
parsed_dag(l) == dag[l] # None

\* Its cron starts a run with the schema of the last parsing.
trigger_process_dag(l) ==
    /\ parsed_dag(l)
    /\ ~ \E x \in runs : x.link = l /\ ~x.manual
    /\ runs' = runs \cup {[link |-> l, manual |-> FALSE, schema |-> dag[l], step |-> "running"]}
    /\ UNCHANGED <<use_org_schema, row, table, storeVars, dag, move, chosen>>

\* A run replaces the table of its target schema.
write(x) ==
    /\ x \in runs /\ x.step = "running"
    /\ table' = [table EXCEPT ![x.schema] = x.link]
    /\ runs' = (runs \ {x}) \cup {[x EXCEPT !.step = "success"]}
    /\ UNCHANGED <<use_org_schema, row, storeVars, dag, move, chosen>>

\* publish_table creates a datastore that is missing and never repoints one.
CanPublish(o, s) == table[s] # NoLink /\ datastore[o] \in {None, s}

Publish(o, s) ==
    /\ datastore' = [datastore EXCEPT ![o] = s]
    /\ layers' = layers \cup {o}
    /\ stale' = stale \ {o}

\* POST /dag_success: scheduled runs do not pass their target_schema. The
\* publication is best effort.
dag_success(x) ==
    LET l == x.link
        o == row[l].organization
        s == IF x.manual THEN x.schema ELSE get_data_schema(o)
    IN
    /\ LoopFree /\ x \in runs /\ x.step = "success"
    /\ runs' = runs \ {x}
    /\ \E published \in BOOLEAN :
         /\ published => CanPublish(o, s)
         /\ ~published => "publish" \in Faults \/ ~CanPublish(o, s)
         /\ IF published THEN Publish(o, s) ELSE UNCHANGED storeVars
         /\ row' = [row EXCEPT ![l] =
               [@ EXCEPT !.stamped = TRUE,
                         !.data_id = IF published THEN o ELSE row[l].data_id]]
    /\ UNCHANGED <<use_org_schema, table, dag, move, chosen>>

-----------------------------------------------------------------------------
(* reassign_integrity_link_ownership and _move_dataset *)

\* _locate_final_table: the datastore's schema, the configured one, the default
\* one and the workspace's, in that order.
Candidates(o, ws) == <<datastore[ws], get_data_schema(o), DEFAULT_DATA_SCHEMA, ws>>

locate_final_table(o, ws) ==
    LET c     == Candidates(o, ws)
        found == {i \in DOMAIN c : c[i] # None /\ table[c[i]] # NoLink}
    IN  IF found = {} THEN None
        ELSE c[CHOOSE i \in found : \A j \in found : i = j \/ i \in 1..j]

\* The 409 answers: no table, a datastore that reads another schema, a table or a
\* layer in the way.
MoveRefused(o, ws, schema, new_schema) ==
    \/ datastore[o] \notin {None, new_schema}
    \/ schema # new_schema /\ table[new_schema] # NoLink
    \/ ws # o /\ o \in layers

\* Runs of the dataset that would write to the old schema.
runs_to_cancel(l) == {x \in runs : x.link = l /\ x.step = "running"}

\* The request up to the cancellation of the runs (when that fails, 502 and nothing
\* happened). Without a table to move only the row changes.
reassign_ownership(l, o) ==
    LET ws == IF row[l].data_id # None THEN row[l].data_id ELSE row[l].organization
        schema == locate_final_table(row[l].organization, ws)
    IN
    /\ LoopFree /\ o # row[l].organization
    /\ \/ /\ ~row[l].named \/ (schema = get_data_schema(o) /\ ws = o)
          /\ row[l].named => ~name_taken(l, o)
          /\ row' = [row EXCEPT ![l].organization = o]
          /\ UNCHANGED <<runs, move>>
       \/ /\ row[l].named /\ schema # None
          /\ <<schema, ws>> # <<get_data_schema(o), o>>
          /\ ~MoveRefused(o, ws, schema, get_data_schema(o))
          /\ runs' = runs \ runs_to_cancel(l)
          /\ move' = [phase |-> "cancelled", link |-> l, to |-> o,
                      current_ws |-> ws, current_schema |-> schema]
          /\ UNCHANGED row
    /\ UNCHANGED <<use_org_schema, table, storeVars, dag, chosen>>

\* PostgreSQL refuses to move a table onto another, or one that is gone: 500.
Moved(from, to) ==
    IF from = to THEN table
    ELSE [table EXCEPT ![to] = table[from], ![from] = NoLink]

CanMove(from, to) == from = to \/ (table[from] # NoLink /\ table[to] = NoLink)

move_table ==
    LET new_schema == get_data_schema(move.to) IN
    /\ move.phase = "cancelled"
    /\ IF CanMove(move.current_schema, new_schema)
       THEN /\ table' = Moved(move.current_schema, new_schema)
            /\ move' = [move EXCEPT !.phase =
                           IF move.current_ws = move.to THEN "published" ELSE "moved"]
       ELSE move' = Idle /\ UNCHANGED table
    /\ UNCHANGED <<use_org_schema, row, storeVars, dag, runs, chosen>>

\* The table stays where it was moved although the layer was refused.
left_moved(schema, new_schema) == table

\* After a failed publication the table goes back to its former schema.
moved_back(schema, new_schema) == Moved(new_schema, schema)

\* The layer is published in the new workspace before the old one is removed; when
\* GeoServer fails the request ends with a 502.
publish_data_db_table ==
    LET o == move.to
        s == get_data_schema(move.to)
    IN
    /\ move.phase = "moved"
    /\ \/ /\ CanPublish(o, s)
          /\ Publish(o, s)
          /\ move' = [move EXCEPT !.phase = "published"]
          /\ UNCHANGED table
       \/ /\ "publish" \in Faults \/ ~CanPublish(o, s)
          /\ \/ /\ CanMove(s, move.current_schema)
                /\ table' = moved_back(move.current_schema, s)
             \/ /\ "restore" \in Faults \/ ~CanMove(s, move.current_schema)
                /\ UNCHANGED table
          /\ move' = Idle
          /\ UNCHANGED storeVars
    /\ UNCHANGED <<use_org_schema, row, dag, runs, chosen>>

\* The old layer is kept; or the layer is looked up in the organization of the row,
\* which is the new one by then.
kept_layers == {}
new_layers == {move.to}

\* The layer of the former workspace.
layers_to_delete == {move.current_ws} \ {move.to}

\* The columns of a reassigned row; publish_table set data_id.
reassigned(l) ==
    [row[l] EXCEPT !.organization = move.to,
                   !.data_id = IF move.current_ws = move.to THEN @ ELSE move.to]

\* delete_layer logs what GeoServer answers and goes on.
delete_layer(deleted) ==
    \/ /\ layers' = layers \ deleted
       /\ UNCHANGED stale
    \/ /\ "delete" \in Faults
       /\ stale' = stale \cup (layers \cap deleted)
       /\ UNCHANGED layers

\* The old layer is deleted, then the row committed; the commit fails when a
\* dataset of the new organization has the table name.
finish_reassignment ==
    LET l == move.link IN
    /\ move.phase = "published"
    /\ delete_layer(layers_to_delete)
    /\ row' = IF name_taken(l, move.to) THEN row
              ELSE [row EXCEPT ![l] = reassigned(l)]
    /\ move' = Idle
    /\ UNCHANGED <<use_org_schema, table, datastore, dag, runs, chosen>>

\* The services restart with the other value; the requests in progress are lost.
change_configuration ==
    /\ "config" \in Faults /\ LoopFree /\ use_org_schema = InitialOrgSchema
    /\ use_org_schema' = ~use_org_schema
    /\ chosen' = {}
    /\ UNCHANGED <<row, table, storeVars, dag, runs, move>>

-----------------------------------------------------------------------------

Next ==
    \/ \E l \in Links : process(l) \/ create_dag(l) \/ trigger_process_dag(l)
    \/ \E c \in chosen : process_commit(c)
    \/ \E x \in runs : write(x) \/ dag_success(x)
    \/ \E l \in Links, o \in Organizations : reassign_ownership(l, o)
    \/ move_table
    \/ publish_data_db_table
    \/ finish_reassignment
    \/ change_configuration

Spec == Init /\ [][Next]_vars

-----------------------------------------------------------------------------
(* Properties *)

BeingMoved(l) == move.link = l

\* The layer a dataset names exists, in a workspace whose datastore reads the schema
\* that holds the dataset's table, whatever reassignments succeeded, were refused or
\* failed halfway (_move_dataset, publish_table: a datastore is never repointed).
LayerReadsOwnTable ==
    \A l \in Links : row[l].data_id # None /\ ~BeingMoved(l) =>
        LET ws == row[l].data_id IN
        /\ ws \in layers
        /\ datastore[ws] # None
        /\ table[datastore[ws]] = l

\* A layer stays in a workspace that no dataset names only where GeoServer refused to
\* delete it; a reassignment that fails, is refused or ends without a layer leaves none
\* (_move_dataset, geoserver.py delete_layer).
OldLayerWithdrawn ==
    move.phase = "idle" => layers \subseteq {row[l].data_id : l \in Links} \cup stale

-----------------------------------------------------------------------------
(* What the documentation says *)

\* "409 if the table is missing, a name is taken [...]": a request that is refused
\* has moved nothing (integrity_link_admin.py, reassign_integrity_link_ownership).
RefusedMovesNothing ==
    [][move.phase # "idle" /\ move'.phase = "idle" /\ row' = row
        => table'[move.current_schema] = move.link]_vars
=============================================================================
