------------------------ MODULE OwnershipTransferProofs ------------------------
(***************************************************************************)
(* A dataset that moves between organizations keeps a layer that reads its *)
(* table, and leaves behind only what GeoServer refused to delete, for any *)
(* number of organizations.                                                *)
(***************************************************************************)
EXTENDS OwnershipTransfer, TLAPS

\* The first candidate schema that holds the table is the one that is taken.
LEMMA FirstFound ==
    ASSUME NEW found \in SUBSET (1..4), found # {},
           NEW i, i = CHOOSE k \in found : \A j \in found : k = j \/ k \in 1..j
    PROVE  i \in found /\ (1 \in found => i = 1)
  <1>1. \E k \in found : \A j \in found : k = j \/ k \in 1..j
    <2>1. CASE 1 \in found
      BY <2>1
    <2>2. CASE 1 \notin found /\ 2 \in found
      BY <2>2
    <2>3. CASE 1 \notin found /\ 2 \notin found /\ 3 \in found
      BY <2>3
    <2>4. CASE 1 \notin found /\ 2 \notin found /\ 3 \notin found
      <3>1. \A j \in found : j = 4
        BY <2>4
      <3>2. 4 \in found
        BY <3>1, Zenon
      <3> QED
        BY <3>1, <3>2
    <2> QED
      BY <2>1, <2>2, <2>3, <2>4
  <1>2. i \in found /\ \A j \in found : i = j \/ i \in 1..j
    BY <1>1, Zenon
  <1> QED
    BY <1>2

\* A table is located in a schema, or not at all.
LEMMA Located ==
    ASSUME OwnershipTypeOK, NEW o \in Organizations, NEW ws \in Organizations
    PROVE  /\ locate_final_table(o, ws) \in Schemas \cup {None}
           /\ locate_final_table(o, ws) # None =>
                 table[locate_final_table(o, ws)] # NoLink
           /\ datastore[ws] # None /\ table[datastore[ws]] # NoLink =>
                 locate_final_table(o, ws) = datastore[ws]
  <1> DEFINE c     == Candidates(o, ws)
             found == {i \in DOMAIN c : c[i] # None /\ table[c[i]] # NoLink}
             i     == CHOOSE i \in found : \A j \in found : i = j \/ i \in 1..j
  <1>1. /\ DOMAIN c = 1..4 /\ c[1] = datastore[ws]
        /\ \A k \in 1..4 : c[k] \in Schemas \cup {None}
    BY DEF Candidates, Schemas, get_data_schema, OwnershipTypeOK
  <1>2. locate_final_table(o, ws) = IF found = {} THEN None ELSE c[i]
    BY DEF locate_final_table
  <1> HIDE DEF c
  <1>3. found \subseteq 1..4
    BY <1>1
  <1>4. found # {} => i \in found /\ (1 \in found => i = 1)
    BY <1>3, FirstFound
  <1>5. datastore[ws] # None /\ table[datastore[ws]] # NoLink => 1 \in found
    BY <1>1
  <1> QED
    BY <1>1, <1>2, <1>4, <1>5

\* A reassignment in progress names a dataset, organizations and the schema of its table.
MoveInv ==
    move.phase # "idle" =>
        /\ move.link \in Links /\ move.to \in Organizations
        /\ move.current_ws \in Organizations /\ move.current_schema \in Schemas

TypeInv == OwnershipTypeOK /\ MoveInv

\* Each step keeps TypeInv.
LEMMA TypeStep ==
    ASSUME TypeInv, [Next]_vars
    PROVE  TypeInv'
  <1> USE OwnershipAssumption DEF TypeInv, OwnershipTypeOK, MoveInv
  <1>1. CASE UNCHANGED vars
    BY <1>1 DEF vars, storeVars
  <1>2. ASSUME NEW l \in Links, process(l)
        PROVE  TypeInv'
    <2> DEFINE s == get_data_schema(row[l].organization)
               c == [link |-> l, schema |-> s]
    <2>1. s \in Schemas /\ row[l] \in IntegrityLink
      BY DEF get_data_schema, Schemas, IntegrityLink
    <2>2. c \in Choice
      BY <2>1 DEF Choice
    <2> HIDE DEF s, c
    <2>3. chosen' = chosen \cup {c}
      BY <1>2 DEF process, s, c
    <2> QED
      BY <1>2, <2>2, <2>3 DEF process, storeVars
  <1>3. ASSUME NEW c \in chosen, process_commit(c)
         PROVE  TypeInv'
    <2> DEFINE l == c.link
               x == [link |-> l, manual |-> TRUE, schema |-> c.schema, step |-> "running"]
    <2>1. l \in Links /\ c.schema \in Schemas /\ row[l] \in IntegrityLink
      BY DEF Choice
    <2>2. x \in Run
      BY <2>1 DEF Run
    <2> HIDE DEF l, x
    <2>3. \/ UNCHANGED <<row, runs>>
          \/ runs' = runs \cup {x} /\ row' = [row EXCEPT ![l] = [row[l] EXCEPT !.named = TRUE]]
      BY <1>3 DEF process_commit, l, x
    <2>4. [row[l] EXCEPT !.named = TRUE] \in IntegrityLink
      BY <2>1 DEF IntegrityLink
    <2>5. row' \in [Links -> IntegrityLink] /\ runs' \subseteq Run
      <3> DEFINE named == [row[l] EXCEPT !.named = TRUE]
      <3>1. \/ UNCHANGED <<row, runs>>
            \/ runs' = runs \cup {x} /\ row' = [row EXCEPT ![l] = named]
        BY <2>3
      <3>2. named \in IntegrityLink
        BY <2>4
      <3> HIDE DEF named
      <3> QED
        BY <2>1, <2>2, <3>1, <3>2
    <2>6. chosen' \subseteq Choice
      BY <1>3 DEF process_commit
    <2>7. UNCHANGED <<use_org_schema, table, storeVars, dag, move>>
      BY <1>3 DEF process_commit
    <2> QED
      BY <2>5, <2>6, <2>7 DEF storeVars
  <1>4. ASSUME NEW l \in Links, create_dag(l)
        PROVE  TypeInv'
    <2>1. get_data_schema(row[l].organization) \in Schemas
      BY DEF get_data_schema, Schemas, IntegrityLink
    <2>2. dag' \in [Links -> Schemas \cup {None}]
      BY <1>4, <2>1 DEF create_dag
    <2> QED
      BY <1>4, <2>2 DEF create_dag, storeVars
  <1>5. ASSUME NEW l \in Links, trigger_process_dag(l)
        PROVE  TypeInv'
    <2> DEFINE x == [link |-> l, manual |-> FALSE, schema |-> dag[l], step |-> "running"]
    <2>1. dag[l] \in Schemas
      BY <1>5 DEF trigger_process_dag, parsed_dag
    <2>2. x \in Run
      BY <2>1 DEF Run
    <2> HIDE DEF x
    <2>3. runs' = runs \cup {x}
      BY <1>5 DEF trigger_process_dag, x
    <2> QED
      BY <1>5, <2>2, <2>3 DEF trigger_process_dag, storeVars
  <1>6. ASSUME NEW x \in runs, write(x)
        PROVE  TypeInv'
    <2>1. x \in Run
      OBVIOUS
    <2>2. [x EXCEPT !.step = "success"] \in Run /\ x.link \in Links /\ x.schema \in Schemas
      BY <2>1 DEF Run
    <2>3. table' \in [Schemas -> Links \cup {NoLink}] /\ runs' \subseteq Run
      BY <1>6, <2>2 DEF write
    <2> QED
      BY <1>6, <2>3 DEF write, storeVars
  <1>7. ASSUME NEW x \in runs, dag_success(x)
        PROVE  TypeInv'
    <2> DEFINE o == row[x.link].organization
               s == IF x.manual THEN x.schema ELSE get_data_schema(o)
    <2>1. /\ x.link \in Links /\ o \in Organizations /\ s \in Schemas
          /\ row[x.link] \in IntegrityLink
      BY DEF Run, IntegrityLink, get_data_schema, Schemas
    <2> HIDE DEF o, s
    <2>2. PICK published \in BOOLEAN :
              /\ IF published THEN Publish(o, s) ELSE UNCHANGED storeVars
              /\ row' = [row EXCEPT ![x.link] =
                    [@ EXCEPT !.stamped = TRUE,
                              !.data_id = IF published THEN o ELSE row[x.link].data_id]]
      BY <1>7 DEF dag_success, o, s
    <2>3. /\ datastore' \in [Organizations -> Schemas \cup {None}]
          /\ layers' \subseteq Organizations /\ stale' \subseteq Organizations
      BY <2>1, <2>2 DEF Publish, storeVars
    <2>4. row' \in [Links -> IntegrityLink]
      <3> DEFINE data == IF published THEN o ELSE row[x.link].data_id
                 new  == [row[x.link] EXCEPT !.stamped = TRUE, !.data_id = data]
      <3>1. data \in Organizations \cup {None}
        BY <2>1 DEF IntegrityLink
      <3>2. row' = [row EXCEPT ![x.link] = new]
        BY <2>2, Zenon
      <3> HIDE DEF data
      <3>3. new \in IntegrityLink
        BY <2>1, <3>1 DEF IntegrityLink
      <3> HIDE DEF new
      <3> QED
        BY <3>2, <3>3
    <2> QED
      BY <1>7, <2>3, <2>4 DEF dag_success
  <1>8. ASSUME NEW l \in Links, NEW o \in Organizations, reassign_ownership(l, o)
        PROVE  TypeInv'
    <2> DEFINE ws     == IF row[l].data_id # None THEN row[l].data_id ELSE row[l].organization
               schema == locate_final_table(row[l].organization, ws)
    <2>1. row[l].organization \in Organizations /\ ws \in Organizations
      BY DEF IntegrityLink
    <2>2. schema \in Schemas \cup {None}
      BY <2>1, Located
    <2> HIDE DEF ws, schema
    <2>3. UNCHANGED <<use_org_schema, table, datastore, layers, stale, dag, chosen>>
      BY <1>8 DEF reassign_ownership, storeVars
    <2>4. CASE row' = [row EXCEPT ![l].organization = o] /\ UNCHANGED <<runs, move>>
      <3>1. row' = [row EXCEPT ![l] = [row[l] EXCEPT !.organization = o]]
        BY <2>4
      <3>2. [row[l] EXCEPT !.organization = o] \in IntegrityLink
        BY DEF IntegrityLink
      <3> QED
        BY <2>3, <2>4, <3>1, <3>2
    <2>5. CASE /\ schema # None
               /\ runs' = runs \ runs_to_cancel(l) /\ UNCHANGED row
               /\ move' = [phase |-> "cancelled", link |-> l, to |-> o,
                           current_ws |-> ws, current_schema |-> schema]
      <3>1. move' \in Move /\ MoveInv'
        BY <2>1, <2>2, <2>5 DEF Move
      <3> QED
        BY <2>3, <2>5, <3>1
    <2> QED
      BY <1>8, <2>4, <2>5 DEF reassign_ownership, ws, schema
  <1>9. CASE move_table
    <2>1. move.to \in Organizations \cup {None} /\ move.current_schema \in Schemas \cup {None}
      BY DEF Move
    <2>2. table' \in [Schemas -> Links \cup {NoLink}]
      BY <1>9, <2>1 DEF move_table, Moved
    <2>3. \/ move' = Idle
          \/ \E phase \in {"moved", "published"} : move' = [move EXCEPT !.phase = phase]
      BY <1>9 DEF move_table
    <2>4. move.phase # "idle"
      BY <1>9 DEF move_table
    <2>5. move' \in Move /\ MoveInv'
      BY <2>3, <2>4 DEF Move, Idle
    <2> QED
      BY <1>9, <2>2, <2>5 DEF move_table, storeVars
  <1>10. CASE publish_data_db_table
    <2> DEFINE s == get_data_schema(move.to)
    <2>1. s \in Schemas /\ move.to \in Organizations /\ move.current_schema \in Schemas
      BY <1>10 DEF publish_data_db_table, get_data_schema, Schemas
    <2> HIDE DEF s
    <2>2. /\ table' \in {table, Moved(s, move.current_schema)}
          /\ UNCHANGED storeVars \/ Publish(move.to, s)
          /\ move' \in {Idle, [move EXCEPT !.phase = "published"]}
      BY <1>10 DEF publish_data_db_table, moved_back, s
    <2>3. table' \in [Schemas -> Links \cup {NoLink}]
      BY <2>1, <2>2 DEF Moved
    <2>4. datastore' \in [Organizations -> Schemas \cup {None}] /\ layers' \subseteq Organizations /\ stale' \subseteq Organizations
      BY <2>1, <2>2 DEF Publish, storeVars
    <2>5. move' \in Move /\ MoveInv'
      BY <1>10, <2>2 DEF publish_data_db_table, Move, Idle
    <2> QED
      BY <1>10, <2>3, <2>4, <2>5 DEF publish_data_db_table
  <1>11. CASE finish_reassignment
    <2>1. /\ move.link \in Links /\ move.to \in Organizations
          /\ row[move.link] \in IntegrityLink
      BY <1>11 DEF finish_reassignment
    <2>2. reassigned(move.link) \in IntegrityLink
      BY <2>1 DEF reassigned, IntegrityLink
    <2>3. row' \in [Links -> IntegrityLink]
      BY <1>11, <2>1, <2>2 DEF finish_reassignment
    <2>4. move' \in Move /\ move'.phase = "idle"
      BY <1>11 DEF finish_reassignment, Move, Idle
    <2>5. layers' \subseteq Organizations /\ stale' \subseteq Organizations
      BY <1>11 DEF finish_reassignment, delete_layer
    <2> QED
      BY <1>11, <2>3, <2>4, <2>5 DEF finish_reassignment
  <1>12. CASE change_configuration
    BY <1>12 DEF change_configuration, storeVars
  <1> QED
    BY <1>1, <1>2, <1>4, <1>5, <1>6, <1>7, <1>8, <1>9, <1>10, <1>11, <1>12, <1>3 DEF Next

\* TypeInv holds at first.
LEMMA TypeInit == Init => TypeInv
  <1> USE OwnershipAssumption DEF TypeInv, OwnershipTypeOK, MoveInv
  <1> SUFFICES ASSUME Init PROVE TypeInv
    OBVIOUS
  <1>1. row \in [Links -> IntegrityLink]
    BY DEF Init
  <1>2. move \in Move /\ move.phase = "idle"
    BY DEF Init, Idle, Move
  <1> QED
    BY <1>1, <1>2 DEF Init, Schemas

\* Type correctness, for any datasets, organizations and failures: a reassignment always
\* goes between a schema and a workspace that exist.
THEOREM OwnershipTypeOKAlways == Spec => []OwnershipTypeOK
  <1>1. TypeInv => OwnershipTypeOK
    BY DEF TypeInv
  <1> QED
    BY <1>1, TypeInit, TypeStep, PTL DEF Spec

-----------------------------------------------------------------------------
(* One dataset, any organizations *)

\* The layer of a workspace reads the dataset's table.
Backed(l, ws) == ws \in layers /\ datastore[ws] # None /\ table[datastore[ws]] = l

\* The workspace a reassignment starts from is the one that data_id names, its schema the
\* one that workspace reads; without a published layer there is nothing to lose. The
\* target's datastore is missing or reads the schema the table goes to.
MovingInv(l) ==
    LET data == row[l].data_id IN
    /\ move.link = l /\ row[l].named /\ row[l].organization # move.to
    /\ move.phase \in {"cancelled", "moved"} =>
          /\ data # None => /\ move.current_ws = data /\ data \in layers
                           /\ datastore[data] = move.current_schema
          /\ layers \subseteq {data} \cup stale
    /\ move.phase = "cancelled" =>
          /\ table[move.current_schema] = l
          /\ move.current_ws = move.to => data = None
    /\ move.phase = "moved" =>
          /\ move.current_ws # move.to /\ table[get_data_schema(move.to)] = l
    /\ move.phase = "published" =>
          IF move.current_ws = move.to THEN data = None /\ layers \subseteq stale
          ELSE Backed(l, move.to) /\ layers \subseteq {move.current_ws, move.to} \cup stale

\* At rest, a layer that is named is there, in the workspace of the dataset's organization,
\* and the only one apart from those GeoServer refused to delete.
LayerInv(l) ==
    LET data == row[l].data_id IN
    /\ ~row[l].named => data = None /\ runs = {} /\ dag[l] = None
    /\ data \in {None, row[l].organization}
    /\ IF move.phase = "idle"
       THEN /\ data # None => Backed(l, data)
            /\ layers \subseteq {data} \cup stale /\ move.link = NoLink
       ELSE MovingInv(l)

\* Tables are the dataset's or nobody's.
LEMMA OwnTables ==
    ASSUME TypeInv, NEW l, Links = {l}
    PROVE  \A s \in Schemas : table[s] \in {l, NoLink}
  BY DEF TypeInv, OwnershipTypeOK

\* LayerInv holds at first.
LEMMA LayerInit ==
    ASSUME NEW l, Links = {l}
    PROVE  Init => LayerInv(l)
  <1> SUFFICES ASSUME Init PROVE LayerInv(l)
    OBVIOUS
  <1>1. /\ row[l].data_id = None /\ runs = {} /\ dag[l] = None /\ layers = {}
        /\ move.phase = "idle" /\ move.link = NoLink
    BY DEF Init, Idle
  <1> QED
    BY <1>1 DEF LayerInv

\* Processing, the schedule and the runs.
LEMMA RunsLayer ==
    ASSUME TypeInv, NEW l, Links = {l}, LayerInv(l),
           \/ process(l) \/ create_dag(l) \/ trigger_process_dag(l)
           \/ \E c \in chosen : process_commit(c)
           \/ \E x \in runs : write(x)
           \/ change_configuration
    PROVE  LayerInv(l)'
  <1> USE DEF storeVars
  <1>1. UNCHANGED <<datastore, layers, stale, move>>
    BY DEF process, process_commit, create_dag, trigger_process_dag, write, change_configuration
  <1>2. /\ row \in [Links -> IntegrityLink] /\ table \in [Schemas -> Links \cup {NoLink}]
        /\ row[l] \in IntegrityLink /\ runs \subseteq Run
        /\ \A c \in chosen : c.link = l
    BY DEF TypeInv, OwnershipTypeOK, Choice
  <1>3. ASSUME NEW c \in chosen, process_commit(c)
         PROVE  \/ UNCHANGED <<row, runs>>
                \/ row' = [row EXCEPT ![l] = [row[l] EXCEPT !.named = TRUE]]
    BY <1>2, <1>3 DEF process_commit
  <1>4. ASSUME NEW c \in chosen, process_commit(c)
         PROVE  UNCHANGED <<table, dag>>
    BY <1>4 DEF process_commit
  <1>5. /\ row'[l].data_id = row[l].data_id /\ row'[l].organization = row[l].organization
        /\ (row[l].named => row'[l].named)
    BY <1>2, <1>3 DEF process, create_dag, trigger_process_dag, write, change_configuration, IntegrityLink
  <1>6. ~row'[l].named => row'[l].data_id = None /\ runs' = {} /\ dag'[l] = None
    BY <1>2, <1>5, <1>3, <1>4 DEF LayerInv, process, create_dag, trigger_process_dag, parsed_dag, write,
                      change_configuration, IntegrityLink
  <1>7. \A s \in Schemas : table[s] = l => table'[s] = l
    BY <1>2, <1>4 DEF process, create_dag, trigger_process_dag, write, change_configuration, Run
  <1>8. move.phase # "idle" => UNCHANGED use_org_schema
    BY DEF process, process_commit, create_dag, trigger_process_dag, write, change_configuration, LoopFree
  <1>9. /\ \A o \in Organizations : datastore[o] \in Schemas \cup {None}
        /\ row[l].data_id \in Organizations \cup {None} /\ None \notin Schemas
        /\ move.phase # "idle" => /\ get_data_schema(move.to) \in Schemas
                                 /\ move.to \in Organizations
                                 /\ move.current_schema \in Schemas
    BY <1>2, OwnershipAssumption
    DEF TypeInv, OwnershipTypeOK, MoveInv, IntegrityLink, get_data_schema, Schemas
  <1>10. move.phase # "idle" => get_data_schema(move.to)' = get_data_schema(move.to)
    BY <1>1, <1>8 DEF get_data_schema
  <1>11. CASE move.phase = "idle"
    <2>1. row[l].data_id # None => Backed(l, row[l].data_id)'
      BY <1>1, <1>5, <1>7, <1>9, <1>11 DEF LayerInv, Backed
    <2> QED
      BY <1>1, <1>5, <1>6, <1>11, <2>1 DEF LayerInv
  <1>12. CASE move.phase # "idle"
    <2>1. MovingInv(l)'
      <3>1. MovingInv(l)
        BY <1>12 DEF LayerInv
      <3>2. CASE move.phase = "cancelled"
        BY <1>1, <1>5, <1>7, <1>9, <1>12, <3>1, <3>2 DEF MovingInv
      <3>3. CASE move.phase = "moved"
        BY <1>1, <1>5, <1>7, <1>9, <1>10, <1>12, <3>1, <3>3 DEF MovingInv
      <3>4. CASE move.phase = "published"
        <4>1. CASE move.current_ws = move.to
          BY <1>1, <1>5, <3>1, <3>4, <4>1 DEF MovingInv
        <4>2. CASE move.current_ws # move.to
          BY <1>1, <1>5, <1>7, <1>9, <1>12, <3>1, <3>4, <4>2 DEF MovingInv, Backed
        <4> QED
          BY <4>1, <4>2
      <3> QED
        BY <1>12, <3>2, <3>3, <3>4 DEF TypeInv, OwnershipTypeOK, Move
    <2> QED
      BY <1>1, <1>5, <1>6, <1>12, <2>1 DEF LayerInv
  <1> QED
    BY <1>11, <1>12

\* A callback publishes the table in the workspace of the organization.
LEMMA CallbackLayer ==
    ASSUME TypeInv, NEW l, Links = {l}, LayerInv(l), NEW x \in runs, dag_success(x)
    PROVE  LayerInv(l)'
  <1> DEFINE o == row[l].organization
             s == IF x.manual THEN x.schema ELSE get_data_schema(o)
  <1>1. /\ row \in [Links -> IntegrityLink] /\ row[l] \in IntegrityLink /\ x.link = l
        /\ o \in Organizations /\ s \in Schemas /\ row[l].data_id \in Organizations \cup {None}
        /\ datastore \in [Organizations -> Schemas \cup {None}] /\ None \notin Schemas
        /\ None \notin Organizations
    BY OwnershipAssumption DEF TypeInv, OwnershipTypeOK, IntegrityLink, Run, get_data_schema, Schemas
  <1>2. row[l].named /\ move.phase = "idle" /\ UNCHANGED <<table, dag, move>>
    BY DEF LayerInv, dag_success, LoopFree
  <1> HIDE DEF o, s
  <1>3. PICK published \in BOOLEAN :
            /\ published => CanPublish(o, s)
            /\ IF published THEN Publish(o, s) ELSE UNCHANGED storeVars
            /\ row' = [row EXCEPT ![l] =
                  [@ EXCEPT !.stamped = TRUE, !.data_id = IF published THEN o ELSE row[l].data_id]]
    BY <1>1 DEF dag_success, o, s
  <1>4. /\ row'[l].named /\ row'[l].organization = o
        /\ row'[l].data_id = IF published THEN o ELSE row[l].data_id
    <2> DEFINE data == IF published THEN o ELSE row[l].data_id
    <2>1. row' = [row EXCEPT ![l] = [row[l] EXCEPT !.stamped = TRUE, !.data_id = data]]
      BY <1>3, Zenon
    <2> HIDE DEF data
    <2>2. row'[l].named = row[l].named /\ row'[l].organization = o /\ row'[l].data_id = data
      BY <1>1, <2>1 DEF IntegrityLink, o
    <2> QED
      BY <1>2, <2>2 DEF data
  <1>5. CASE published
    <2>1. /\ layers' = layers \cup {o} /\ stale' = stale \ {o}
          /\ datastore'[o] = s /\ table[s] = l
      BY <1>1, <1>3, <1>5, OwnTables DEF Publish, CanPublish
    <2>2. layers \subseteq {o} \cup stale
      BY <1>1, <1>2 DEF LayerInv, TypeInv, OwnershipTypeOK, o
    <2> QED
      BY <1>1, <1>2, <1>4, <1>5, <2>1, <2>2 DEF LayerInv, Backed
  <1>6. CASE ~published
    BY <1>1, <1>2, <1>3, <1>4, <1>6 DEF LayerInv, Backed, storeVars, o
  <1> QED
    BY <1>5, <1>6

\* The steps of a reassignment.
LEMMA ReassignLayer ==
    ASSUME TypeInv, NEW l, Links = {l}, LayerInv(l), NEW o \in Organizations,
           reassign_ownership(l, o)
    PROVE  LayerInv(l)'
  <1> DEFINE data   == row[l].data_id
             ws     == IF data # None THEN data ELSE row[l].organization
             schema == locate_final_table(row[l].organization, ws)
  <1>1. /\ row \in [Links -> IntegrityLink] /\ row[l] \in IntegrityLink
        /\ row[l].organization \in Organizations /\ ws \in Organizations
        /\ datastore \in [Organizations -> Schemas \cup {None}]
        /\ None \notin Schemas /\ None \notin Organizations /\ NoLink # l
    BY OwnershipAssumption DEF TypeInv, OwnershipTypeOK, IntegrityLink, Schemas
  <1>2. /\ move.phase = "idle" /\ o # row[l].organization
        /\ UNCHANGED <<use_org_schema, table, datastore, layers, stale, dag>>
    BY DEF reassign_ownership, LoopFree, storeVars
  <1>3. /\ data \in {None, row[l].organization} /\ layers \subseteq {data} \cup stale /\ move.link = NoLink
        /\ data # None => Backed(l, data)
        /\ ~row[l].named => data = None /\ runs = {} /\ dag[l] = None
    BY <1>2 DEF LayerInv
  <1>4. CASE /\ ~row[l].named \/ ws = o
             /\ row' = [row EXCEPT ![l].organization = o] /\ UNCHANGED <<runs, move>>
    <2>1. data = None
      BY <1>2, <1>3, <1>4
    <2>2. row'[l].data_id = None /\ row'[l].named = row[l].named
      BY <1>1, <1>4, <2>1 DEF IntegrityLink
    <2> QED
      BY <1>2, <1>3, <1>4, <2>1, <2>2 DEF LayerInv
  <1>5. CASE /\ row[l].named /\ schema # None /\ UNCHANGED row
             /\ move' = [phase |-> "cancelled", link |-> l, to |-> o,
                         current_ws |-> ws, current_schema |-> schema]
    <2>1. /\ schema \in Schemas \cup {None}
          /\ schema # None => table[schema] # NoLink
          /\ datastore[ws] # None /\ table[datastore[ws]] # NoLink => schema = datastore[ws]
      <3>1. OwnershipTypeOK
        BY DEF TypeInv
      <3> HIDE DEF ws
      <3> QED
        BY <1>1, <3>1, Located, Zenon
    <2> HIDE DEF schema
    <2>2. /\ schema \in Schemas /\ table[schema] = l
      BY <1>5, <2>1, OwnTables
    <2>3. data # None => schema = datastore[data] /\ ws = data /\ data \in layers
      BY <1>1, <1>3, <2>1 DEF Backed
    <2> HIDE DEF ws
    <2>4. ws = o => data = None
      BY <1>2, <1>3, <2>3
    <2>5. MovingInv(l)'
      BY <1>2, <1>3, <1>5, <2>2, <2>3, <2>4 DEF MovingInv
    <2> QED
      BY <1>2, <1>3, <1>5, <2>5 DEF LayerInv
  <1> QED
    BY <1>4, <1>5 DEF reassign_ownership

\* The table is moved: the layer is still that of the old workspace.
LEMMA MoveTableLayer ==
    ASSUME TypeInv, NEW l, Links = {l}, LayerInv(l), move_table
    PROVE  LayerInv(l)'
  <1> DEFINE data == row[l].data_id
             from == move.current_schema
             to   == get_data_schema(move.to)
  <1>1. /\ move.phase = "cancelled" /\ move \in Move /\ from \in Schemas /\ to \in Schemas
        /\ table \in [Schemas -> Links \cup {NoLink}] /\ NoLink # l
        /\ None \notin Schemas /\ None \notin Organizations /\ layers \subseteq Organizations
        /\ UNCHANGED <<use_org_schema, row, datastore, layers, stale, dag, runs>>
    BY OwnershipAssumption DEF move_table, TypeInv, OwnershipTypeOK, MoveInv, Schemas,
       get_data_schema, storeVars
  <1>2. /\ move.link = l /\ row[l].named /\ row[l].organization # move.to /\ table[from] = l
        /\ layers \subseteq {data} \cup stale
        /\ data # None => /\ move.current_ws = data /\ data \in layers
                         /\ datastore[data] = from
        /\ move.current_ws = move.to => data = None
        /\ data \in {None, row[l].organization}
        /\ ~row[l].named => data = None /\ runs = {} /\ dag[l] = None
    BY <1>1 DEF LayerInv, MovingInv
  <1>3. CASE ~CanMove(from, to)
    <2>1. move' = Idle /\ UNCHANGED table
      BY <1>3 DEF move_table
    <2>2. data # None => Backed(l, data)'
      BY <1>1, <1>2, <2>1 DEF Backed
    <2> QED
      BY <1>1, <1>2, <2>1, <2>2 DEF LayerInv, Idle
  <1>4. CASE CanMove(from, to)
    <2>1. /\ table' = Moved(from, to)
          /\ move' = [move EXCEPT !.phase = IF move.current_ws = move.to THEN "published" ELSE "moved"]
      BY <1>4 DEF move_table
    <2>2. table'[to] = l
      BY <1>1, <1>2, <2>1 DEF Moved
    <2>3. /\ move'.phase = IF move.current_ws = move.to THEN "published" ELSE "moved"
          /\ move'.link = l /\ move'.to = move.to /\ move'.current_ws = move.current_ws
          /\ move'.current_schema = from
      BY <1>1, <1>2, <2>1 DEF Move
    <2>4. get_data_schema(move.to)' = to
      BY <1>1, <2>3 DEF get_data_schema
    <2> HIDE DEF to
    <2>5. MovingInv(l)'
      BY <1>1, <1>2, <2>2, <2>3, <2>4 DEF MovingInv
    <2> QED
      BY <1>1, <1>2, <2>3, <2>5 DEF LayerInv
  <1> QED
    BY <1>3, <1>4

\* What a failed publication leaves in the former schema.
LEMMA MovedBack ==
    ASSUME TypeInv, NEW l, Links = {l}, NEW from \in Schemas, NEW to \in Schemas, table[to] = l,
           IF CanMove(to, from) THEN table' = Moved(to, from) ELSE UNCHANGED table
    PROVE  table'[from] = l
  <1>1. table \in [Schemas -> Links \cup {NoLink}] /\ NoLink # l
    BY OwnershipAssumption DEF TypeInv, OwnershipTypeOK
  <1>2. CASE CanMove(to, from)
    BY <1>1, <1>2 DEF Moved
  <1>3. CASE ~CanMove(to, from)
    <2>1. table[from] = l
      BY <1>1, <1>3, OwnTables DEF CanMove
    <2> QED
      BY <1>3, <2>1
  <1> QED
    BY <1>2, <1>3

\* The layer is published in the new workspace, or the table moved back.
LEMMA PublishLayer ==
    ASSUME TypeInv, NEW l, Links = {l}, LayerInv(l), "restore" \notin Faults,
           publish_data_db_table
    PROVE  LayerInv(l)'
  <1> DEFINE data == row[l].data_id
             from == move.current_schema
             to   == get_data_schema(move.to)
  <1>1. /\ move.phase = "moved" /\ move \in Move /\ from \in Schemas /\ to \in Schemas
        /\ move.to \in Organizations
        /\ table \in [Schemas -> Links \cup {NoLink}] /\ NoLink # l
        /\ datastore \in [Organizations -> Schemas \cup {None}]
        /\ None \notin Schemas /\ None \notin Organizations /\ layers \subseteq Organizations
        /\ UNCHANGED <<use_org_schema, row, dag, runs>>
    BY OwnershipAssumption DEF publish_data_db_table, TypeInv, OwnershipTypeOK, MoveInv, Schemas,
       get_data_schema
  <1>2. /\ move.link = l /\ row[l].named /\ row[l].organization # move.to /\ table[to] = l
        /\ layers \subseteq {data} \cup stale
        /\ data # None => /\ move.current_ws = data /\ data \in layers
                         /\ datastore[data] = from
        /\ move.current_ws # move.to
        /\ data \in {None, row[l].organization}
        /\ ~row[l].named => data = None /\ runs = {} /\ dag[l] = None
    BY <1>1 DEF LayerInv, MovingInv
  <1>3. CASE /\ CanPublish(move.to, to) /\ Publish(move.to, to) /\ UNCHANGED table
             /\ move' = [move EXCEPT !.phase = "published"]
    <2>1. /\ move'.phase = "published" /\ move'.link = l /\ move'.to = move.to
          /\ move'.current_ws = move.current_ws
      BY <1>1, <1>2, <1>3 DEF Move
    <2>2. /\ layers' = layers \cup {move.to} /\ stale' = stale \ {move.to}
          /\ datastore'[move.to] = to
      BY <1>1, <1>3 DEF Publish
    <2>3. Backed(l, move.to)'
      BY <1>1, <1>2, <1>3, <2>1, <2>2 DEF Backed
    <2>4. layers' \subseteq {move.current_ws, move.to} \cup stale'
      BY <1>1, <1>2, <2>2
    <2>5. MovingInv(l)'
      BY <1>1, <1>2, <2>1, <2>3, <2>4 DEF MovingInv
    <2> QED
      BY <1>1, <1>2, <2>1, <2>5 DEF LayerInv
  <1>4. CASE /\ IF CanMove(to, from) THEN table' = Moved(to, from) ELSE UNCHANGED table
             /\ move' = Idle /\ UNCHANGED storeVars
    <2>1. table'[from] = l
      BY <1>1, <1>2, <1>4, MovedBack
    <2>2. data # None => Backed(l, data)'
      BY <1>1, <1>2, <1>4, <2>1 DEF Backed, storeVars
    <2> QED
      BY <1>1, <1>2, <1>4, <2>2 DEF LayerInv, Idle, storeVars
  <1> QED
    BY <1>3, <1>4 DEF publish_data_db_table, moved_back

\* The old layer is deleted and the row committed.
LEMMA FinishLayer ==
    ASSUME TypeInv, NEW l, Links = {l}, LayerInv(l), finish_reassignment
    PROVE  LayerInv(l)'
  <1> DEFINE data == row[l].data_id
  <1>1. /\ move.phase = "published" /\ move.to \in Organizations
        /\ row \in [Links -> IntegrityLink] /\ row[l] \in IntegrityLink
        /\ UNCHANGED <<use_org_schema, table, datastore, dag, runs>>
        /\ move' = Idle /\ None \notin Organizations
        /\ \/ layers' = layers \ ({move.current_ws} \ {move.to}) /\ stale' = stale
           \/ layers' = layers /\ stale' = stale \cup (layers \cap ({move.current_ws} \ {move.to}))
    BY OwnershipAssumption DEF finish_reassignment, delete_layer, layers_to_delete, TypeInv, OwnershipTypeOK,
       MoveInv
  <1>2. /\ move.link = l /\ row[l].named /\ row[l].organization # move.to
        /\ IF move.current_ws = move.to THEN data = None /\ layers \subseteq stale
           ELSE Backed(l, move.to) /\ layers \subseteq {move.current_ws, move.to} \cup stale
        /\ ~row[l].named => data = None /\ runs = {} /\ dag[l] = None
    BY <1>1 DEF LayerInv, MovingInv
  <1>3. row' = [row EXCEPT ![l] = reassigned(l)]
    BY <1>2 DEF finish_reassignment, name_taken
  <1>4. /\ row'[l].named = row[l].named /\ row'[l].organization = move.to
        /\ row'[l].data_id = IF move.current_ws = move.to THEN data ELSE move.to
    BY <1>1, <1>3 DEF reassigned, IntegrityLink
  <1>5. CASE move.current_ws = move.to
    BY <1>1, <1>2, <1>4, <1>5 DEF LayerInv, Idle
  <1>6. CASE move.current_ws # move.to
    <2>1. Backed(l, move.to) /\ layers' \subseteq {move.to} \cup stale' /\ move.to \in layers'
      BY <1>1, <1>2, <1>6 DEF Backed
    <2>2. Backed(l, row[l].data_id)'
      BY <1>1, <1>4, <1>6, <2>1 DEF Backed
    <2> QED
      BY <1>1, <1>2, <1>4, <1>6, <2>1, <2>2 DEF LayerInv, Idle
  <1> QED
    BY <1>5, <1>6

\* Each step keeps LayerInv.
LEMMA LayerStep ==
    ASSUME TypeInv, NEW l, Links = {l}, LayerInv(l), "restore" \notin Faults, [Next]_vars
    PROVE  LayerInv(l)'
  <1>1. CASE UNCHANGED vars
    BY <1>1 DEF vars, storeVars, LayerInv, MovingInv, Backed, get_data_schema
  <1>2. CASE Next
    BY <1>2, RunsLayer, CallbackLayer, ReassignLayer, MoveTableLayer, PublishLayer, FinishLayer
    DEF Next
  <1> QED
    BY <1>1, <1>2

\* When a dataset is alone in its table name and what was moved can be moved back, the layer
\* it names reads its table, whatever reassignments succeeded, were refused or failed halfway
\* (integrity_link_admin.py, _move_dataset; publish_table never repoints a datastore).
THEOREM LayerReadsOwnTableAlways ==
    ASSUME NEW l, Links = {l}, "restore" \notin Faults
    PROVE  Spec => []LayerReadsOwnTable
  <1>1. TypeInv /\ LayerInv(l) => LayerReadsOwnTable
    BY OwnershipAssumption
    DEF LayerInv, MovingInv, LayerReadsOwnTable, BeingMoved, Backed
  <1>2. Init => TypeInv /\ LayerInv(l)
    BY TypeInit, LayerInit
  <1>3. TypeInv /\ LayerInv(l) /\ [Next]_vars => (TypeInv /\ LayerInv(l))'
    BY TypeStep, LayerStep
  <1> QED
    BY <1>1, <1>2, <1>3, PTL DEF Spec

\* Under the same conditions a layer that no dataset names is one that GeoServer refused to
\* delete: no refused, failed or repeated reassignment leaves another (_move_dataset,
\* geoserver.py delete_layer).
THEOREM OldLayerWithdrawnAlways ==
    ASSUME NEW l, Links = {l}, "restore" \notin Faults
    PROVE  Spec => []OldLayerWithdrawn
  <1>1. TypeInv /\ LayerInv(l) => OldLayerWithdrawn
    BY DEF LayerInv, OldLayerWithdrawn
  <1>2. Init => TypeInv /\ LayerInv(l)
    BY TypeInit, LayerInit
  <1>3. TypeInv /\ LayerInv(l) /\ [Next]_vars => (TypeInv /\ LayerInv(l))'
    BY TypeStep, LayerStep
  <1> QED
    BY <1>1, <1>2, <1>3, PTL DEF Spec

\* A reassignment that ends without changing the row has put the table back.
LEMMA RefusalRestores ==
    ASSUME TypeInv, NEW l, Links = {l}, LayerInv(l), "restore" \notin Faults, [Next]_vars,
           move.phase # "idle", move'.phase = "idle", row' = row
    PROVE  table'[move.current_schema] = move.link
  <1>1. /\ MovingInv(l) /\ table \in [Schemas -> Links \cup {NoLink}] /\ NoLink # l
        /\ move.current_schema \in Schemas /\ get_data_schema(move.to) \in Schemas
        /\ row \in [Links -> IntegrityLink] /\ row[l] \in IntegrityLink /\ move \in Move
    BY OwnershipAssumption DEF LayerInv, TypeInv, OwnershipTypeOK, MoveInv, get_data_schema, Schemas
  <1>2. move_table \/ publish_data_db_table \/ finish_reassignment
    BY DEF Next, vars, process, process_commit, create_dag, trigger_process_dag, write, dag_success,
           reassign_ownership, change_configuration, LoopFree
  <1>3. CASE move_table
    <2>1. UNCHANGED table
      BY <1>1, <1>3 DEF move_table, Idle, Move
    <2> QED
      BY <1>1, <1>3, <2>1 DEF MovingInv, move_table
  <1>4. CASE publish_data_db_table
    <2> DEFINE from == move.current_schema
               to   == get_data_schema(move.to)
    <2>1. table[to] = l /\ move.link = l
      BY <1>1, <1>4 DEF MovingInv, publish_data_db_table
    <2>2. IF CanMove(to, from) THEN table' = Moved(to, from) ELSE UNCHANGED table
      BY <1>1, <1>4 DEF publish_data_db_table, moved_back, Move
    <2> QED
      BY <1>1, <2>1, <2>2, MovedBack
  <1>5. CASE finish_reassignment
    <2>1. row' = [row EXCEPT ![l] = reassigned(l)]
      BY <1>1, <1>5 DEF finish_reassignment, name_taken, MovingInv
    <2>2. row'[l].organization = move.to
      BY <1>1, <2>1 DEF reassigned, IntegrityLink
    <2> QED
      BY <1>1, <2>2 DEF MovingInv
  <1> QED
    BY <1>2, <1>3, <1>4, <1>5

\* "409 if the table is missing, a name is taken [...]": for one dataset, a reassignment that
\* does not happen has moved nothing, or has moved it back (integrity_link_admin.py,
\* reassign_integrity_link_ownership). Two datasets of one name refute it.
THEOREM RefusedMovesNothingAlways ==
    ASSUME NEW l, Links = {l}, "restore" \notin Faults
    PROVE  Spec => RefusedMovesNothing
  <1>1. Init => TypeInv /\ LayerInv(l)
    BY TypeInit, LayerInit
  <1>2. TypeInv /\ LayerInv(l) /\ [Next]_vars => (TypeInv /\ LayerInv(l))'
    BY TypeStep, LayerStep
  <1>3. TypeInv /\ LayerInv(l) /\ [Next]_vars =>
            [move.phase # "idle" /\ move'.phase = "idle" /\ row' = row
                => table'[move.current_schema] = move.link]_vars
    BY RefusalRestores
  <1> QED
    BY <1>1, <1>2, <1>3, PTL DEF Spec, RefusedMovesNothing
=============================================================================
