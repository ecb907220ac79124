---------------------------- MODULE SharingRules ----------------------------
(***************************************************************************)
(* The sharing rules of one processed dataset (integrity_link_rules), the  *)
(* ACL of its GeoServer layer and the privileges of its GeoNetwork record, *)
(* under the requests of the authorizations page:                          *)
(* api/routes/ingestion/integrity_link.py.                                 *)
(*                                                                         *)
(* The handlers are plain functions run in threads, each with a session of *)
(* its own: PostgreSQL's READ COMMITTED shows a request its own flushed    *)
(* writes and what others committed, and a flushed row stays locked until  *)
(* its transaction ends.                                                   *)
(***************************************************************************)
EXTENDS Naturals, FiniteSets

CONSTANTS
    Groups,     \* roles and organizations that rules name
    EVERYONE,   \* GROUP_OR_ROLE_EVERYONE, "*"
    Handlers,   \* requests the backend executes at the same time
    Requests,   \* what users do, see RequestKinds
    Faults      \* services that may fail: "geoserver", "geonetwork"

RequestKinds == {"data", "metadata", "gs", "gn"}

ASSUME SharingAssumption ==
    /\ EVERYONE \notin Groups
    /\ Requests \subseteq RequestKinds
    /\ Faults \subseteq {"geoserver", "geonetwork"}

VARIABLES
    rules,            \* committed rules: (type, group or role) -> value
    acl,              \* roles of the ACL rules .r and .w of the layer
    shared,           \* privileges of the record: pairs (group, value)
    public,           \* the record is visible to GeoNetwork's group "all"
    gn_is_published,  \* committed columns of the row
    gs_is_published,
    req               \* requests in progress

catalogVars == <<acl, shared, public>>
rowVars     == <<gn_is_published, gs_is_published>>
vars == <<rules, acl, shared, public, gn_is_published, gs_is_published, req>>

-----------------------------------------------------------------------------
(* Shapes of the state *)

Values == {"NONE", "READ", "WRITE"}      \* NONE: no rule

DataKeys     == {"DATA"} \X (Groups \cup {EVERYONE})
MetadataKeys == {"METADATA"} \X Groups
Keys         == DataKeys \cup MetadataKeys

Everyone == <<"DATA", EVERYONE>>

\* What the page names in its rules: EVERYONE has a toggle there.
PageKeys == {"DATA", "METADATA"} \X Groups

Privileges == (Groups \cup {EVERYONE}) \X {"READ", "WRITE"}

\* A request: the value it found in its rule when it looked it up ("STALE" once
\* another request has deleted that row), the flag column it loaded, and the
\* privileges it resolved for the catalogue.
Phases == {"idle", "loaded", "acl_read", "acl_write", "flushed", "committed",
           "sharing", "toggle_gn", "toggled_gn"}

Request ==
    [ phase : Phases, key : Keys \cup {<<>>}, value : Values,
      found : Values \cup {"STALE"},
      toggle : BOOLEAN, publish : BOOLEAN, was : BOOLEAN,
      privileges : SUBSET Privileges ]

Idle == [ phase |-> "idle", key |-> <<>>, value |-> "NONE", found |-> "NONE",
          toggle |-> FALSE, publish |-> FALSE, was |-> FALSE, privileges |-> {} ]

SharingTypeOK ==
    /\ rules \in [Keys -> Values]
    /\ acl \in [read : SUBSET (Groups \cup {EVERYONE}), write : SUBSET Groups]
    /\ shared \subseteq Privileges
    /\ public \in BOOLEAN
    /\ gn_is_published \in BOOLEAN
    /\ gs_is_published \in BOOLEAN
    /\ req \in [Handlers -> Request]

Init ==
    /\ rules = [k \in Keys |-> "NONE"]
    /\ acl = [read |-> {}, write |-> {}]
    /\ shared = {}
    /\ public = FALSE
    /\ gn_is_published = FALSE
    /\ gs_is_published = FALSE
    /\ req = [h \in Handlers |-> Idle]

\* The (group or role, value) pairs of the rules of one type.
Granted(table, keys) == {<<k[2], table[k]>> : k \in {x \in keys : table[x] # "NONE"}}

\* Every role of the read rule may write.
everyone_writes(privileges) == {p[1] : p \in privileges}

\* sync_layer_acl: WRITE implies READ.
Readers(privileges) == {p[1] : p \in privileges}
Writers(privileges) == {p[1] : p \in {x \in privileges : x[2] = "WRITE"}}

Finish(h)      == req' = [req EXCEPT ![h] = Idle]
Goto(h, phase) == req' = [req EXCEPT ![h].phase = phase]

-----------------------------------------------------------------------------
(* Loading: authorization, the lookup of the rule, no lock *)

Load(h, q) == req[h].phase = "idle" /\ req' = [req EXCEPT ![h] = q]

\* PUT /rules (READ or WRITE) and DELETE /rules/{id} (NONE, 404 without rule).
change_rule(h, key, value) ==
    /\ (IF key[1] = "DATA" THEN "data" ELSE "metadata") \in Requests
    /\ value = "NONE" => rules[key] # "NONE"
    /\ Load(h, [Idle EXCEPT !.phase = "loaded", !.key = key, !.value = value,
                            !.found = rules[key]])
    /\ UNCHANGED <<rules, catalogVars, rowVars>>

\* PUT /publish-gs: publishing inserts a rule without looking for one.
toggle_publish_gs(h, publish) ==
    /\ "gs" \in Requests
    /\ Load(h, [Idle EXCEPT !.phase = "loaded", !.key = Everyone,
                   !.value = IF publish THEN "READ" ELSE "NONE",
                   !.found = IF publish THEN "NONE" ELSE rules[Everyone],
                   !.toggle = TRUE, !.publish = publish, !.was = gs_is_published])
    /\ UNCHANGED <<rules, catalogVars, rowVars>>

-----------------------------------------------------------------------------
(* Writing the rule and synchronising the layer, before the commit *)

\* Only a change is flushed: a value that is already there writes nothing.
writes(h) == req[h].value # req[h].found

Unlocked(h) ==
    ~ \E k \in Handlers \ {h} :
        /\ req[k].phase \in {"acl_read", "acl_write", "flushed"}
        /\ req[k].key = req[h].key
        /\ writes(k) /\ writes(h)

\* The flush, or the refresh after it, fails on a row that is gone, and the flush
\* on a second row for the same group (UNIQUE).
FlushRaises(h) ==
    /\ req[h].value # "NONE"
    /\ \/ req[h].found = "STALE"
       \/ req[h].found = "NONE" /\ rules[req[h].key] # "NONE"

\* An error of the flush is not caught: 500.
after_raise(h) == Idle

\* Unpublishing forgets to delete the rule it found.
public_rule_kept(h) ==
    IF req[h].value = "NONE" THEN rules ELSE [rules EXCEPT ![req[h].key] = req[h].value]

\* The rules as the transaction sees them: deleting a row that is gone deletes
\* nothing.
visible(h) ==
    IF ~writes(h) \/ (req[h].value = "NONE" /\ req[h].found = "STALE")
    THEN rules
    ELSE [rules EXCEPT ![req[h].key] = req[h].value]

\* The query of the synchronisation without the flush before it.
visible_before_flush(h) == rules

\* The rules a synchronisation of the layer reads.
rules_to_sync(h) == visible(h)

\* The write is flushed; a DATA change then reads every rule for the ACL.
flush(h) ==
    /\ req[h].phase = "loaded" /\ Unlocked(h)
    /\ IF FlushRaises(h)
       THEN req' = [req EXCEPT ![h] = after_raise(h)]
       ELSE IF req[h].key \in DataKeys
       THEN req' = [req EXCEPT ![h].phase = "acl_read",
                               ![h].privileges = Granted(rules_to_sync(h), DataKeys)]
       ELSE Goto(h, "flushed")
    /\ UNCHANGED <<rules, catalogVars, rowVars>>

GeoServerFails == "geoserver" \in Faults

\* sync_layer_acl sets the .r rule, then the .w rule. On an error the transaction
\* is rolled back; what GeoServer already accepted stays.
sync_acl_read(h) ==
    /\ req[h].phase = "acl_read"
    /\ \/ acl' = [acl EXCEPT !.read = Readers(req[h].privileges)] /\ Goto(h, "acl_write")
       \/ GeoServerFails /\ UNCHANGED acl /\ Finish(h)
    /\ UNCHANGED <<rules, shared, public, rowVars>>

sync_acl_write(h) ==
    /\ req[h].phase = "acl_write"
    /\ \/ acl' = [acl EXCEPT !.write = Writers(req[h].privileges)] /\ Goto(h, "flushed")
       \/ GeoServerFails /\ UNCHANGED acl /\ Finish(h)
    /\ UNCHANGED <<rules, shared, public, rowVars>>

-----------------------------------------------------------------------------
(* The commit *)

\* The session updates a column only when it differs from the value it loaded.
committed_flag(h) ==
    IF req[h].publish # req[h].was THEN req[h].publish ELSE gs_is_published

\* Requests that found a row this commit deletes hold a stale one.
Staled(h) ==
    [k \in Handlers |->
        IF /\ k # h /\ req[k].phase = "loaded" /\ req[k].found # "NONE"
           /\ req[k].key = req[h].key /\ visible(h)[req[h].key] = "NONE"
        THEN [req[k] EXCEPT !.found = "STALE"] ELSE req[k]]

\* The rule is committed and GeoNetwork comes next; or the toggle reads the ACL
\* back (which may fail) and commits the rule with its flag.
commit(h) ==
    /\ req[h].phase = "flushed"
    /\ \/ /\ rules' = visible(h)
          /\ IF req[h].toggle
             THEN /\ gs_is_published' = committed_flag(h)
                  /\ req' = [Staled(h) EXCEPT ![h] = Idle]
             ELSE /\ req' = [Staled(h) EXCEPT ![h].phase = "committed"]
                  /\ UNCHANGED gs_is_published
       \/ req[h].toggle /\ GeoServerFails /\ Finish(h) /\ UNCHANGED <<rules, gs_is_published>>
    /\ UNCHANGED <<catalogVars, gn_is_published>>

-----------------------------------------------------------------------------
(* The record, after the commit: an error leaves the rules committed *)

GeoNetworkFails == "geonetwork" \in Faults

\* _sync_metadata_sharing reads the METADATA rules after any change of rule.
sync_metadata_sharing(h) ==
    /\ req[h].phase = "committed"
    /\ \/ req' = [req EXCEPT ![h].phase = "sharing",
                             ![h].privileges = Granted(rules, MetadataKeys)]
       \/ GeoNetworkFails /\ Finish(h)
    /\ UNCHANGED <<rules, catalogVars, rowVars>>

\* The new privileges are added to the ones the record has.
added_privileges(h) == shared \cup req[h].privileges

\* put_sharing_record with clear=True.
record_privileges(h) == req[h].privileges

\* clear=True replaces every privilege, the one of the group "all" included.
sync_record_sharing(h) ==
    /\ req[h].phase = "sharing"
    /\ \/ shared' = record_privileges(h) /\ public' = FALSE
       \/ GeoNetworkFails /\ UNCHANGED <<shared, public>>
    /\ Finish(h)
    /\ UNCHANGED <<rules, acl, rowVars>>

\* PUT /publish-gn: the row is loaded, GeoNetwork called, the flag committed.
toggle_publish_gn(h, publish) ==
    /\ "gn" \in Requests
    /\ Load(h, [Idle EXCEPT !.phase = "toggle_gn", !.publish = publish,
                            !.was = gn_is_published])
    /\ UNCHANGED <<rules, catalogVars, rowVars>>

toggle_publish_metadata_record(h) ==
    /\ req[h].phase = "toggle_gn"
    /\ \/ public' = req[h].publish /\ Goto(h, "toggled_gn")
       \/ GeoNetworkFails /\ UNCHANGED public /\ Finish(h)
    /\ UNCHANGED <<rules, acl, shared, rowVars>>

commit_gn(h) ==
    /\ req[h].phase = "toggled_gn"
    /\ gn_is_published' = IF req[h].publish # req[h].was THEN req[h].publish
                                                         ELSE gn_is_published
    /\ Finish(h)
    /\ UNCHANGED <<rules, catalogVars, gs_is_published>>

-----------------------------------------------------------------------------

Step(h) ==
    \/ flush(h) \/ sync_acl_read(h) \/ sync_acl_write(h) \/ commit(h)
    \/ sync_metadata_sharing(h) \/ sync_record_sharing(h)
    \/ toggle_publish_metadata_record(h) \/ commit_gn(h)

Next == \E h \in Handlers :
    \/ \E key \in PageKeys, value \in Values : change_rule(h, key, value)
    \/ \E publish \in BOOLEAN : toggle_publish_gs(h, publish)
    \/ \E publish \in BOOLEAN : toggle_publish_gn(h, publish)
    \/ Step(h)

Spec == Init /\ [][Next]_vars

-----------------------------------------------------------------------------
(* Properties *)

AclMatches ==
    LET data == Granted(rules, DataKeys) IN
    acl = [read |-> Readers(data), write |-> Writers(data)]

AtRest == \A h \in Handlers : req[h].phase = "idle"

\* DATA rules change in the database only once the layer's ACL grants exactly
\* what they will say, whatever failed before: requests served one at a time
\* repair the ACL (integrity_link.py, the flush before _sync_data_sharing).
RulesCommittedWithAcl ==
    [][Granted(rules', DataKeys) # Granted(rules, DataKeys) => AclMatches']_vars

\* When a request touches the privileges of the record, it leaves exactly those of
\* the committed METADATA rules: a rule that was deleted while GeoNetwork was down
\* is withdrawn by the next change (metadata_service.py, sync_record_sharing).
RecordFollowsRules ==
    [][shared' # shared => shared' = Granted(rules, MetadataKeys)]_vars

\* The flag the page shows says whether the public rule exists, whatever fails
\* (integrity_link.py, toggle_publish_gs_integrity_link).
EveryoneFlag == gs_is_published <=> rules[Everyone] = "READ"

-----------------------------------------------------------------------------
(* What the documentation says *)

\* "editing a group's rule calls the backend right away, which forwards the change
\* to GeoNetwork or GeoServer respectively": without failure and at rest, the ACL
\* is the one of the rules (authorizations.en.md).
AclForwarded == AtRest => AclMatches
=============================================================================
