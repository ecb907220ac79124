--------------------------- MODULE SharingRulesProofs ---------------------------
(***************************************************************************)
(* The types of the sharing rules for any number of concurrent requests,   *)
(* and what requests served one at a time keep in step, whatever fails.    *)
(***************************************************************************)
EXTENDS SharingRules, TLAPS

\* A request that has a rule to write.
Writing(h) == req[h].phase \in {"loaded", "acl_read", "acl_write", "flushed"}

\* The public rule never lets everyone write, and neither does what a request is about
\* to write or send.
TypeInv ==
    /\ SharingTypeOK
    /\ rules[Everyone] # "WRITE"
    /\ \A h \in Handlers :
          /\ Writing(h) => req[h].key \in Keys
          /\ req[h].key = Everyone => req[h].value # "WRITE"
          /\ req[h].phase \in {"acl_read", "acl_write"} => <<EVERYONE, "WRITE">> \notin req[h].privileges

\* The page names no rule of EVERYONE.
LEMMA PageKeyRuled ==
    ASSUME NEW key \in PageKeys
    PROVE  key \in Keys /\ key # Everyone
  <1>1. /\ key[1] \in {"DATA", "METADATA"} /\ key[2] \in Groups
        /\ key = <<key[1], key[2]>>
    BY DEF PageKeys
  <1>2. EVERYONE \notin Groups
    BY SharingAssumption
  <1>3. key \in Keys
    BY <1>1 DEF Keys, DataKeys, MetadataKeys
  <1>4. Everyone[2] = EVERYONE
    BY DEF Everyone
  <1> QED
    BY <1>1, <1>2, <1>3, <1>4

\* What a synchronisation sends.
LEMMA GrantedType ==
    ASSUME NEW table \in [Keys -> Values], NEW keys \in {DataKeys, MetadataKeys}
    PROVE  /\ Granted(table, keys) \subseteq Privileges
           /\ keys = DataKeys /\ table[Everyone] # "WRITE" =>
                 <<EVERYONE, "WRITE">> \notin Granted(table, keys)
  <1>1. ASSUME NEW k \in keys, table[k] # "NONE"
        PROVE  <<k[2], table[k]>> \in Privileges
    BY <1>1 DEF DataKeys, MetadataKeys, Keys, Privileges, Values
  <1>2. ASSUME NEW k \in DataKeys, <<k[2], table[k]>> = <<EVERYONE, "WRITE">>
        PROVE  table[Everyone] = "WRITE"
    BY <1>2 DEF DataKeys, Everyone
  <1> QED
    BY <1>1, <1>2 DEF Granted

\* The rules that a transaction sees.
LEMMA VisibleType ==
    ASSUME TypeInv, NEW h \in Handlers, Writing(h)
    PROVE  visible(h) \in [Keys -> Values] /\ visible(h)[Everyone] # "WRITE"
  <1>1. /\ rules \in [Keys -> Values] /\ req[h].key \in Keys /\ req[h].value \in Values
        /\ rules[Everyone] # "WRITE" /\ (req[h].key = Everyone => req[h].value # "WRITE")
    BY DEF TypeInv, SharingTypeOK, Request
  <1>2. Everyone \in Keys
    BY DEF Everyone, Keys, DataKeys
  <1> QED
    BY <1>1, <1>2 DEF visible

\* What TypeInv says of one request.
RequestOK(q) ==
    /\ q \in Request
    /\ q.phase \in {"loaded", "acl_read", "acl_write", "flushed"} => q.key \in Keys
    /\ q.key = Everyone => q.value # "WRITE"
    /\ q.phase \in {"acl_read", "acl_write"} => <<EVERYONE, "WRITE">> \notin q.privileges

\* TypeInv, request by request.
LEMMA TypeInvByRequest ==
    TypeInv <=> /\ rules \in [Keys -> Values] /\ rules[Everyone] # "WRITE"
                /\ acl \in [read : SUBSET (Groups \cup {EVERYONE}), write : SUBSET Groups]
                /\ shared \subseteq Privileges /\ public \in BOOLEAN
                /\ gn_is_published \in BOOLEAN /\ gs_is_published \in BOOLEAN
                /\ req \in [Handlers -> Request] /\ \A h \in Handlers : RequestOK(req[h])
  BY DEF TypeInv, SharingTypeOK, RequestOK, Writing

\* One request changes, to an admissible one.
LEMMA OneRequest ==
    ASSUME TypeInv, NEW h \in Handlers, NEW q, RequestOK(q), req' = [req EXCEPT ![h] = q]
    PROVE  req' \in [Handlers -> Request] /\ \A k \in Handlers : RequestOK(req'[k])
  <1>1. req \in [Handlers -> Request] /\ \A k \in Handlers : RequestOK(req[k])
    BY TypeInvByRequest
  <1> QED
    BY <1>1 DEF RequestOK

\* A handler at rest asks nothing.
LEMMA IdleOK == RequestOK(Idle)
  BY DEF RequestOK, Idle, Request, Phases, Values, Everyone

\* A request that loaded a rule is about that rule only.
LEMMA RuleRequestOK ==
    ASSUME NEW key \in Keys, key # Everyone, NEW value \in Values, NEW found \in Values
    PROVE  RequestOK([Idle EXCEPT !.phase = "loaded", !.key = key, !.value = value,
                                  !.found = found])
  <1>1. ASSUME NEW i \in Request
        PROVE  RequestOK([i EXCEPT !.phase = "loaded", !.key = key, !.value = value,
                                   !.found = found])
    BY <1>1 DEF RequestOK, Request, Phases
  <1>2. Idle \in Request
    BY IdleOK DEF RequestOK
  <1> QED
    BY <1>1, <1>2

\* A request that goes on to a phase after its synchronisation, or is over.
LEMMA PhaseOK ==
    ASSUME TypeInv, NEW h \in Handlers, NEW phase \in Phases,
           phase \in {"acl_read", "acl_write"} => req[h].phase \in {"acl_read", "acl_write"},
           phase \in {"loaded", "acl_read", "acl_write", "flushed"} => Writing(h)
    PROVE  RequestOK([req[h] EXCEPT !.phase = phase])
  <1>1. RequestOK(req[h]) /\ req[h] \in Request
    BY TypeInvByRequest DEF RequestOK
  <1> QED
    BY <1>1 DEF RequestOK, Request, Writing

\* Steps that change the requests and the catalogue only.
LEMMA LoadType ==
    ASSUME TypeInv, NEW h \in Handlers,
           \/ \E key \in PageKeys, value \in Values : change_rule(h, key, value)
           \/ \E publish \in BOOLEAN : toggle_publish_gs(h, publish)
           \/ \E publish \in BOOLEAN : toggle_publish_gn(h, publish)
    PROVE  TypeInv'
  <1>1. UNCHANGED <<rules, acl, shared, public, gn_is_published, gs_is_published>>
    BY DEF change_rule, toggle_publish_gs, toggle_publish_gn, catalogVars, rowVars
  <1>2. rules \in [Keys -> Values] /\ Everyone \in Keys /\ gs_is_published \in BOOLEAN
        /\ gn_is_published \in BOOLEAN
    BY TypeInvByRequest DEF Everyone, Keys, DataKeys
  <1>3. ASSUME NEW key \in PageKeys, NEW value \in Values, change_rule(h, key, value)
        PROVE  \E q : RequestOK(q) /\ req' = [req EXCEPT ![h] = q]
    <2> DEFINE q == [Idle EXCEPT !.phase = "loaded", !.key = key, !.value = value,
                                 !.found = rules[key]]
    <2>1. req' = [req EXCEPT ![h] = q]
      BY <1>3 DEF change_rule, Load
    <2>2. key \in Keys /\ key # Everyone
      BY PageKeyRuled
    <2>3. rules[key] \in Values
      BY <1>2, <2>2
    <2>4. RequestOK(q)
      BY <2>2, <2>3, RuleRequestOK
    <2> QED
      BY <2>1, <2>4
  <1>4. ASSUME NEW publish \in BOOLEAN, toggle_publish_gs(h, publish)
        PROVE  \E q : RequestOK(q) /\ req' = [req EXCEPT ![h] = q]
    <2> DEFINE q == [Idle EXCEPT !.phase = "loaded", !.key = Everyone,
                        !.value = IF publish THEN "READ" ELSE "NONE",
                        !.found = IF publish THEN "NONE" ELSE rules[Everyone],
                        !.toggle = TRUE, !.publish = publish, !.was = gs_is_published]
    <2>1. req' = [req EXCEPT ![h] = q]
      BY <1>4 DEF toggle_publish_gs, Load
    <2>2. RequestOK(q)
      BY <1>2 DEF RequestOK, Idle, Request, Phases, Values
    <2> QED
      BY <2>1, <2>2
  <1>5. ASSUME NEW publish \in BOOLEAN, toggle_publish_gn(h, publish)
        PROVE  \E q : RequestOK(q) /\ req' = [req EXCEPT ![h] = q]
    <2> DEFINE q == [Idle EXCEPT !.phase = "toggle_gn", !.publish = publish,
                                 !.was = gn_is_published]
    <2>1. req' = [req EXCEPT ![h] = q]
      BY <1>5 DEF toggle_publish_gn, Load
    <2>2. RequestOK(q)
      BY <1>2 DEF RequestOK, Idle, Request, Phases, Values, Everyone
    <2> QED
      BY <2>1, <2>2
  <1>6. req' \in [Handlers -> Request] /\ \A k \in Handlers : RequestOK(req'[k])
    BY <1>3, <1>4, <1>5, OneRequest
  <1> QED
    BY <1>1, <1>6, TypeInvByRequest DEF TypeInv, SharingTypeOK, RequestOK, Writing

\* The flush, the two calls of the synchronisation and the commit.
LEMMA FlushType ==
    ASSUME TypeInv, NEW h \in Handlers, flush(h)
    PROVE  TypeInv'
  <1>1. UNCHANGED <<rules, acl, shared, public, gn_is_published, gs_is_published>>
        /\ req[h].phase = "loaded"
    BY DEF flush, catalogVars, rowVars
  <1>2. RequestOK(req[h]) /\ req[h] \in Request /\ Writing(h)
    BY <1>1, TypeInvByRequest DEF RequestOK, Writing
  <1>3. CASE req' = [req EXCEPT ![h] = after_raise(h)]
    BY <1>1, <1>3, OneRequest, IdleOK, TypeInvByRequest
    DEF after_raise, TypeInv, SharingTypeOK, RequestOK, Writing
  <1>4. CASE req' = [req EXCEPT ![h].phase = "acl_read",
                                ![h].privileges = Granted(rules_to_sync(h), DataKeys)]
    <2> DEFINE granted == Granted(rules_to_sync(h), DataKeys)
               q == [req[h] EXCEPT !.phase = "acl_read", !.privileges = granted]
    <2>1. granted \subseteq Privileges /\ <<EVERYONE, "WRITE">> \notin granted
      BY <1>2, VisibleType, GrantedType DEF rules_to_sync
    <2> HIDE DEF granted
    <2>2. RequestOK(q)
      BY <1>1, <1>2, <2>1 DEF RequestOK, Request, Phases
    <2>3. req' = [req EXCEPT ![h] = q]
      BY <1>4 DEF granted
    <2> QED
      BY <1>1, <2>2, <2>3, OneRequest, TypeInvByRequest
      DEF TypeInv, SharingTypeOK, RequestOK, Writing
  <1>5. CASE req' = [req EXCEPT ![h].phase = "flushed"]
    <2>1. RequestOK([req[h] EXCEPT !.phase = "flushed"])
      BY <1>2, PhaseOK DEF Phases
    <2> QED
      BY <1>1, <1>5, <2>1, OneRequest, TypeInvByRequest
      DEF TypeInv, SharingTypeOK, RequestOK, Writing
  <1> QED
    BY <1>3, <1>4, <1>5 DEF flush, Goto

\* The ACL is written from the privileges of the request.
LEMMA AclType ==
    ASSUME TypeInv, NEW h \in Handlers, sync_acl_read(h) \/ sync_acl_write(h)
    PROVE  TypeInv'
  <1>1. UNCHANGED <<rules, shared, public, gn_is_published, gs_is_published>>
        /\ req[h].phase \in {"acl_read", "acl_write"}
    BY DEF sync_acl_read, sync_acl_write, rowVars
  <1>2. RequestOK(req[h]) /\ req[h] \in Request /\ Writing(h)
    BY <1>1, TypeInvByRequest DEF RequestOK, Writing
  <1>3. /\ Readers(req[h].privileges) \subseteq Groups \cup {EVERYONE}
        /\ Writers(req[h].privileges) \subseteq Groups
    BY <1>1, <1>2 DEF RequestOK, Request, Privileges, Readers, Writers
  <1>4. acl' \in [read : SUBSET (Groups \cup {EVERYONE}), write : SUBSET Groups]
    BY <1>3 DEF sync_acl_read, sync_acl_write, TypeInv, SharingTypeOK
  <1>5. \E q \in {Idle, [req[h] EXCEPT !.phase = "acl_write"], [req[h] EXCEPT !.phase = "flushed"]} :
           req' = [req EXCEPT ![h] = q]
    BY DEF sync_acl_read, sync_acl_write, Finish, Goto
  <1>6. /\ RequestOK([req[h] EXCEPT !.phase = "acl_write"])
        /\ RequestOK([req[h] EXCEPT !.phase = "flushed"])
    BY <1>1, <1>2, PhaseOK DEF Phases
  <1> QED
    BY <1>1, <1>4, <1>5, <1>6, IdleOK, OneRequest, TypeInvByRequest
    DEF TypeInv, SharingTypeOK, RequestOK, Writing

\* A commit writes what the request asked.
LEMMA CommitType ==
    ASSUME TypeInv, NEW h \in Handlers, commit(h)
    PROVE  TypeInv'
  <1>1. /\ UNCHANGED <<acl, shared, public, gn_is_published>> /\ req[h].phase = "flushed"
        /\ req \in [Handlers -> Request] /\ gs_is_published \in BOOLEAN
    BY DEF commit, catalogVars, TypeInv, SharingTypeOK
  <1>2. RequestOK(req[h]) /\ req[h] \in Request /\ Writing(h)
    BY <1>1, TypeInvByRequest DEF RequestOK, Writing
  <1>3. rules' \in [Keys -> Values] /\ rules'[Everyone] # "WRITE"
    BY <1>2, VisibleType DEF commit, TypeInv, SharingTypeOK
  <1>4. gs_is_published' \in BOOLEAN
    BY <1>1, <1>2 DEF commit, committed_flag, Request
  <1>5. ASSUME NEW k \in Handlers
        PROVE  RequestOK(Staled(h)[k])
    <2>1. RequestOK(req[k]) /\ RequestOK([req[k] EXCEPT !.found = "STALE"])
      BY TypeInvByRequest DEF RequestOK, Request
    <2> QED
      BY <2>1 DEF Staled
  <1>6. \E q \in {Idle, [req[h] EXCEPT !.phase = "committed"]} :
           \/ req' = [Staled(h) EXCEPT ![h] = q]
           \/ req' = [req EXCEPT ![h] = q]
    <2>1. Staled(h)[h] = req[h] /\ DOMAIN Staled(h) = Handlers
      BY DEF Staled
    <2> HIDE DEF Staled
    <2>2. [Staled(h) EXCEPT ![h].phase = "committed"]
              = [Staled(h) EXCEPT ![h] = [req[h] EXCEPT !.phase = "committed"]]
      BY <2>1
    <2> QED
      BY <2>2 DEF commit, Finish
  <1>7. RequestOK([req[h] EXCEPT !.phase = "committed"])
    BY <1>2, PhaseOK DEF Phases
  <1>8. req' \in [Handlers -> Request] /\ \A k \in Handlers : RequestOK(req'[k])
    <2> PICK q \in {Idle, [req[h] EXCEPT !.phase = "committed"]} :
                \/ req' = [Staled(h) EXCEPT ![h] = q]
                \/ req' = [req EXCEPT ![h] = q]
      BY <1>6
    <2>1. RequestOK(q) /\ q \in Request
      BY <1>7, IdleOK DEF RequestOK
    <2>2. Staled(h) \in [Handlers -> Request]
      BY <1>5 DEF Staled, RequestOK
    <2>3. CASE req' = [Staled(h) EXCEPT ![h] = q]
      BY <1>5, <2>1, <2>2, <2>3
    <2>4. CASE req' = [req EXCEPT ![h] = q]
      BY <2>1, <2>4, OneRequest
    <2> QED
      BY <2>3, <2>4
  <1> QED
    BY <1>1, <1>3, <1>4, <1>8, TypeInvByRequest
    DEF TypeInv, SharingTypeOK, RequestOK, Writing

\* The record and the flag of the record.
LEMMA RecordType ==
    ASSUME TypeInv, NEW h \in Handlers,
           \/ sync_metadata_sharing(h) \/ sync_record_sharing(h)
           \/ toggle_publish_metadata_record(h) \/ commit_gn(h)
    PROVE  TypeInv'
  <1> USE DEF catalogVars, rowVars
  <1>1. UNCHANGED <<rules, acl, gs_is_published>>
    BY DEF sync_metadata_sharing, sync_record_sharing, toggle_publish_metadata_record, commit_gn
  <1>2. RequestOK(req[h]) /\ req[h] \in Request /\ shared \subseteq Privileges
        /\ public \in BOOLEAN /\ gn_is_published \in BOOLEAN
    BY TypeInvByRequest DEF RequestOK
  <1>3. public' \in BOOLEAN /\ gn_is_published' \in BOOLEAN /\ shared' \subseteq Privileges
    BY <1>2 DEF sync_metadata_sharing, sync_record_sharing, toggle_publish_metadata_record,
                commit_gn, record_privileges, Request
  <1>4. ASSUME sync_metadata_sharing(h)
        PROVE  \E q : RequestOK(q) /\ req' = [req EXCEPT ![h] = q]
    <2> DEFINE granted == Granted(rules, MetadataKeys)
               q == [req[h] EXCEPT !.phase = "sharing", !.privileges = granted]
    <2>1. granted \subseteq Privileges
      BY GrantedType DEF TypeInv, SharingTypeOK
    <2> HIDE DEF granted
    <2>2. RequestOK(q)
      BY <1>2, <2>1 DEF RequestOK, Request, Phases
    <2>3. req' = [req EXCEPT ![h] = q] \/ req' = [req EXCEPT ![h] = Idle]
      BY <1>4 DEF sync_metadata_sharing, Finish, granted
    <2> QED
      BY <2>2, <2>3, IdleOK
  <1>5. RequestOK([req[h] EXCEPT !.phase = "toggled_gn"])
    BY PhaseOK DEF Phases
  <1>6. \E q : RequestOK(q) /\ req' = [req EXCEPT ![h] = q]
    BY <1>4, <1>5, IdleOK DEF sync_record_sharing, toggle_publish_metadata_record, commit_gn,
                              Finish, Goto
  <1>7. req' \in [Handlers -> Request] /\ \A k \in Handlers : RequestOK(req'[k])
    BY <1>6, OneRequest
  <1> QED
    BY <1>1, <1>3, <1>7 DEF TypeInv, SharingTypeOK, RequestOK, Writing

\* Each step keeps TypeInv.
LEMMA TypeStep ==
    ASSUME TypeInv, [Next]_vars
    PROVE  TypeInv'
  <1>1. CASE UNCHANGED vars
    BY <1>1 DEF vars, catalogVars, rowVars, TypeInv, SharingTypeOK, Writing
  <1>2. CASE Next
    <2> PICK h \in Handlers :
            \/ \E key \in PageKeys, value \in Values : change_rule(h, key, value)
            \/ \E publish \in BOOLEAN : toggle_publish_gs(h, publish)
            \/ \E publish \in BOOLEAN : toggle_publish_gn(h, publish)
            \/ Step(h)
      BY <1>2 DEF Next
    <2> QED
      BY LoadType, FlushType, AclType, CommitType, RecordType DEF Step
  <1> QED
    BY <1>1, <1>2

\* TypeInv holds at first.
LEMMA TypeInit == Init => TypeInv
  <1> SUFFICES ASSUME Init PROVE TypeInv
    OBVIOUS
  <1>1. rules \in [Keys -> Values] /\ rules[Everyone] # "WRITE"
    BY DEF Init, Everyone, Keys, DataKeys, Values
  <1>2. req \in [Handlers -> Request] /\ \A h \in Handlers : RequestOK(req[h])
    BY IdleOK DEF Init, RequestOK
  <1> QED
    BY <1>1, <1>2, TypeInvByRequest DEF Init

\* Type correctness, for any groups, failures and number of requests at the same time: in
\* particular the write rule of the layer never names EVERYONE (integrity_link.py,
\* toggle_publish_gs_integrity_link inserts READ and the page's rules name groups).
THEOREM SharingTypeOKAlways == Spec => []SharingTypeOK
  <1>1. TypeInv => SharingTypeOK
    BY DEF TypeInv
  <1> QED
    BY <1>1, TypeInit, TypeStep, PTL DEF Spec

-----------------------------------------------------------------------------
(* Requests served one at a time *)

AclOf(privileges) == [read |-> Readers(privileges), write |-> Writers(privileges)]

\* What the request in progress found is still there, and what it sends is what it will
\* commit.
SyncInv(h) ==
    /\ EveryoneFlag
    /\ Writing(h) =>
          /\ req[h].toggle =>
                /\ req[h].key = Everyone /\ req[h].was = gs_is_published
                /\ req[h].value = IF req[h].publish THEN "READ" ELSE "NONE"
          /\ ~req[h].toggle => req[h].key # Everyone
          /\ \/ req[h].found = rules[req[h].key]
             \/ req[h].phase = "loaded" /\ req[h].found = "NONE" /\ req[h].value # "NONE"
    /\ req[h].phase \in {"acl_read", "acl_write"} =>
          req[h].key \in DataKeys /\ req[h].privileges = Granted(visible(h), DataKeys)
    /\ req[h].phase = "acl_write" => acl.read = Readers(req[h].privileges)
    /\ req[h].phase = "flushed" /\ req[h].key \in DataKeys =>
          acl = AclOf(Granted(visible(h), DataKeys))
    /\ req[h].phase = "sharing" => req[h].privileges = Granted(rules, MetadataKeys)

\* A request that is over, or does not write rules, leaves nothing to say.
LEMMA RestSync ==
    ASSUME NEW h \in Handlers, SyncInv(h), UNCHANGED <<rules, gs_is_published>>,
           req'[h].phase \notin {"loaded", "acl_read", "acl_write", "flushed", "sharing"}
    PROVE  SyncInv(h)'
  BY DEF SyncInv, EveryoneFlag, Writing

\* What a transaction sees depends on the rules and on its own rule.
LEMMA VisibleKept ==
    ASSUME NEW h \in Handlers, UNCHANGED rules, req'[h].key = req[h].key,
           req'[h].value = req[h].value, req'[h].found = req[h].found
    PROVE  visible(h)' = visible(h)
  BY DEF visible, writes

\* A request starts with the rule it found, and has sent nothing yet.
LEMMA LoadSync ==
    ASSUME TypeInv, NEW h \in Handlers, SyncInv(h),
           \/ \E key \in PageKeys, value \in Values : change_rule(h, key, value)
           \/ \E publish \in BOOLEAN : toggle_publish_gs(h, publish)
           \/ \E publish \in BOOLEAN : toggle_publish_gn(h, publish)
    PROVE  SyncInv(h)'
  <1> USE DEF catalogVars, rowVars
  <1>1. UNCHANGED <<rules, gs_is_published, acl>> /\ req \in [Handlers -> Request]
    BY DEF change_rule, toggle_publish_gs, toggle_publish_gn, TypeInv, SharingTypeOK
  <1>2. ASSUME NEW key \in PageKeys, NEW value \in Values, change_rule(h, key, value)
        PROVE  SyncInv(h)'
    <2>1. key \in Keys /\ key # Everyone
      BY PageKeyRuled
    <2>2. req'[h] = [Idle EXCEPT !.phase = "loaded", !.key = key, !.value = value,
                                 !.found = rules[key]]
      BY <1>1, <1>2 DEF change_rule, Load
    <2>3. /\ req'[h].phase = "loaded" /\ req'[h].key = key /\ ~req'[h].toggle
          /\ req'[h].found = rules[key]
      BY <2>2 DEF Idle
    <2> QED
      BY <1>1, <2>1, <2>3 DEF SyncInv, EveryoneFlag, Writing
  <1>3. ASSUME NEW publish \in BOOLEAN, toggle_publish_gs(h, publish)
        PROVE  SyncInv(h)'
    <2>1. req'[h] = [Idle EXCEPT !.phase = "loaded", !.key = Everyone,
                        !.value = IF publish THEN "READ" ELSE "NONE",
                        !.found = IF publish THEN "NONE" ELSE rules[Everyone],
                        !.toggle = TRUE, !.publish = publish, !.was = gs_is_published]
      BY <1>1, <1>3 DEF toggle_publish_gs, Load
    <2>2. /\ req'[h].phase = "loaded" /\ req'[h].key = Everyone /\ req'[h].toggle
          /\ req'[h].value = IF publish THEN "READ" ELSE "NONE"
          /\ req'[h].found = IF publish THEN "NONE" ELSE rules[Everyone]
          /\ req'[h].publish = publish /\ req'[h].was = gs_is_published
      BY <2>1 DEF Idle
    <2> QED
      BY <1>1, <2>2 DEF SyncInv, EveryoneFlag, Writing
  <1>4. ASSUME NEW publish \in BOOLEAN, toggle_publish_gn(h, publish)
        PROVE  SyncInv(h)'
    <2>1. req'[h].phase = "toggle_gn"
      BY <1>1, <1>4 DEF toggle_publish_gn, Load, Idle
    <2> QED
      BY <1>1, <2>1, RestSync
  <1> QED
    BY <1>2, <1>3, <1>4

\* The flush: the privileges are those of the rules the request will commit.
LEMMA FlushSync ==
    ASSUME TypeInv, NEW h \in Handlers, SyncInv(h), flush(h)
    PROVE  SyncInv(h)'
  <1>1. UNCHANGED <<rules, acl, gs_is_published>> /\ req[h].phase = "loaded" /\ Writing(h)
        /\ req \in [Handlers -> Request] /\ req[h] \in Request
    BY DEF flush, catalogVars, rowVars, TypeInv, SharingTypeOK, Writing
  <1>2. CASE FlushRaises(h)
    <2>1. req'[h].phase = "idle"
      BY <1>1, <1>2 DEF flush, after_raise, Idle
    <2> QED
      BY <1>1, <2>1, RestSync
  <1>3. CASE ~FlushRaises(h)
    <2>1. req[h].found = rules[req[h].key]
      BY <1>1, <1>3 DEF SyncInv, FlushRaises
    <2>2. CASE req[h].key \in DataKeys
      <3> DEFINE granted == Granted(rules_to_sync(h), DataKeys)
      <3>1. req' = [req EXCEPT ![h] = [req[h] EXCEPT !.phase = "acl_read", !.privileges = granted]]
        BY <1>1, <1>3, <2>2 DEF flush
      <3> HIDE DEF granted
      <3>2. /\ req'[h].phase = "acl_read" /\ req'[h].privileges = granted
            /\ req'[h].key = req[h].key /\ req'[h].value = req[h].value
            /\ req'[h].found = req[h].found /\ req'[h].toggle = req[h].toggle
            /\ req'[h].publish = req[h].publish /\ req'[h].was = req[h].was
        BY <1>1, <3>1 DEF Request
      <3>3. granted = Granted(visible(h), DataKeys) /\ visible(h)' = visible(h)
        BY <1>1, <3>2, VisibleKept DEF granted, rules_to_sync
      <3>4. Granted(visible(h), DataKeys)' = granted
        BY <3>3 DEF Granted
      <3> QED
        BY <1>1, <2>1, <2>2, <3>2, <3>4 DEF SyncInv, EveryoneFlag, Writing
    <2>3. CASE req[h].key \notin DataKeys
      <3>1. req' = [req EXCEPT ![h] = [req[h] EXCEPT !.phase = "flushed"]]
        BY <1>1, <1>3, <2>3 DEF flush, Goto
      <3>2. /\ req'[h].phase = "flushed"
            /\ req'[h].key = req[h].key /\ req'[h].value = req[h].value
            /\ req'[h].found = req[h].found /\ req'[h].toggle = req[h].toggle
            /\ req'[h].publish = req[h].publish /\ req'[h].was = req[h].was
        BY <1>1, <3>1 DEF Request
      <3> QED
        BY <1>1, <2>1, <2>3, <3>2 DEF SyncInv, EveryoneFlag, Writing
    <2> QED
      BY <2>2, <2>3
  <1> QED
    BY <1>2, <1>3

\* The ACL gets what the request sees.
LEMMA AclSync ==
    ASSUME TypeInv, NEW h \in Handlers, SyncInv(h), sync_acl_read(h) \/ sync_acl_write(h)
    PROVE  SyncInv(h)'
  <1>1. UNCHANGED <<rules, gs_is_published>> /\ req[h].phase \in {"acl_read", "acl_write"}
        /\ req \in [Handlers -> Request] /\ req[h] \in Request /\ Writing(h)
        /\ acl \in [read : SUBSET (Groups \cup {EVERYONE}), write : SUBSET Groups]
    BY DEF sync_acl_read, sync_acl_write, rowVars, TypeInv, SharingTypeOK, Writing
  <1>2. CASE Finish(h)
    <2>1. req'[h].phase = "idle"
      BY <1>1, <1>2 DEF Finish, Idle
    <2> QED
      BY <1>1, <2>1, RestSync
  <1>3. ASSUME NEW phase \in {"acl_write", "flushed"}, Goto(h, phase),
               phase = "acl_write" => acl' = [acl EXCEPT !.read = Readers(req[h].privileges)],
               phase = "flushed" => /\ req[h].phase = "acl_write"
                                    /\ acl' = [acl EXCEPT !.write = Writers(req[h].privileges)]
        PROVE  SyncInv(h)'
    <2>1. /\ req'[h].phase = phase /\ req'[h].privileges = req[h].privileges
          /\ req'[h].key = req[h].key /\ req'[h].value = req[h].value
          /\ req'[h].found = req[h].found /\ req'[h].toggle = req[h].toggle
          /\ req'[h].publish = req[h].publish /\ req'[h].was = req[h].was
      BY <1>1, <1>3 DEF Request, Goto
    <2>2. visible(h)' = visible(h)
      BY <1>1, <2>1, VisibleKept
    <2>3. Granted(visible(h), DataKeys)' = Granted(visible(h), DataKeys)
      BY <2>2 DEF Granted
    <2>4. /\ req[h].key \in DataKeys /\ req[h].privileges = Granted(visible(h), DataKeys)
          /\ req[h].found = rules[req[h].key]
      BY <1>1 DEF SyncInv
    <2>5. phase = "acl_write" => acl'.read = Readers(req[h].privileges)
      BY <1>1, <1>3
    <2>6. phase = "flushed" => acl' = AclOf(req[h].privileges)
      BY <1>1, <1>3 DEF SyncInv, AclOf
    <2>7. AclOf(Granted(visible(h), DataKeys))' = AclOf(req[h].privileges)
      BY <2>3, <2>4 DEF AclOf, Readers, Writers
    <2> QED
      BY <1>1, <2>1, <2>3, <2>4, <2>5, <2>6, <2>7 DEF SyncInv, EveryoneFlag, Writing
  <1> QED
    BY <1>1, <1>2, <1>3 DEF sync_acl_read, sync_acl_write

\* The commit of the only request.
LEMMA CommitAlone ==
    ASSUME TypeInv, NEW h, Handlers = {h}, SyncInv(h), commit(h)
    PROVE  /\ UNCHANGED <<acl, shared>>
           /\ \/ UNCHANGED <<rules, gs_is_published>> /\ req'[h].phase = "idle"
              \/ /\ rules' = visible(h)
                 /\ \/ /\ req[h].toggle /\ gs_is_published' = committed_flag(h)
                       /\ req'[h].phase = "idle"
                    \/ /\ ~req[h].toggle /\ UNCHANGED gs_is_published
                       /\ req'[h].phase = "committed"
  <1>1. req \in [Handlers -> Request] /\ req[h] \in Request
    BY DEF TypeInv, SharingTypeOK
  <1>2. Staled(h)[h] = req[h] /\ DOMAIN Staled(h) = Handlers
    BY DEF Staled
  <1>3. [Staled(h) EXCEPT ![h].phase = "committed"][h].phase = "committed"
    <2> HIDE DEF Staled
    <2> QED
      BY <1>1, <1>2 DEF Request
  <1>4. /\ [Staled(h) EXCEPT ![h] = Idle][h].phase = "idle"
        /\ [req EXCEPT ![h] = Idle][h].phase = "idle"
    <2> HIDE DEF Staled
    <2> QED
      BY <1>1, <1>2 DEF Idle
  <1> QED
    BY <1>3, <1>4 DEF commit, Finish, catalogVars

\* A commit makes it what everyone sees.
LEMMA CommitSync ==
    ASSUME TypeInv, NEW h, Handlers = {h}, SyncInv(h), commit(h)
    PROVE  SyncInv(h)'
  <1>1. CASE UNCHANGED <<rules, gs_is_published>>
    <2>1. req'[h].phase \in {"idle", "committed"}
      BY CommitAlone
    <2> QED
      BY <1>1, <2>1, RestSync
  <1>2. CASE /\ rules' = visible(h)
             /\ IF req[h].toggle THEN gs_is_published' = committed_flag(h)
                                  ELSE UNCHANGED gs_is_published
    <2>1. Writing(h) /\ req[h].key \in Keys /\ req[h].phase = "flushed"
          /\ rules \in [Keys -> Values] /\ Everyone \in Keys
      BY DEF commit, Writing, TypeInv, SharingTypeOK, Everyone, Keys, DataKeys
    <2>2. req[h].found = rules[req[h].key]
      BY <2>1 DEF SyncInv
    <2>3. rules'[req[h].key] = req[h].value
      BY <1>2, <2>1, <2>2 DEF visible, writes, Values
    <2>4. req[h].key # Everyone => rules'[Everyone] = rules[Everyone]
      BY <1>2, <2>1 DEF visible
    <2>5. EveryoneFlag'
      <3>1. CASE req[h].toggle
        <4>1. gs_is_published' = req[h].publish
          BY <1>2, <2>1, <3>1 DEF committed_flag, SyncInv
        <4> QED
          BY <2>1, <2>3, <3>1, <4>1 DEF SyncInv, EveryoneFlag
      <3>2. CASE ~req[h].toggle
        <4>1. UNCHANGED gs_is_published
          BY <1>2, <3>2
        <4> QED
          BY <2>1, <2>4, <3>2, <4>1 DEF SyncInv, EveryoneFlag
      <3> QED
        BY <3>1, <3>2
    <2>6. req'[h].phase \in {"idle", "committed"}
      BY CommitAlone
    <2> QED
      BY <2>5, <2>6 DEF SyncInv, Writing
  <1> QED
    BY <1>1, <1>2, CommitAlone

\* What is done to the record leaves the rules and the ACL.
LEMMA RecordSync ==
    ASSUME TypeInv, NEW h \in Handlers, SyncInv(h),
           \/ sync_metadata_sharing(h) \/ sync_record_sharing(h)
           \/ toggle_publish_metadata_record(h) \/ commit_gn(h)
    PROVE  SyncInv(h)'
  <1> USE DEF catalogVars, rowVars
  <1>1. UNCHANGED <<rules, acl, gs_is_published>> /\ req \in [Handlers -> Request]
        /\ req[h] \in Request
    BY DEF sync_metadata_sharing, sync_record_sharing, toggle_publish_metadata_record, commit_gn,
           TypeInv, SharingTypeOK
  <1>2. CASE req' = [req EXCEPT ![h].phase = "sharing",
                                ![h].privileges = Granted(rules, MetadataKeys)]
    <2> DEFINE granted == Granted(rules, MetadataKeys)
    <2> HIDE DEF granted
    <2>1. req' = [req EXCEPT ![h] = [req[h] EXCEPT !.phase = "sharing", !.privileges = granted]]
      BY <1>1, <1>2 DEF granted
    <2>2. req'[h].phase = "sharing" /\ req'[h].privileges = granted
      BY <1>1, <2>1 DEF Request
    <2>3. granted' = granted
      BY <1>1 DEF granted, Granted
    <2> QED
      BY <1>1, <2>2, <2>3 DEF SyncInv, EveryoneFlag, Writing, granted
  <1>3. CASE \E q \in {Idle, [req[h] EXCEPT !.phase = "toggled_gn"]} : req' = [req EXCEPT ![h] = q]
    <2>1. req'[h].phase \in {"idle", "toggled_gn"}
      BY <1>1, <1>3 DEF Idle, Request
    <2> QED
      BY <1>1, <2>1, RestSync
  <1> QED
    BY <1>2, <1>3 DEF sync_metadata_sharing, sync_record_sharing, toggle_publish_metadata_record,
                      commit_gn, Finish, Goto

\* Each step keeps SyncInv.
LEMMA SyncStep ==
    ASSUME TypeInv, NEW h, Handlers = {h}, SyncInv(h), [Next]_vars
    PROVE  SyncInv(h)'
  <1>1. CASE UNCHANGED vars
    <2>1. visible(h)' = visible(h)
      BY <1>1, VisibleKept DEF vars
    <2>2. Granted(visible(h), DataKeys)' = Granted(visible(h), DataKeys)
      BY <2>1 DEF Granted
    <2> QED
      BY <1>1, <2>2 DEF vars, catalogVars, rowVars, SyncInv, EveryoneFlag, Writing
  <1>2. CASE Next
    <2>1. \/ \E key \in PageKeys, value \in Values : change_rule(h, key, value)
          \/ \E publish \in BOOLEAN : toggle_publish_gs(h, publish)
          \/ \E publish \in BOOLEAN : toggle_publish_gn(h, publish)
          \/ Step(h)
      BY <1>2 DEF Next
    <2> QED
      BY <2>1, LoadSync, FlushSync, AclSync, CommitSync, RecordSync DEF Step
  <1> QED
    BY <1>1, <1>2

\* SyncInv holds at first.
LEMMA SyncInit ==
    ASSUME NEW h \in Handlers
    PROVE  Init => SyncInv(h)
  <1> SUFFICES ASSUME Init PROVE SyncInv(h)
    OBVIOUS
  <1>1. req[h].phase = "idle" /\ rules[Everyone] = "NONE" /\ ~gs_is_published
    BY DEF Init, Idle, Everyone, Keys, DataKeys
  <1> QED
    BY <1>1 DEF SyncInv, EveryoneFlag, Writing

\* Only a commit changes rules, and the ACL is then the one of the new rules.
LEMMA CommitsWithAcl ==
    ASSUME TypeInv, NEW h, Handlers = {h}, SyncInv(h), [Next]_vars,
           Granted(rules', DataKeys) # Granted(rules, DataKeys)
    PROVE  AclMatches'
  <1>1. commit(h)
    <2>1. CASE UNCHANGED rules
      BY <2>1
    <2>2. CASE Next /\ rules' # rules
      BY <2>2 DEF Next, Step, change_rule, toggle_publish_gs, toggle_publish_gn, flush,
                  sync_acl_read, sync_acl_write, sync_metadata_sharing, sync_record_sharing,
                  toggle_publish_metadata_record, commit_gn
    <2> QED
      BY <2>1, <2>2 DEF vars
  <1>2. rules' = visible(h) /\ UNCHANGED acl
    BY <1>1, CommitAlone
  <1>3. req[h].phase = "flushed" /\ req[h].key \in Keys /\ rules \in [Keys -> Values]
    BY <1>1 DEF commit, TypeInv, Writing, SharingTypeOK
  <1>4. req[h].key \in DataKeys
    <2> SUFFICES ASSUME req[h].key \notin DataKeys
                 PROVE  FALSE
      OBVIOUS
    <2>1. \A k \in DataKeys : rules'[k] = rules[k]
      BY <1>2, <1>3 DEF visible, Keys
    <2> QED
      BY <2>1 DEF Granted
  <1>5. acl' = AclOf(Granted(rules', DataKeys))
    BY <1>2, <1>3, <1>4 DEF SyncInv
  <1> QED
    BY <1>5 DEF AclMatches, AclOf

\* Only the synchronisation of the record changes its privileges.
LEMMA SharesRules ==
    ASSUME TypeInv, NEW h, Handlers = {h}, SyncInv(h), [Next]_vars, shared' # shared
    PROVE  shared' = Granted(rules, MetadataKeys)
  <1>1. sync_record_sharing(h)
    BY DEF Next, Step, change_rule, toggle_publish_gs, toggle_publish_gn, flush, sync_acl_read,
           sync_acl_write, commit, sync_metadata_sharing, toggle_publish_metadata_record,
           commit_gn, catalogVars, vars
  <1> QED
    BY <1>1 DEF sync_record_sharing, record_privileges, SyncInv

\* With requests served one at a time, the flag the page shows says whether the public
\* rule exists, whatever fails (integrity_link.py, toggle_publish_gs_integrity_link).
THEOREM EveryoneFlagAlways ==
    ASSUME NEW h, Handlers = {h}
    PROVE  Spec => []EveryoneFlag
  <1>1. SyncInv(h) => EveryoneFlag
    BY DEF SyncInv
  <1>2. Init => TypeInv /\ SyncInv(h)
    BY TypeInit, SyncInit
  <1>3. TypeInv /\ SyncInv(h) /\ [Next]_vars => (TypeInv /\ SyncInv(h))'
    BY TypeStep, SyncStep
  <1> QED
    BY <1>1, <1>2, <1>3, PTL DEF Spec

\* With requests served one at a time, DATA rules are committed only when the layer's ACL
\* grants exactly what they say, whatever failed before (integrity_link.py, the flush and
\* _sync_data_sharing before the commit).
THEOREM RulesCommittedWithAclAlways ==
    ASSUME NEW h, Handlers = {h}
    PROVE  Spec => RulesCommittedWithAcl
  <1>1. Init => TypeInv /\ SyncInv(h)
    BY TypeInit, SyncInit
  <1>2. TypeInv /\ SyncInv(h) /\ [Next]_vars => (TypeInv /\ SyncInv(h))'
    BY TypeStep, SyncStep
  <1>3. TypeInv /\ SyncInv(h) /\ [Next]_vars =>
            [Granted(rules', DataKeys) # Granted(rules, DataKeys) => AclMatches']_vars
    BY CommitsWithAcl
  <1> QED
    BY <1>1, <1>2, <1>3, PTL DEF Spec, RulesCommittedWithAcl

\* With requests served one at a time, a change of the record's privileges leaves exactly
\* those of the committed METADATA rules (metadata_service.py, sync_record_sharing).
THEOREM RecordFollowsRulesAlways ==
    ASSUME NEW h, Handlers = {h}
    PROVE  Spec => RecordFollowsRules
  <1>1. Init => TypeInv /\ SyncInv(h)
    BY TypeInit, SyncInit
  <1>2. TypeInv /\ SyncInv(h) /\ [Next]_vars => (TypeInv /\ SyncInv(h))'
    BY TypeStep, SyncStep
  <1>3. TypeInv /\ SyncInv(h) /\ [Next]_vars =>
            [shared' # shared => shared' = Granted(rules, MetadataKeys)]_vars
    BY SharesRules
  <1> QED
    BY <1>1, <1>2, <1>3, PTL DEF Spec, RecordFollowsRules
=============================================================================
