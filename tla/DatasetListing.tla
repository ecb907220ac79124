--------------------------- MODULE DatasetListing ---------------------------
(***************************************************************************)
(* The list of datasets: GET /ingestion/integrity-links answers a page in  *)
(* several statements (api/routes/ingestion/integrity_links.py), and the   *)
(* list page asks for the pages one after the other while datasets come    *)
(* and go (frontend, integrity-link-list.component.ts).                    *)
(*                                                                         *)
(* A dataset is the number of its row in the order of created_at; a query  *)
(* returns the newest first, and the offset of a row is how many newer     *)
(* rows the query returns.                                                 *)
(***************************************************************************)
EXTENDS Integers, Sequences, FiniteSets

CONSTANTS
    BATCH_SIZE,
    InitialRows, MaxRows,  \* datasets at the start, datasets ever created
    MaxRequests,           \* pages the list asks for
    MaxChanges,            \* datasets and tables that come, go or are edited
    Filters, NoFilter,     \* values of the search box and the dropdowns
    InitialMatching,       \* what the filters let through of every row, until it is edited
    Faults                 \* {"api"}: requests may fail

ASSUME ListingAssumption ==
    /\ BATCH_SIZE \in Nat \ {0}
    /\ InitialRows \in 0..MaxRows /\ MaxRows \in Nat
    /\ MaxRequests \in Nat \ {0} /\ MaxChanges \in Nat
    /\ NoFilter \in Filters
    /\ InitialMatching \in [Filters -> SUBSET (1..MaxRows)]
    /\ Faults \subseteq {"api"}

VARIABLES
    rows,       \* rows of integrity_link
    created,    \* rows ever inserted
    matching,   \* rows a filter lets through, and the user may see
    tabled,     \* datasets whose staging or final table exists, or that need none
    page,       \* signals of IntegrityLinkListComponent
    requests,   \* GET requests in progress
    deleting,   \* dataset whose deletion the page waits for, or 0
    changes,    \* datasets and tables that came, went or were edited
    browse      \* what happened since the list was last loaded from its start

dbVars == <<rows, created, matching, tabled, changes>>
vars == <<rows, created, matching, tabled, changes, page, requests, deleting, browse>>

-----------------------------------------------------------------------------

Rows == 1..MaxRows

Page ==
    [ filters : Filters, shown : Seq(Rows), total : Int, hasMore : BOOLEAN,
      nextOffset : 0..MaxRows, requestId : 1..MaxRequests,
      loading : BOOLEAN, loadingMore : BOOLEAN ]

\* accumulated: the rows kept so far, each at its offset; next_offset: set with
\* the answer.
Request ==
    [ id : 1..MaxRequests, filters : Filters, append : BOOLEAN,
      step : {"fetch", "count", "answered"},
      offset : Nat, fetch_offset : Nat, last_chunk_len : Nat,
      accumulated : UNION {[S -> Rows] : S \in SUBSET (0..MaxRows)}, total : Int ]

\* steady: datasets listed ever since; matched: rows the filters let through at some
\* time; removed and added: rows that went (the one the page still waits for included)
\* or came, or that an edit took from the query or brought to it; relisted: a table
\* came or went; valid: the first page arrived.
Browse ==
    [ steady : SUBSET Rows, matched : SUBSET Rows, removed : Nat, added : Nat,
      relisted : BOOLEAN, valid : BOOLEAN ]

ListingTypeOK ==
    /\ rows \subseteq 1..created /\ created \in 0..MaxRows
    /\ matching \in [Filters -> SUBSET Rows]
    /\ tabled \subseteq Rows
    /\ changes \in 0..MaxChanges
    /\ page \in Page
    /\ requests \subseteq Request
    /\ deleting \in 0..MaxRows
    /\ browse \in Browse

-----------------------------------------------------------------------------
(* The query, and what the listing keeps of it *)

Query(f) == rows \cap matching[f]

offset_of(n, f) == Cardinality({m \in Query(f) : m > n})

\* _is_listed: a dataset without table is left out, after the query.
Listed(f) == Query(f) \cap tabled

\* The elements of a set of offsets or rows, by rank.
Nth(S, i) == CHOOSE x \in S : Cardinality({y \in S : y < x}) = i - 1

Newest(S) == [i \in 1..Cardinality(S) |-> Nth(S, Cardinality(S) + 1 - i)]

\* A sequence without one of its items (SelectSeq, of which nothing can be proved).
Without(seq, n) ==
    LET kept == {i \in DOMAIN seq : seq[i] # n} IN
    [i \in 1..Cardinality(kept) |-> seq[Nth(kept, i)]]

NewBrowse(f) ==
    [ steady |-> Listed(f), matched |-> Query(f),
      removed |-> IF deleting = 0 THEN 0 ELSE 1, added |-> 0,
      relisted |-> FALSE, valid |-> FALSE ]

-----------------------------------------------------------------------------
(* The page asks *)

NewRequest(f, append, offset) ==
    [ id |-> page.requestId + 1, filters |-> f, append |-> append, step |-> "fetch",
      offset |-> offset, fetch_offset |-> offset, last_chunk_len |-> 0,
      accumulated |-> <<>>, total |-> -1 ]

Init ==
    /\ created = InitialRows
    /\ rows = 1..InitialRows
    /\ matching = InitialMatching
    /\ tabled \in SUBSET rows
    /\ page = [ filters |-> NoFilter, shown |-> <<>>, total |-> -1, hasMore |-> FALSE,
                nextOffset |-> 0, requestId |-> 1, loading |-> TRUE, loadingMore |-> FALSE ]
    /\ requests = {[ NewRequest(NoFilter, FALSE, 0) EXCEPT !.id = 1 ]}
    /\ deleting = 0
    /\ changes = 0
    /\ browse = NewBrowse(NoFilter)

\* A change of the filters loads the list from its start, after 300 ms without
\* another change; filters put back meanwhile load nothing.
select_filters(f) ==
    /\ f # page.filters
    /\ page.requestId < MaxRequests
    /\ page' = [page EXCEPT !.filters = f, !.loading = TRUE, !.hasMore = FALSE,
                            !.nextOffset = 0, !.requestId = @ + 1]
    /\ requests' = requests \cup {NewRequest(f, FALSE, 0)}
    /\ browse' = NewBrowse(f)
    /\ UNCHANGED <<dbVars, deleting>>

\* The button is shown while there is more, and disabled during a load. Users are
\* assumed not to click it within the 300 ms.
loadMore ==
    /\ page.hasMore /\ ~page.loadingMore
    /\ page.requestId < MaxRequests
    /\ page' = [page EXCEPT !.loadingMore = TRUE, !.requestId = @ + 1]
    /\ requests' = requests \cup {NewRequest(page.filters, TRUE, page.nextOffset)}
    /\ UNCHANGED <<dbVars, deleting, browse>>

-----------------------------------------------------------------------------
(* The backend answers: list_integrity_links *)

Step(q, r) == requests' = (requests \ {q}) \cup {r}

Enough(acc) == Cardinality(DOMAIN acc) > BATCH_SIZE

\* One chunk: BATCH_SIZE + 1 rows of the query, of which those with a table are
\* accumulated, until there is one more than a page or the rows are exhausted.
fetch_chunk(q) ==
    LET offsets == q.fetch_offset..(q.fetch_offset + BATCH_SIZE)
        chunk   == {n \in Query(q.filters) : offset_of(n, q.filters) \in offsets}
        kept    == {offset_of(n, q.filters) : n \in chunk \cap tabled}
        acc     == [o \in DOMAIN q.accumulated \cup kept |->
                       IF o \in kept
                       THEN CHOOSE n \in chunk : offset_of(n, q.filters) = o
                       ELSE q.accumulated[o]]
        len       == Cardinality(chunk)
        exhausted == len <= BATCH_SIZE
    IN
    /\ q \in requests /\ q.step = "fetch"
    /\ Step(q, [q EXCEPT
          !.accumulated = acc, !.last_chunk_len = len,
          !.fetch_offset = IF exhausted THEN @ ELSE @ + BATCH_SIZE + 1,
          !.step = IF ~exhausted /\ ~Enough(acc) THEN "fetch"
                   ELSE IF q.offset = 0 THEN "count" ELSE "answered"])
    /\ UNCHANGED <<dbVars, page, deleting, browse>>

\* _count_listed, a statement of its own: the total of the first page.
count_listed(q) ==
    /\ q \in requests /\ q.step = "count"
    /\ Step(q, [q EXCEPT !.step = "answered", !.total = Cardinality(Listed(q.filters))])
    /\ UNCHANGED <<dbVars, page, deleting, browse>>

\* One item more than a page was found.
has_more(q) == Enough(q.accumulated)

page_length(q) ==
    IF has_more(q) THEN BATCH_SIZE ELSE Cardinality(DOMAIN q.accumulated)

items(q) == [i \in 1..page_length(q) |-> q.accumulated[Nth(DOMAIN q.accumulated, i)]]

\* Estimated from the number of items; or past every row that was scanned.
estimated_offset(q) == q.offset + page_length(q)
scanned_offset(q) == q.fetch_offset + q.last_chunk_len

\* The offset of the first item that is left for the next page.
next_offset(q) ==
    IF has_more(q) THEN Nth(DOMAIN q.accumulated, BATCH_SIZE + 1)
                   ELSE q.fetch_offset + q.last_chunk_len

-----------------------------------------------------------------------------
(* The page receives the answer *)

\* Answers are taken as they arrive.
any_answer(q) == TRUE

\* An answer that a later request overtook is dropped.
current(q) == q.id = page.requestId

receive(q) ==
    /\ q \in requests /\ q.step = "answered"
    /\ requests' = requests \ {q}
    /\ IF current(q)
       THEN /\ page' = [page EXCEPT
                  !.shown = IF q.append THEN @ \o items(q) ELSE items(q),
                  !.total = IF q.append THEN @ ELSE q.total,
                  !.hasMore = has_more(q), !.nextOffset = next_offset(q),
                  !.loading = FALSE, !.loadingMore = FALSE]
            /\ browse' = [browse EXCEPT !.valid = TRUE]
       ELSE UNCHANGED <<page, browse>>
    /\ UNCHANGED <<dbVars, deleting>>

\* A request fails, or is lost: the list stays as it is.
fail(q) ==
    /\ "api" \in Faults /\ q \in requests
    /\ requests' = requests \ {q}
    /\ page' = IF current(q) THEN [page EXCEPT !.loading = FALSE, !.loadingMore = FALSE]
                             ELSE page
    /\ UNCHANGED <<dbVars, deleting, browse>>

-----------------------------------------------------------------------------
(* Datasets come, change and go *)

Change == changes < MaxChanges /\ changes' = changes + 1

\* A dataset without a table of datafeeder (empty, prefilled, direct access) is listed
\* at once, another one when its staging table is there.
create_dataset(listed) ==
    LET n == created + 1 IN
    /\ Change /\ created < MaxRows
    /\ created' = n
    /\ rows' = rows \cup {n}
    /\ tabled' = IF listed THEN tabled \cup {n} ELSE tabled
    /\ browse' = [browse EXCEPT !.added = @ + 1,
                                !.matched = @ \cup ({n} \cap matching[page.filters])]
    /\ UNCHANGED <<matching, page, requests, deleting>>

\* The title, schedule, rules, owner or visibility of a dataset changes: the filters of
\* S let it through from now on.
edit_dataset(n, S) ==
    LET f == page.filters
        was == n \in matching[f]
        is  == f \in S
    IN
    /\ Change /\ n \in rows /\ S # {g \in Filters : n \in matching[g]}
    /\ matching' = [g \in Filters |-> IF g \in S THEN matching[g] \cup {n}
                                                ELSE matching[g] \ {n}]
    /\ \/ (was <=> is) /\ UNCHANGED browse
       \/ was /\ ~is /\ browse' = [browse EXCEPT !.removed = @ + 1, !.steady = @ \ {n}]
       \/ ~was /\ is /\ browse' = [browse EXCEPT !.added = @ + 1, !.matched = @ \cup {n}]
    /\ UNCHANGED <<rows, created, tabled, page, requests, deleting>>

\* A staging run creates the table of a draft, a cleanup drops one.
table_changes(n) ==
    /\ Change /\ n \in rows
    /\ tabled' = IF n \in tabled THEN tabled \ {n} ELSE tabled \cup {n}
    /\ browse' = [browse EXCEPT !.relisted = TRUE, !.steady = @ \ {n}]
    /\ UNCHANGED <<rows, created, matching, page, requests, deleting>>

Remove(n) ==
    /\ Change /\ n \in rows
    /\ rows' = rows \ {n}
    /\ tabled' = tabled \ {n}
    /\ browse' = [browse EXCEPT !.removed = @ + 1, !.steady = @ \ {n}]
    /\ UNCHANGED matching

\* Another user deletes a dataset.
delete_dataset(n) ==
    /\ Remove(n)
    /\ UNCHANGED <<created, page, requests, deleting>>

\* deleteIntegrityLink: the user deletes a dataset of the list; once the backend has
\* answered it leaves the list. The next offset is not corrected.
deleteIntegrityLink(n) ==
    /\ deleting = 0
    /\ \E i \in DOMAIN page.shown : page.shown[i] = n
    /\ Remove(n)
    /\ deleting' = n
    /\ UNCHANGED <<created, page, requests>>

deleted ==
    /\ deleting # 0
    /\ page' = [page EXCEPT !.shown = Without(@, deleting),
                            !.total = IF @ = -1 THEN -1 ELSE @ - 1]
    /\ deleting' = 0
    /\ UNCHANGED <<dbVars, requests, browse>>

-----------------------------------------------------------------------------

Answer(q) == fetch_chunk(q) \/ count_listed(q) \/ receive(q)

Next ==
    \/ \E f \in Filters : select_filters(f)
    \/ loadMore
    \/ \E q \in requests : Answer(q) \/ fail(q)
    \/ \E listed \in BOOLEAN : create_dataset(listed)
    \/ \E n \in Rows, S \in SUBSET Filters : edit_dataset(n, S)
    \/ \E n \in Rows : table_changes(n) \/ delete_dataset(n) \/ deleteIntegrityLink(n)
    \/ deleted

Spec == Init /\ [][Next]_vars

-----------------------------------------------------------------------------
(* Properties *)

Shown == {page.shown[i] : i \in DOMAIN page.shown}

\* While nothing changes, the pages put together are the list: each dataset once,
\* newest first, the total right, and "load more" offered until the last one
\* (list_integrity_links, whose pages skip rows without table).
PagesMakeTheList ==
    browse.valid /\ browse.removed = 0 /\ browse.added = 0 /\ ~browse.relisted =>
        LET all == Newest(Listed(page.filters)) IN
        /\ Len(page.shown) <= Len(all)
        /\ page.shown = SubSeq(all, 1, Len(page.shown))
        /\ page.total = Len(all)
        /\ ~page.loading => (page.hasMore <=> Len(page.shown) < Len(all))

\* Whatever happens meanwhile, a list loaded to its end misses at most one dataset for
\* each row that left the query while the user was loading it, deleted or edited so that
\* the filters or the user's rights no longer let it through: none if no row did
\* (next_offset is the offset of a row, not a number of items).
SkippedAtMostRemoved ==
    browse.valid /\ ~page.loading /\ ~page.hasMore =>
        Cardinality(browse.steady \ Shown) <= browse.removed

\* It repeats at most one dataset for each row that came into the query meanwhile,
\* created or edited.
RepeatedAtMostAdded ==
    browse.valid => Len(page.shown) - Cardinality(Shown) <= browse.added

\* Once the list of the present filters has arrived, what it holds was let through by
\* them at some time since it was asked for, although answers to earlier filters may
\* still arrive (requestId) and datasets be edited between its pages.
ShownMatchesFilters ==
    browse.valid => Shown \subseteq browse.matched
=============================================================================
