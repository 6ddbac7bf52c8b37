------------------------------ MODULE Reports ------------------------------
(***************************************************************************)
(* The report table, the JSON cache in front of it and the HTTP handlers   *)
(* that read and write them (report.c, route_api.c, route_post_submit).    *)
(*                                                                         *)
(* The server is one libuv thread, so a handler runs to completion: one    *)
(* action per handler.  What interleaves are the requests of different     *)
(* users, the clock, restarts, and the failures of single SQL statements   *)
(* inside a handler.  DbFaults names the statements that may fail:         *)
(*   lookup  the handler's first report_get_by_id                          *)
(*   user    user_get_by_id of the operator to assign                      *)
(*   insert  the INSERT of a submission                                    *)
(*   update  the guarded UPDATE of a write operation                       *)
(*   reread  the report_get_by_id that finds out which city to invalidate  *)
(*   peek    the second report_get_by_id of route_api_admin_assign         *)
(*   reset   its UPDATE back to ACTIVE                                     *)
(*   retry   the UPDATE of its second report_assign                        *)
(*   select  the query of a list view (fails to open, or stops half way)   *)
(*   row     allocating the JSON object of a row, which is then left out   *)
(*   json    allocating or printing the JSON array                         *)
(* A failed statement changes no row (SQLite rolls it back).  At most one  *)
(* fails per request: every failure but that of reset ends the handler,    *)
(* and after a failed reset the guard of the retry is false anyway.        *)
(***************************************************************************)
EXTENDS Naturals, Sequences, FiniteSets

CONSTANTS
  Citizens, Operators, Admins,  \* user ids, by role
  CityOf,                       \* the city each user registered with
  CacheSlots,                   \* CACHE_MAX_ENTRIES
  CacheTTL,                     \* CACHE_TTL_SECONDS
  CacheRows,                    \* rows whose JSON fits CACHE_JSON_MAX
  BodyRows,                     \* rows whose JSON fits RESPONSE_BUFFER_SIZE
  DbFaults,                     \* statements that may fail
  StarInputs,                   \* values of the "stars" form field
  MaxReports,                   \* bound: rows ever inserted
  NULL                          \* SQL NULL, a free slot, an absent parameter

Users == Citizens \cup Operators \cup Admins

Statements == {"lookup", "user", "insert", "update", "reread", "peek",
               "reset", "retry", "select", "row", "json"}

ASSUME UserAssumption ==
  /\ Users \subseteq Nat \ {0}
  /\ Citizens \cap Operators = {}
  /\ Citizens \cap Admins = {}
  /\ Operators \cap Admins = {}
ASSUME CityAssumption == DOMAIN CityOf = Users
ASSUME BoundAssumption ==
  /\ CacheSlots \in Nat \ {0}
  /\ CacheTTL \in Nat
  /\ CacheRows \in Nat
  /\ BodyRows \in Nat
  /\ MaxReports \in Nat
ASSUME FaultAssumption == DbFaults \subseteq Statements
ASSUME NullAssumption == NULL \notin Nat
ASSUME StarAssumption == StarInputs \subseteq Nat

VARIABLES
  reports,  \* the table: row number = id (AUTOINCREMENT, never deleted)
  cache,    \* g_cache: a slot is NULL (cachedAt = 0) or an entry
  resp      \* the last response: to whom, which list, status code, body

vars == <<reports, cache, resp>>

-----------------------------------------------------------------------------
(* Rows.                                                                   *)

ACTIVE == 0
ASSIGNED == 1
IN_PROGRESS == 2
RESOLVED == 3

Cities == {CityOf[u] : u \in Users}

\* A timestamp column is NULL or set; which second it holds is abstracted.
STAMP == 1

Row == [author_id : Users, city : Cities, status : 0..3,
        assigned_to : Users \cup {NULL},
        assigned_at : {NULL, STAMP}, resolved_at : {NULL, STAMP},
        feedback : (1..5) \cup {NULL}]

\* sqlite3_column_int64 reads NULL as 0.
int64(column) == IF column = NULL THEN 0 ELSE column

\* cursor_to_report followed by report_to_cjson.
JsonRow(row) ==
  [author_id |-> row.author_id, city |-> row.city, status |-> row.status,
   assigned_to |-> int64(row.assigned_to),
   assigned_at |-> int64(row.assigned_at),
   resolved_at |-> int64(row.resolved_at),
   feedback |-> int64(row.feedback)]

\* cursor_to_json_array on the rows ids: report id -> JSON object.
JsonArray(db, ids) == [i \in ids |-> JsonRow(db[i])]

-----------------------------------------------------------------------------
(* The cache.  An entry keeps its age instead of cachedAt; past the TTL    *)
(* all ages behave alike, so they stop at CacheTTL + 1.                    *)

Slots == 1..CacheSlots

Key(u, archived) == [city |-> CityOf[u], userId |-> u,
                     isOperator |-> u \in Operators, isArchived |-> archived]

Keys == {Key(u, archived) : u \in Users, archived \in BOOLEAN}

Expired(entry) == entry.age > CacheTTL

Live(s) == cache[s] # NULL /\ ~Expired(cache[s])

\* Mutant of Hits: the archive flag is not compared.
HitsAnyList(key) == {s \in Slots : Live(s) /\ cache[s].key.userId = key.userId}

Hits(key) == {s \in Slots : Live(s) /\ cache[s].key = key}

\* Mutant of Evict: the scan skips an expired entry without freeing it.
EvictForgotten(last) == cache

\* cache_find looks at the slots 1..last and frees the expired ones.
Evict(last) ==
  [s \in Slots |-> IF cache[s] # NULL /\ s <= last /\ Expired(cache[s])
                   THEN NULL ELSE cache[s]]

\* Mutant of Hit: a hit renews the entry, a sliding expiry.
HitRenews(key, s) ==
  /\ s \in Hits(key)
  /\ \A t \in Hits(key) : s <= t
  /\ cache' = [Evict(s) EXCEPT ![s].age = 0]

\* A hit in slot s: the first slot of that key.  It does not touch cachedAt.
Hit(key, s) ==
  /\ s \in Hits(key)
  /\ \A t \in Hits(key) : s <= t
  /\ cache' = Evict(s)

\* cache_store's slot: the first free one, or else the first of the oldest.
StoreSlot(ch, s) ==
  \/ /\ ch[s] = NULL
     /\ \A t \in Slots : t < s => ch[t] # NULL
  \/ /\ \A t \in Slots : ch[t] # NULL
     /\ \A t \in Slots : ch[t].age <= ch[s].age
     /\ \A t \in Slots : t < s => ch[t].age < ch[s].age

\* cache_store after a miss in ch.  Large results are not stored.
cache_store(ch, key, view) ==
  IF Cardinality(DOMAIN view) > CacheRows
  THEN cache' = ch
  ELSE \E s \in Slots :
         /\ StoreSlot(ch, s)
         /\ cache' = [ch EXCEPT ![s] = [key |-> key, age |-> 0, view |-> view]]

\* Mutant of report_cache_invalidate_city: only the author's entries go.
InvalidateAuthorOnly(ch, city, authorId) ==
  [s \in Slots |->
     IF ch[s] # NULL /\ ch[s].key.city = city /\ ch[s].key.userId = authorId
     THEN NULL ELSE ch[s]]

\* Drops the entries of a city that belong to operators or to the author.
report_cache_invalidate_city(ch, city, authorId) ==
  [s \in Slots |->
     IF /\ ch[s] # NULL
        /\ ch[s].key.city = city
        /\ ch[s].key.isOperator \/ ch[s].key.userId = authorId
     THEN NULL ELSE ch[s]]

-----------------------------------------------------------------------------
(* Write operations of report.c: each takes the table and the cache and    *)
(* yields both with its return code (2 for the code's -1).  f is the       *)
(* statement that fails in this call, or "none".                           *)

\* UPDATE reports SET ... WHERE ...: rows is the WHERE clause, new the row
\* that SET makes of each of them.
Update(db, rows, new) == [i \in DOMAIN db |-> IF i \in rows THEN new[i] ELSE db[i]]

\* The row with the columns the statements set; author and city stay.
SetColumns(r, status, assigned_to, assigned_at, resolved_at, feedback) ==
  [author_id |-> r.author_id, city |-> r.city, status |-> status,
   assigned_to |-> assigned_to, assigned_at |-> assigned_at,
   resolved_at |-> resolved_at, feedback |-> feedback]

\* SET status = ?, assigned_to = ?, assigned_at = ?
SetAssignment(r, status, op, at) ==
  SetColumns(r, status, op, at, r.resolved_at, r.feedback)

\* SET status = ?
SetStatus(r, status) == SetAssignment(r, status, r.assigned_to, r.assigned_at)

\* A guarded UPDATE of report id, the db_changes() test, the re-read of the
\* row and the invalidation of its city.
GuardedUpdate(db, ch, id, rows, new, f) ==
  IF f = "update" THEN [rc |-> 2, db |-> db, cache |-> ch]
  ELSE IF rows = {} THEN [rc |-> 0, db |-> db, cache |-> ch]
  ELSE [rc |-> 1, db |-> Update(db, rows, new),
        cache |-> IF f = "reread" THEN ch
                  ELSE report_cache_invalidate_city(ch, db[id].city, db[id].author_id)]

report_assign(db, ch, id, op, f) ==
  LET rows == {i \in DOMAIN db :
                 i = id /\ db[i].status = ACTIVE /\ db[i].assigned_to = NULL}
  IN  GuardedUpdate(db, ch, id, rows,
        [i \in rows |-> SetAssignment(db[i], ASSIGNED, op, STAMP)], f)

\* Mutant of report_accept: the WHERE clause forgets the assignee.
AcceptByAnyone(db, ch, id, op, f) ==
  LET rows == {i \in DOMAIN db : i = id /\ db[i].status = ASSIGNED}
  IN  GuardedUpdate(db, ch, id, rows,
        [i \in rows |-> SetStatus(db[i], IN_PROGRESS)], f)

report_accept(db, ch, id, op, f) ==
  LET rows == {i \in DOMAIN db :
                 i = id /\ db[i].assigned_to = op /\ db[i].status = ASSIGNED}
  IN  GuardedUpdate(db, ch, id, rows,
        [i \in rows |-> SetStatus(db[i], IN_PROGRESS)], f)

\* Mutant of report_reject: the assignee is left in the row.
RejectKeepsAssignee(db, ch, id, op, f) ==
  LET rows == {i \in DOMAIN db :
                 i = id /\ db[i].assigned_to = op /\ db[i].status = ASSIGNED}
  IN  GuardedUpdate(db, ch, id, rows,
        [i \in rows |-> SetStatus(db[i], ACTIVE)], f)

report_reject(db, ch, id, op, f) ==
  LET rows == {i \in DOMAIN db :
                 i = id /\ db[i].assigned_to = op /\ db[i].status = ASSIGNED}
  IN  GuardedUpdate(db, ch, id, rows,
        [i \in rows |-> SetAssignment(db[i], ACTIVE, NULL, NULL)], f)

report_resolve(db, ch, id, op, f) ==
  LET rows == {i \in DOMAIN db :
                 i = id /\ db[i].assigned_to = op /\ db[i].status = IN_PROGRESS}
  IN  GuardedUpdate(db, ch, id, rows,
        [i \in rows |-> SetColumns(db[i], RESOLVED, db[i].assigned_to, db[i].assigned_at,
                                 STAMP, db[i].feedback)], f)

\* Mutant of ValidStars: the upper bound is off by one.
SixStars(stars) == stars >= 1 /\ stars <= 6

\* The range test of the handler and of report_set_feedback.
ValidStars(stars) == stars >= 1 /\ stars <= 5

report_set_feedback(db, ch, id, author, stars, f) ==
  LET rows == {i \in DOMAIN db :
                 /\ i = id
                 /\ db[i].author_id = author
                 /\ db[i].status = RESOLVED
                 /\ db[i].feedback = NULL}
  IN  GuardedUpdate(db, ch, id, rows,
        [i \in rows |-> SetColumns(db[i], RESOLVED, db[i].assigned_to, db[i].assigned_at,
                                 db[i].resolved_at, stars)], f)

\* Mutant of ForceReset: the assignee stays, so the second guard fails.
ResetKeepsAssignee(db, id) ==
  LET rows == {i \in DOMAIN db : i = id /\ db[i].status = ASSIGNED}
  IN  Update(db, rows, [i \in rows |-> SetStatus(db[i], ACTIVE)])

\* The UPDATE that route_api_admin_assign runs before it assigns again.  It
\* is a bare db_exec: its result is ignored and no cache entry is dropped.
ForceReset(db, id) ==
  LET rows == {i \in DOMAIN db : i = id /\ db[i].status = ASSIGNED}
  IN  Update(db, rows, [i \in rows |-> SetAssignment(db[i], ACTIVE, NULL, NULL)])

-----------------------------------------------------------------------------
(* Handlers.                                                               *)

\* A visitor is a logged-in user, or NULL when get_session_user fails.
Visitors == Users \cup {NULL}

Ids == 1..(MaxReports + 1)  \* report ids a client may name; the last is unknown

\* The statement of this request that fails.
Failing(statements) == {"none"} \cup (DbFaults \cap statements)

\* Whom an error answers is abstracted.
Reply(u, code) ==
  resp' = [user |-> IF code < 400 THEN u ELSE NULL, list |-> "none",
           code |-> code, body |-> NULL]

ReplyList(u, list, view) ==
  resp' = [user |-> u, list |-> list, code |-> 200, body |-> view]

\* The code for what a write operation returned; zero is the handler's own.
CodeOf(rc, zero) == CASE rc = 1 -> 200 [] rc = 0 -> zero [] OTHER -> 500

\* The early returns, after the role test, shared by the handlers that act
\* on one report of the caller's city, in the code's order; 0 when none
\* applies.
Refusal(u, wellFormed, id, f) ==
  IF ~wellFormed THEN 400
  ELSE IF f = "lookup" \/ id \notin DOMAIN reports THEN 404
  ELSE IF reports[id].city # CityOf[u] THEN 403
  ELSE 0

Refuse(code) == code # 0 /\ Reply(NULL, code) /\ UNCHANGED <<reports, cache>>

Apply(u, w, zero) ==
  /\ reports' = w.db
  /\ cache' = w.cache
  /\ Reply(u, CodeOf(w.rc, zero))

\* The second disjunct is the error page: the description is missing, the
\* coordinates lie outside the city, or the INSERT failed.
route_post_submit(u) ==
  \/ /\ u \notin Citizens
     /\ Reply(u, 302)
     /\ UNCHANGED <<reports, cache>>
  \/ /\ u \in Citizens
     /\ Reply(u, 200)
     /\ UNCHANGED <<reports, cache>>
  \/ /\ u \in Citizens
     /\ Len(reports) < MaxReports
     /\ reports' = Append(reports,
          [author_id |-> u, city |-> CityOf[u], status |-> ACTIVE,
           assigned_to |-> NULL, assigned_at |-> NULL, resolved_at |-> NULL,
           feedback |-> NULL])
     /\ cache' = report_cache_invalidate_city(cache, CityOf[u], u)
     /\ Reply(u, 302)

route_api_report_respond(u) ==
  \/ u \notin Operators /\ Refuse(403)
  \/ u \in Operators /\ \E id \in Ids, action \in {"accept", "reject", NULL},
                           f \in Failing({"lookup", "update", "reread"}) :
    LET refusal == Refusal(u, action \in {"accept", "reject"}, id, f)
        w == IF action = "accept" THEN report_accept(reports, cache, id, u, f)
             ELSE report_reject(reports, cache, id, u, f)
    IN  \/ Refuse(refusal)
        \/ refusal = 0 /\ Apply(u, w, 409)

route_api_report_status(u) ==
  \/ u \notin Operators /\ Refuse(403)
  \/ u \in Operators /\ \E id \in Ids, status \in {IN_PROGRESS, RESOLVED, NULL},
                           f \in Failing({"lookup", "update", "reread"}) :
    LET refusal == Refusal(u, status # NULL, id, f)
    IN  \/ Refuse(refusal)
        \/ refusal = 0 /\ status # RESOLVED /\ Refuse(400)
        \/ /\ refusal = 0
           /\ status = RESOLVED
           /\ Apply(u, report_resolve(reports, cache, id, u, f), 403)

\* No city test and no lookup here: the WHERE clause names the author.
route_api_report_feedback(u) ==
  \/ u \notin Citizens /\ Refuse(403)
  \/ u \in Citizens /\ \E stars \in StarInputs : ~ValidStars(stars) /\ Refuse(400)
  \/ u \in Citizens /\ \E id \in Ids, stars \in StarInputs, f \in Failing({"update", "reread"}) :
       /\ ValidStars(stars)
       /\ Apply(u, report_set_feedback(reports, cache, id, u, stars, f), 409)

\* The assignment after the early returns.  When the first report_assign
\* finds its guard false and the report is only ASSIGNED, it is reset and
\* assigned again.
AssignOrReassign(id, op, f) ==
  LET first == report_assign(reports, cache, id, op, f)
      db == IF f = "reset" THEN reports ELSE ForceReset(reports, id)
      second == report_assign(db, cache, id, op, IF f = "retry" THEN "update" ELSE f)
  IN  IF first.rc = 0 /\ f # "peek" /\ reports[id].status = ASSIGNED
      THEN second ELSE first

route_api_admin_assign(u) ==
  \/ u \notin Admins /\ Refuse(403)
  \/ u \in Admins /\ \E id \in Ids, op \in Operators \cup Admins \cup {0, NULL},
                        f \in Failing({"lookup", "user", "update", "reread",
                                      "peek", "reset", "retry"}) :
    LET refusal == Refusal(u, op # NULL, id, f)
        validOp == f # "user" /\ op \in Operators /\ CityOf[op] = CityOf[u]
    IN  \/ Refuse(refusal)
        \/ refusal = 0 /\ ~validOp /\ Refuse(400)
        \/ refusal = 0 /\ validOp /\ Apply(u, AssignOrReassign(id, op, f), 409)

-----------------------------------------------------------------------------
(* List views.                                                             *)

\* The four SELECTs of report_get_active_json and report_get_archived_json.
Select(db, key) ==
  {i \in DOMAIN db :
     IF key.isOperator
     THEN /\ db[i].assigned_to = key.userId
          /\ IF key.isArchived THEN db[i].status = RESOLVED
             ELSE db[i].status \in {ASSIGNED, IN_PROGRESS}
     ELSE /\ db[i].author_id = key.userId
          /\ IF key.isArchived THEN db[i].status = RESOLVED
             ELSE db[i].status < RESOLVED}

\* The rows that get into the array: all of them, or fewer when a step of the
\* cursor fails (those before it in ORDER BY; as the order is abstracted, any
\* of them), or when report_to_cjson returns NULL, which cJSON_AddItemToArray
\* ignores: the array is shorter, and cached like a whole one.
Drained(ids) == IF DbFaults \cap {"select", "row"} # {} THEN SUBSET ids ELSE {ids}

\* A body of 0 bytes (NULL) when the array exceeds the response buffer or
\* cannot be built.
Printable(ids) == Cardinality(ids) <= BodyRows

ServeList(u, list, key) ==
  \/ \E s \in Slots : Hit(key, s) /\ ReplyList(u, list, cache[s].view)
  \/ /\ Hits(key) = {}
     /\ \E ids \in Drained(Select(reports, key)) :
          \/ /\ Printable(ids)
             /\ cache_store(Evict(CacheSlots), key, JsonArray(reports, ids))
             /\ ReplyList(u, list, JsonArray(reports, ids))
          \/ /\ ~Printable(ids) \/ "json" \in DbFaults
             /\ cache' = Evict(CacheSlots)
             /\ ReplyList(u, list, NULL)

route_api_reports_active(u) ==
  /\ UNCHANGED reports
  /\ \/ u = NULL /\ Reply(u, 401) /\ UNCHANGED cache
     \/ u \in Users /\ ServeList(u, "active", Key(u, FALSE))

route_api_reports_archived(u) ==
  /\ UNCHANGED reports
  /\ \/ u = NULL /\ Reply(u, 401) /\ UNCHANGED cache
     \/ u \in Users /\ ServeList(u, "archived", Key(u, TRUE))

CityRows(db, city) == {i \in DOMAIN db : db[i].city = city}

\* The admin's list is never cached.
route_api_reports_all(u) ==
  /\ UNCHANGED <<reports, cache>>
  /\ \/ u \notin Admins /\ Reply(u, 403)
     \/ /\ u \in Admins
        /\ \E ids \in Drained(CityRows(reports, CityOf[u])) :
             \/ Printable(ids) /\ ReplyList(u, "all", JsonArray(reports, ids))
             \/ /\ ~Printable(ids) \/ DbFaults \cap {"select", "json"} # {}
                /\ ReplyList(u, "all", NULL)

-----------------------------------------------------------------------------
(* The environment.                                                        *)

NoReply == [user |-> NULL, list |-> "none", code |-> 0, body |-> NULL]

Older(entry) == [key |-> entry.key, age |-> entry.age + 1, view |-> entry.view]

\* A second passes.
Tick ==
  /\ cache' = [s \in Slots |->
                 IF cache[s] # NULL /\ cache[s].age <= CacheTTL
                 THEN Older(cache[s]) ELSE cache[s]]
  /\ resp' = NoReply
  /\ UNCHANGED reports

\* The process ends and starts again: the table is on disk, g_cache is not.
Restart ==
  /\ cache' = [s \in Slots |-> NULL]
  /\ resp' = NoReply
  /\ UNCHANGED reports

Init ==
  /\ reports = <<>>
  /\ cache = [s \in Slots |-> NULL]
  /\ resp = NoReply

Request(u) ==
  \/ route_post_submit(u)
  \/ route_api_report_respond(u)
  \/ route_api_report_status(u)
  \/ route_api_report_feedback(u)
  \/ route_api_admin_assign(u)
  \/ route_api_reports_active(u)
  \/ route_api_reports_archived(u)
  \/ route_api_reports_all(u)

Next == Tick \/ Restart \/ \E u \in Visitors : Request(u)

Spec == Init /\ [][Next]_vars

\* The clock does not stop; users need not do anything.
FairSpec == Spec /\ WF_vars(Tick)

-----------------------------------------------------------------------------
(* Properties.                                                             *)

View(key) == JsonArray(reports, Select(reports, key))

\* The table holds rows, the cache holds entries for keys of real users
\* whose ages fit the TTL (report.c, CacheEntry), the response is a reply.
TypeOK ==
  /\ reports \in Seq(Row)
  /\ DOMAIN cache = Slots
  /\ \A s \in Slots : cache[s] # NULL =>
       cache[s].key \in Keys /\ cache[s].age \in 0..(CacheTTL + 1)
  /\ resp.user \in Visitors
  /\ resp.code \in {0, 200, 302, 400, 401, 403, 404, 409, 500}

ConsistentRow(r) ==
  /\ r.author_id \in Citizens /\ r.city = CityOf[r.author_id]
  /\ (r.assigned_to = NULL) <=> (r.status = ACTIVE)
  /\ (r.assigned_at = NULL) <=> (r.status = ACTIVE)
  /\ (r.resolved_at # NULL) <=> (r.status = RESOLVED)
  /\ (r.feedback # NULL) => (r.status = RESOLVED)
  /\ (r.assigned_to # NULL) =>
       r.assigned_to \in Operators /\ CityOf[r.assigned_to] = r.city

\* The columns of every row agree with its status, and a row belongs to one
\* city: its author's and its assignee's.  The WHERE clauses of report.c
\* and the city checks of route_api.c keep this through every order of
\* requests and every failed statement.
RowConsistent == \A i \in DOMAIN reports : ConsistentRow(reports[i])

\* Every entry of the cache, expired or not, holds what its query would
\* return now: report_cache_invalidate_city drops every view that a write
\* of report.c changed.  Holds while no statement of IncoherentFaults fails.
CacheCoherent ==
  \A s \in Slots : cache[s] # NULL => cache[s].view = View(cache[s].key)

\* Statements whose failure leaves a stale or truncated view in the cache.
IncoherentFaults == {"reread", "retry", "select", "row"}

\* A list served to a user is what the table holds when it is served: every
\* earlier write by anybody is in it (report.h, report_cache_invalidate_city:
\* "subsequent reads reflect the updated database state").
ServedFresh ==
  /\ (resp.list \in {"active", "archived"} /\ resp.body # NULL) =>
       resp.body = View(Key(resp.user, resp.list = "archived"))
  /\ (resp.list = "all" /\ resp.body # NULL) =>
       resp.body = JsonArray(reports, CityRows(reports, CityOf[resp.user]))

\* cache_find frees what it skips, so cache_store never adds a second entry
\* for a key, and an invalidation or an expiry cannot uncover an older one.
NoDuplicateKeys ==
  \A s, t \in Slots :
    cache[s] # NULL /\ cache[t] # NULL /\ cache[s].key = cache[t].key => s = t

\* An API call that answers with an error changed no report (route_api.c).
\* Holds unless the retry of a forced reassignment fails.
ErrorLeavesTable ==
  [][resp'.code >= 400 => reports' = reports]_vars

StaleFor(key) == \E s \in Hits(key) : cache[s].view # View(key)

\* Whatever statements fail, a stale view lives no longer than its TTL: a
\* live entry that disagrees with the table does not stay so forever,
\* however often it is read (report.c, cache_find).
StaleExpires ==
  \A key \in Keys : StaleFor(key) ~> ~StaleFor(key)

\* The table as the abstract specification sees it.
Phase(status) == CASE status = ACTIVE -> "active" [] status = ASSIGNED -> "assigned"
                   [] status = IN_PROGRESS -> "in_progress" [] OTHER -> "resolved"

AbstractRow(r) == [author |-> r.author_id, city |-> r.city, phase |-> Phase(r.status),
                   holder |-> r.assigned_to, rating |-> r.feedback]

Abstract == INSTANCE ReportLifecycle WITH
              rows <- [i \in DOMAIN reports |-> AbstractRow(reports[i])],
              actor <- resp.user

\* Every change the handlers make to the table, with or without failing
\* statements, is a step the lifecycle allows to the user who made it
\* (route_api.c, report.c).
ImplementsLifecycle == Abstract!Spec
=============================================================================
