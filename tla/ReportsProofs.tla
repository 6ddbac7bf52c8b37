--------------------------- MODULE ReportsProofs ---------------------------
(***************************************************************************)
(* Proofs about Reports, for any sets of users, any number of cities,      *)
(* slots and rows.                                                         *)
(***************************************************************************)
EXTENDS Reports, TLAPS

\* What every table the handlers produce satisfies.
RowsOK(db) == db \in Seq(Row) /\ \A i \in DOMAIN db : ConsistentRow(db[i])

\* What every cache the handlers produce satisfies.
CacheOK(ch) ==
  /\ DOMAIN ch = Slots
  /\ \A s \in Slots : ch[s] # NULL =>
       ch[s].key \in Keys /\ ch[s].age \in 0..(CacheTTL + 1)

\* The cache ch agrees with the table db.
Coherent(db, ch) ==
  \A s \in Slots : ch[s] # NULL =>
    ch[s].view = JsonArray(db, Select(db, ch[s].key))

-----------------------------------------------------------------------------
(* Facts about the users and the table.                                    *)

\* User ids are positive numbers, so NULL and 0 name nobody; every role is a
\* set of users.
LEMMA UserFacts ==
  /\ Users \subseteq Nat /\ 0 \notin Users /\ NULL \notin Users
  /\ Citizens \subseteq Users /\ Operators \subseteq Users /\ Admins \subseteq Users
  /\ \A u \in Citizens : u \notin Operators
  /\ \A u \in Users : CityOf[u] \in Cities
BY UserAssumption, NullAssumption DEF Users, Cities

\* An UPDATE keeps the number of rows and the type of the table.
LEMMA UpdateType ==
  ASSUME NEW db \in Seq(Row), NEW rows, NEW new,
         \A i \in DOMAIN db : i \in rows => new[i] \in Row
  PROVE  /\ Update(db, rows, new) \in Seq(Row)
         /\ DOMAIN Update(db, rows, new) = DOMAIN db
         /\ \A i \in DOMAIN db :
              Update(db, rows, new)[i] = IF i \in rows THEN new[i] ELSE db[i]
<1> DEFINE upd == Update(db, rows, new)
<1>1. DOMAIN db = 1..Len(db) /\ Len(db) \in Nat /\ \A i \in DOMAIN db : db[i] \in Row
  OBVIOUS
<1>2. DOMAIN upd = 1..Len(db) /\ \A i \in 1..Len(db) : upd[i] \in Row
  BY <1>1 DEF Update
<1>3. upd \in [1..Len(db) -> Row]
  BY <1>2 DEF Update
<1>4. upd \in Seq(Row)
  BY <1>1, <1>3
<1> QED
  BY <1>1, <1>2, <1>4 DEF Update

\* The invalidation keeps the shape of the cache.
LEMMA InvalidateType ==
  ASSUME NEW ch, CacheOK(ch), NEW city, NEW author
  PROVE  CacheOK(report_cache_invalidate_city(ch, city, author))
BY DEF CacheOK, report_cache_invalidate_city

\* A key of a user stands for that user's city and role.
LEMMA KeyFacts ==
  ASSUME NEW key \in Keys
  PROVE  /\ key.userId \in Users
         /\ key.city = CityOf[key.userId]
         /\ key.isOperator <=> key.userId \in Operators
<1>1. PICK u \in Users, archived \in BOOLEAN : key = Key(u, archived)
  BY DEF Keys
<1> QED
  BY <1>1 DEF Key

\* A row appears only in views of users of its own city: its assignee's and
\* its author's.
LEMMA SelectedByCity ==
  ASSUME NEW db, RowsOK(db), NEW i \in DOMAIN db, NEW key \in Keys,
         i \in Select(db, key)
  PROVE  /\ key.city = db[i].city
         /\ key.isOperator \/ key.userId = db[i].author_id
<1>1. db[i] \in Row /\ ConsistentRow(db[i])
  BY DEF RowsOK
<1>2. /\ key.userId \in Users /\ key.city = CityOf[key.userId]
      /\ key.isOperator <=> key.userId \in Operators
  BY KeyFacts
<1>3. CASE key.isOperator
  <2>1. db[i].assigned_to = key.userId
    BY <1>3 DEF Select
  <2>2. db[i].assigned_to # NULL
    BY <2>1, <1>2, UserFacts
  <2> QED
    BY <2>1, <2>2, <1>1, <1>2, <1>3 DEF ConsistentRow
<1>4. CASE ~key.isOperator
  <2>1. db[i].author_id = key.userId
    BY <1>4 DEF Select
  <2> QED
    BY <2>1, <1>1, <1>2 DEF ConsistentRow
<1> QED
  BY <1>3, <1>4

\* The heart of coherence: when row id changes and keeps its author and its
\* city, every view that loses, gains or shows it differently belongs to an
\* entry that the invalidation of its city drops.
LEMMA InvalidateCoherent ==
  ASSUME NEW db, RowsOK(db), NEW db2, RowsOK(db2), DOMAIN db2 = DOMAIN db,
         NEW id \in DOMAIN db,
         \A i \in DOMAIN db : i # id => db2[i] = db[i],
         db2[id].author_id = db[id].author_id, db2[id].city = db[id].city,
         NEW ch, CacheOK(ch), Coherent(db, ch)
  PROVE  Coherent(db2, report_cache_invalidate_city(ch, db[id].city, db[id].author_id))
<1> DEFINE ch2 == report_cache_invalidate_city(ch, db[id].city, db[id].author_id)
<1> SUFFICES ASSUME NEW s \in Slots, ch2[s] # NULL
             PROVE  ch2[s].view = JsonArray(db2, Select(db2, ch2[s].key))
  BY DEF Coherent
<1> DEFINE key == ch[s].key
<1>1. /\ ch2[s] = ch[s] /\ ch[s] # NULL
      /\ ~(key.city = db[id].city /\ (key.isOperator \/ key.userId = db[id].author_id))
  BY DEF report_cache_invalidate_city
<1>2. key \in Keys
  BY <1>1 DEF CacheOK
<1>3. id \notin Select(db, key)
  BY <1>1, <1>2, SelectedByCity
<1>4. id \notin Select(db2, key)
  BY <1>1, <1>2, SelectedByCity
<1>5. \A i \in DOMAIN db : i # id => (i \in Select(db2, key) <=> i \in Select(db, key))
  BY DEF Select
<1>6. Select(db, key) \subseteq DOMAIN db /\ Select(db2, key) \subseteq DOMAIN db
  BY DEF Select
<1>7. Select(db2, key) = Select(db, key)
  BY <1>3, <1>4, <1>5, <1>6
<1>8. \A i \in Select(db, key) : db2[i] = db[i]
  BY <1>3, <1>6
<1>9. JsonArray(db2, Select(db2, key)) = JsonArray(db, Select(db, key))
  BY <1>7, <1>8 DEF JsonArray
<1> QED
  BY <1>1, <1>9 DEF Coherent

-----------------------------------------------------------------------------
(* The write operations.                                                   *)

\* new[i] may replace db[i]: a consistent row of the same author and city.
Replaces(db, rows, new) ==
  \A i \in rows : /\ new[i] \in Row /\ ConsistentRow(new[i])
                  /\ new[i].author_id = db[i].author_id
                  /\ new[i].city = db[i].city

\* What a write operation promises: table and cache stay well formed, only
\* an operation that succeeded changed a row, and it keeps the cache coherent
\* unless the re-read failed.
WriteOK(w, db, ch, f) ==
  /\ w.rc \in {0, 1, 2}
  /\ RowsOK(w.db)
  /\ CacheOK(w.cache)
  /\ w.rc # 1 => w.db = db
  /\ Coherent(db, ch) /\ f # "reread" => Coherent(w.db, w.cache)

\* An UPDATE of at most row id with consistent replacements keeps the table
\* well formed and every other row as it is.
LEMMA UpdateRows ==
  ASSUME NEW db, RowsOK(db), NEW id, NEW rows \in SUBSET DOMAIN db,
         \A i \in rows : i = id, NEW new, Replaces(db, rows, new)
  PROVE  /\ RowsOK(Update(db, rows, new))
         /\ DOMAIN Update(db, rows, new) = DOMAIN db
         /\ \A i \in DOMAIN db : i # id => Update(db, rows, new)[i] = db[i]
         /\ id \in DOMAIN db =>
              /\ Update(db, rows, new)[id].author_id = db[id].author_id
              /\ Update(db, rows, new)[id].city = db[id].city
<1>1. db \in Seq(Row) /\ \A i \in DOMAIN db : ConsistentRow(db[i])
  BY DEF RowsOK
<1>2. \A i \in DOMAIN db : i \in rows => new[i] \in Row
  BY DEF Replaces
<1>3. /\ Update(db, rows, new) \in Seq(Row)
      /\ DOMAIN Update(db, rows, new) = DOMAIN db
      /\ \A i \in DOMAIN db :
           Update(db, rows, new)[i] = IF i \in rows THEN new[i] ELSE db[i]
  BY <1>1, <1>2, UpdateType
<1> QED
  BY <1>1, <1>3 DEF RowsOK, Replaces

\* The common shape of the write operations keeps their promise, whichever
\* statement fails.
LEMMA GuardedUpdateOK ==
  ASSUME NEW db, RowsOK(db), NEW ch, CacheOK(ch), NEW id, NEW f,
         NEW rows \in SUBSET DOMAIN db, \A i \in rows : i = id,
         NEW new, Replaces(db, rows, new)
  PROVE  WriteOK(GuardedUpdate(db, ch, id, rows, new, f), db, ch, f)
<1> DEFINE w == GuardedUpdate(db, ch, id, rows, new, f)
<1> SUFFICES WriteOK(w, db, ch, f)
  OBVIOUS
<1>1. CASE f = "update" \/ rows = {}
  <2>1. w.db = db /\ w.cache = ch /\ w.rc \in {0, 2}
    BY <1>1 DEF GuardedUpdate
  <2> HIDE DEF w
  <2> QED
    BY <2>1 DEF WriteOK
<1>2. CASE ~(f = "update" \/ rows = {})
  <2> DEFINE upd == Update(db, rows, new)
             inv == report_cache_invalidate_city(ch, db[id].city, db[id].author_id)
  <2>1. w.rc = 1 /\ w.db = upd /\ w.cache = IF f = "reread" THEN ch ELSE inv
    BY <1>2 DEF GuardedUpdate
  <2>2. id \in DOMAIN db
    BY <1>2
  <2>3. /\ RowsOK(upd) /\ DOMAIN upd = DOMAIN db
        /\ \A i \in DOMAIN db : i # id => upd[i] = db[i]
        /\ upd[id].author_id = db[id].author_id
        /\ upd[id].city = db[id].city
    BY <2>2, UpdateRows
  <2>4. CacheOK(inv)
    BY InvalidateType
  <2>5. Coherent(db, ch) => Coherent(upd, inv)
    BY <2>2, <2>3, InvalidateCoherent
  <2> HIDE DEF w, upd, inv
  <2> QED
    BY <2>1, <2>3, <2>4, <2>5 DEF WriteOK
<1> QED
  BY <1>1, <1>2

\* report_assign keeps its promise when the operator is of the report's city.
LEMMA AssignOK ==
  ASSUME NEW db, RowsOK(db), NEW ch, CacheOK(ch), NEW id, NEW f,
         NEW op \in Operators, id \in DOMAIN db => CityOf[op] = db[id].city
  PROVE  WriteOK(report_assign(db, ch, id, op, f), db, ch, f)
<1> DEFINE rows == {i \in DOMAIN db :
                      i = id /\ db[i].status = ACTIVE /\ db[i].assigned_to = NULL}
           new == [i \in rows |-> SetAssignment(db[i], ASSIGNED, op, STAMP)]
<1>1. rows \in SUBSET DOMAIN db /\ \A i \in rows : i = id
  OBVIOUS
<1>2. Replaces(db, rows, new)
  <2> SUFFICES ASSUME NEW i \in rows
               PROVE  /\ new[i] \in Row /\ ConsistentRow(new[i])
                      /\ new[i].author_id = db[i].author_id /\ new[i].city = db[i].city
    BY DEF Replaces
  <2>1. db[i] \in Row /\ ConsistentRow(db[i]) /\ db[i].status = ACTIVE /\ i = id
    BY DEF RowsOK
  <2>2. op \in Users /\ op # NULL /\ CityOf[op] = db[i].city
    BY <2>1, UserFacts
  <2>3. new[i] = SetAssignment(db[i], ASSIGNED, op, STAMP)
    OBVIOUS
  <2> HIDE DEF new, rows
  <2> QED
    BY <2>1, <2>2, <2>3, NullAssumption
    DEF Row, ConsistentRow, SetAssignment, SetColumns, STAMP, ACTIVE, ASSIGNED, RESOLVED
<1> HIDE DEF rows, new
<1>3. WriteOK(GuardedUpdate(db, ch, id, rows, new, f), db, ch, f)
  BY <1>1, <1>2, GuardedUpdateOK
<1> QED
  BY <1>3 DEF report_assign, rows, new

\* report_accept keeps its promise for any caller.
LEMMA AcceptOK ==
  ASSUME NEW db, RowsOK(db), NEW ch, CacheOK(ch), NEW id, NEW f, NEW op
  PROVE  WriteOK(report_accept(db, ch, id, op, f), db, ch, f)
<1> DEFINE rows == {i \in DOMAIN db : i = id /\ db[i].assigned_to = op /\ db[i].status = ASSIGNED}
           new == [i \in rows |-> SetStatus(db[i], IN_PROGRESS)]
<1>1. rows \in SUBSET DOMAIN db /\ \A i \in rows : i = id
  OBVIOUS
<1>2. Replaces(db, rows, new)
  <2> SUFFICES ASSUME NEW i \in rows
               PROVE  /\ new[i] \in Row /\ ConsistentRow(new[i])
                      /\ new[i].author_id = db[i].author_id /\ new[i].city = db[i].city
    BY DEF Replaces
  <2>1. db[i] \in Row /\ ConsistentRow(db[i]) /\ db[i].status = ASSIGNED
    BY DEF RowsOK
  <2>2. new[i] = SetStatus(db[i], IN_PROGRESS)
    OBVIOUS
  <2> HIDE DEF new, rows
  <2> QED
    BY <2>1, <2>2, NullAssumption
    DEF Row, ConsistentRow, SetStatus, SetAssignment, SetColumns, ACTIVE, ASSIGNED, IN_PROGRESS, RESOLVED
<1> HIDE DEF rows, new
<1>3. WriteOK(GuardedUpdate(db, ch, id, rows, new, f), db, ch, f)
  BY <1>1, <1>2, GuardedUpdateOK
<1> QED
  BY <1>3 DEF report_accept, rows, new

\* report_reject keeps its promise for any caller.
LEMMA RejectOK ==
  ASSUME NEW db, RowsOK(db), NEW ch, CacheOK(ch), NEW id, NEW f, NEW op
  PROVE  WriteOK(report_reject(db, ch, id, op, f), db, ch, f)
<1> DEFINE rows == {i \in DOMAIN db : i = id /\ db[i].assigned_to = op /\ db[i].status = ASSIGNED}
           new == [i \in rows |-> SetAssignment(db[i], ACTIVE, NULL, NULL)]
<1>1. rows \in SUBSET DOMAIN db /\ \A i \in rows : i = id
  OBVIOUS
<1>2. Replaces(db, rows, new)
  <2> SUFFICES ASSUME NEW i \in rows
               PROVE  /\ new[i] \in Row /\ ConsistentRow(new[i])
                      /\ new[i].author_id = db[i].author_id /\ new[i].city = db[i].city
    BY DEF Replaces
  <2>1. db[i] \in Row /\ ConsistentRow(db[i]) /\ db[i].status = ASSIGNED
    BY DEF RowsOK
  <2>2. new[i] = SetAssignment(db[i], ACTIVE, NULL, NULL)
    OBVIOUS
  <2> HIDE DEF new, rows
  <2> QED
    BY <2>1, <2>2, NullAssumption
    DEF Row, ConsistentRow, SetAssignment, SetColumns, ACTIVE, ASSIGNED, RESOLVED
<1> HIDE DEF rows, new
<1>3. WriteOK(GuardedUpdate(db, ch, id, rows, new, f), db, ch, f)
  BY <1>1, <1>2, GuardedUpdateOK
<1> QED
  BY <1>3 DEF report_reject, rows, new

\* report_resolve keeps its promise for any caller.
LEMMA ResolveOK ==
  ASSUME NEW db, RowsOK(db), NEW ch, CacheOK(ch), NEW id, NEW f, NEW op
  PROVE  WriteOK(report_resolve(db, ch, id, op, f), db, ch, f)
<1> DEFINE rows == {i \in DOMAIN db : i = id /\ db[i].assigned_to = op /\ db[i].status = IN_PROGRESS}
           new == [i \in rows |-> SetColumns(db[i], RESOLVED, db[i].assigned_to, db[i].assigned_at,
                                      STAMP, db[i].feedback)]
<1>1. rows \in SUBSET DOMAIN db /\ \A i \in rows : i = id
  OBVIOUS
<1>2. Replaces(db, rows, new)
  <2> SUFFICES ASSUME NEW i \in rows
               PROVE  /\ new[i] \in Row /\ ConsistentRow(new[i])
                      /\ new[i].author_id = db[i].author_id /\ new[i].city = db[i].city
    BY DEF Replaces
  <2>1. db[i] \in Row /\ ConsistentRow(db[i]) /\ db[i].status = IN_PROGRESS
    BY DEF RowsOK
  <2>2. new[i] = SetColumns(db[i], RESOLVED, db[i].assigned_to, db[i].assigned_at,
                                      STAMP, db[i].feedback)
    OBVIOUS
  <2> HIDE DEF new, rows
  <2> QED
    BY <2>1, <2>2, NullAssumption
    DEF Row, ConsistentRow, SetColumns, STAMP, ACTIVE, IN_PROGRESS, RESOLVED
<1> HIDE DEF rows, new
<1>3. WriteOK(GuardedUpdate(db, ch, id, rows, new, f), db, ch, f)
  BY <1>1, <1>2, GuardedUpdateOK
<1> QED
  BY <1>3 DEF report_resolve, rows, new

\* report_set_feedback keeps its promise for any rating within range.
LEMMA FeedbackOK ==
  ASSUME NEW db, RowsOK(db), NEW ch, CacheOK(ch), NEW id, NEW f, 
         NEW author, NEW stars \in Nat, ValidStars(stars)
  PROVE  WriteOK(report_set_feedback(db, ch, id, author, stars, f), db, ch, f)
<1> DEFINE rows == {i \in DOMAIN db : /\ i = id
                                        /\ db[i].author_id = author
                                        /\ db[i].status = RESOLVED
                                        /\ db[i].feedback = NULL}
           new == [i \in rows |-> SetColumns(db[i], RESOLVED, db[i].assigned_to, db[i].assigned_at,
                                      db[i].resolved_at, stars)]
<1>1. rows \in SUBSET DOMAIN db /\ \A i \in rows : i = id
  OBVIOUS
<1>2. Replaces(db, rows, new)
  <2> SUFFICES ASSUME NEW i \in rows
               PROVE  /\ new[i] \in Row /\ ConsistentRow(new[i])
                      /\ new[i].author_id = db[i].author_id /\ new[i].city = db[i].city
    BY DEF Replaces
  <2>1. db[i] \in Row /\ ConsistentRow(db[i]) /\ db[i].status = RESOLVED
    BY DEF RowsOK
  <2>2. new[i] = SetColumns(db[i], RESOLVED, db[i].assigned_to, db[i].assigned_at,
                                      db[i].resolved_at, stars)
    OBVIOUS
  <2> HIDE DEF new, rows
  <2> QED
    BY <2>1, <2>2, NullAssumption
    DEF Row, ConsistentRow, ValidStars, SetColumns, ACTIVE, RESOLVED
<1> HIDE DEF rows, new
<1>3. WriteOK(GuardedUpdate(db, ch, id, rows, new, f), db, ch, f)
  BY <1>1, <1>2, GuardedUpdateOK
<1> QED
  BY <1>3 DEF report_set_feedback, rows, new

\* The reset of a forced reassignment leaves a consistent, unassigned row.
LEMMA ForceResetOK ==
  ASSUME NEW db, RowsOK(db), NEW id \in DOMAIN db, db[id].status = ASSIGNED
  PROVE  LET reset == ForceReset(db, id) IN
         /\ RowsOK(reset) /\ DOMAIN reset = DOMAIN db
         /\ \A i \in DOMAIN db : i # id => reset[i] = db[i]
         /\ reset[id].author_id = db[id].author_id /\ reset[id].city = db[id].city
         /\ reset[id].status = ACTIVE /\ reset[id].assigned_to = NULL
<1> DEFINE rows == {i \in DOMAIN db : i = id /\ db[i].status = ASSIGNED}
           new == [i \in rows |-> SetAssignment(db[i], ACTIVE, NULL, NULL)]
<1>1. rows = {id} /\ new[id] = SetAssignment(db[id], ACTIVE, NULL, NULL)
  OBVIOUS
<1>2. db \in Seq(Row) /\ db[id] \in Row /\ ConsistentRow(db[id])
  BY DEF RowsOK
<1> HIDE DEF rows, new
<1>3. Replaces(db, rows, new)
  <2>1. /\ new[id] \in Row /\ ConsistentRow(new[id])
        /\ new[id].author_id = db[id].author_id /\ new[id].city = db[id].city
    BY <1>1, <1>2, NullAssumption
    DEF Row, ConsistentRow, SetAssignment, SetColumns, ACTIVE, ASSIGNED, RESOLVED
  <2> QED
    BY <1>1, <2>1 DEF Replaces
<1>4. ForceReset(db, id) = Update(db, rows, new)
  BY DEF ForceReset, rows, new
<1>5. Update(db, rows, new)[id] = new[id]
  BY <1>1 DEF Update
<1>6. new[id].status = ACTIVE /\ new[id].assigned_to = NULL
  BY <1>1 DEF SetAssignment, SetColumns
<1>7. rows \in SUBSET DOMAIN db /\ \A i \in rows : i = id
  BY <1>1
<1>8. /\ RowsOK(Update(db, rows, new)) /\ DOMAIN Update(db, rows, new) = DOMAIN db
      /\ \A i \in DOMAIN db : i # id => Update(db, rows, new)[i] = db[i]
      /\ Update(db, rows, new)[id].author_id = db[id].author_id
      /\ Update(db, rows, new)[id].city = db[id].city
  BY <1>3, <1>7, UpdateRows
<1> QED
  BY <1>4, <1>5, <1>6, <1>8

\* A (re)assignment keeps table and cache well formed whatever fails; the
\* cache stays coherent and an error leaves the table alone unless the
\* retry (or the re-read) fails.
LEMMA ReassignOK ==
  ASSUME RowsOK(reports), CacheOK(cache), NEW id \in DOMAIN reports, NEW f,
         NEW op \in Operators, CityOf[op] = reports[id].city
  PROVE  LET w == AssignOrReassign(id, op, f) IN
         /\ w.rc \in {0, 1, 2}
         /\ RowsOK(w.db)
         /\ CacheOK(w.cache)
         /\ w.rc # 1 /\ f # "retry" => w.db = reports
         /\ Coherent(reports, cache) /\ f \notin {"reread", "retry"} =>
              Coherent(w.db, w.cache)
<1> DEFINE first == report_assign(reports, cache, id, op, f)
           db == IF f = "reset" THEN reports ELSE ForceReset(reports, id)
           g == IF f = "retry" THEN "update" ELSE f
           second == report_assign(db, cache, id, op, g)
           w == AssignOrReassign(id, op, f)
           again == first.rc = 0 /\ f # "peek" /\ reports[id].status = ASSIGNED
<1> SUFFICES /\ w.rc \in {0, 1, 2} /\ RowsOK(w.db) /\ CacheOK(w.cache)
             /\ w.rc # 1 /\ f # "retry" => w.db = reports
             /\ Coherent(reports, cache) /\ f \notin {"reread", "retry"} =>
                  Coherent(w.db, w.cache)
  OBVIOUS
<1>1. WriteOK(first, reports, cache, f)
  BY AssignOK
<1>2. w = IF again THEN second ELSE first
  BY DEF AssignOrReassign
<1>3. CASE ~again
  <2>1. w = first
    BY <1>2, <1>3
  <2> HIDE DEF w, first
  <2> QED
    BY <1>1, <2>1 DEF WriteOK
<1>4. CASE again /\ f = "reset"
  <2>1. w = report_assign(reports, cache, id, op, f)
    BY <1>2, <1>4
  <2> HIDE DEF w
  <2> QED
    BY <1>1, <2>1 DEF WriteOK
<1>5. CASE again /\ f # "reset"
  <2> DEFINE reset == ForceReset(reports, id)
  <2>1. /\ RowsOK(reset) /\ DOMAIN reset = DOMAIN reports
        /\ \A i \in DOMAIN reports : i # id => reset[i] = reports[i]
        /\ reset[id].author_id = reports[id].author_id
        /\ reset[id].city = reports[id].city
        /\ reset[id].status = ACTIVE /\ reset[id].assigned_to = NULL
    BY <1>5, ForceResetOK
  <2>2. w = report_assign(reset, cache, id, op, g)
    BY <1>2, <1>5
  <2> HIDE DEF reset, w, g, first
  <2>3. WriteOK(w, reset, cache, g)
    BY <2>1, <2>2, AssignOK
  <2>4. w.rc \in {0, 1, 2} /\ RowsOK(w.db) /\ CacheOK(w.cache)
    BY <2>3 DEF WriteOK
  <2>5. ASSUME f # "retry"
        PROVE  w.rc # 1 => w.db = reports
    <3>1. g # "update"
      BY <1>1, <1>5, <2>5 DEF g, first, report_assign, GuardedUpdate
    <3>2. {i \in DOMAIN reset : i = id /\ reset[i].status = ACTIVE
                                /\ reset[i].assigned_to = NULL} # {}
      BY <2>1
    <3>3. w.rc = 1
      BY <3>1, <3>2, <2>2 DEF report_assign, GuardedUpdate
    <3> QED
      BY <3>3
  <2>6. ASSUME Coherent(reports, cache), f \notin {"reread", "retry"}
        PROVE  Coherent(w.db, w.cache)
    <3> DEFINE rows == {i \in DOMAIN reset : i = id /\ reset[i].status = ACTIVE
                                             /\ reset[i].assigned_to = NULL}
               new == [i \in rows |-> SetAssignment(reset[i], ASSIGNED, op, STAMP)]
    <3>1. g \notin {"update", "reread"}
      BY <1>1, <1>5, <2>6 DEF g, first, report_assign, GuardedUpdate
    <3>2. rows = {id} /\ id \in DOMAIN reset
      BY <2>1
    <3>3. /\ w.db = Update(reset, rows, new)
          /\ w.cache = report_cache_invalidate_city(cache, reset[id].city,
                                                    reset[id].author_id)
      BY <3>1, <3>2, <2>2 DEF report_assign, GuardedUpdate
    <3>4. new[id].author_id = reset[id].author_id /\ new[id].city = reset[id].city
      BY <3>2 DEF SetAssignment, SetColumns
    <3> HIDE DEF new, rows
    <3>5. /\ DOMAIN w.db = DOMAIN reset
          /\ \A i \in DOMAIN reset : i # id => w.db[i] = reset[i]
          /\ w.db[id] = new[id]
      BY <3>2, <3>3 DEF Update
    <3>6. /\ DOMAIN w.db = DOMAIN reports
          /\ \A i \in DOMAIN reports : i # id => w.db[i] = reports[i]
          /\ w.db[id].author_id = reports[id].author_id
          /\ w.db[id].city = reports[id].city
      BY <3>4, <3>5, <2>1
    <3>7. w.cache = report_cache_invalidate_city(cache, reports[id].city,
                                                 reports[id].author_id)
      BY <3>3, <2>1
    <3> QED
      BY <3>6, <3>7, <2>4, <2>6, InvalidateCoherent
  <2> QED
    BY <2>4, <2>5, <2>6
<1> QED
  BY <1>3, <1>4, <1>5

-----------------------------------------------------------------------------
(* The steps.                                                              *)

\* No statement may fail whose failure spoils the cache.
SafeFaults == DbFaults \cap IncoherentFaults = {}

Codes == {0, 200, 302, 400, 401, 403, 404, 409, 500}

RespOK == resp.user \in Visitors /\ resp.code \in Codes

\* What every step establishes from a well-formed state.
StepOK ==
  /\ RowsOK(reports') /\ CacheOK(cache') /\ RespOK'
  /\ SafeFaults /\ Coherent(reports, cache) => Coherent(reports', cache')
  /\ "retry" \notin DbFaults /\ resp'.code >= 400 => reports' = reports

\* An early return with an error changes nothing.
LEMMA RefuseOK ==
  ASSUME RowsOK(reports), CacheOK(cache), NEW code \in Codes, Refuse(code)
  PROVE  StepOK
<1>1. reports' = reports /\ cache' = cache
  BY DEF Refuse
<1>2. RespOK'
  BY DEF Refuse, Reply, RespOK, Visitors
<1> QED
  BY <1>1, <1>2 DEF StepOK

\* A handler that applied a write operation inherits what it promises.
LEMMA ApplyOK ==
  ASSUME NEW u \in Users, NEW w, NEW zero \in {403, 409}, Apply(u, w, zero),
         w.rc \in {0, 1, 2}, RowsOK(w.db), CacheOK(w.cache),
         SafeFaults /\ Coherent(reports, cache) => Coherent(w.db, w.cache),
         "retry" \notin DbFaults /\ w.rc # 1 => w.db = reports
  PROVE  StepOK
<1>1. reports' = w.db /\ cache' = w.cache
  BY DEF Apply
<1>2. CodeOf(w.rc, zero) \in {200, 403, 409, 500}
  BY DEF CodeOf
<1>3. RespOK' /\ resp'.code = CodeOf(w.rc, zero)
  BY <1>2 DEF Apply, Reply, RespOK, Visitors, Codes
<1>4. w.rc = 1 => CodeOf(w.rc, zero) = 200
  BY DEF CodeOf
<1> QED
  BY <1>1, <1>3, <1>4 DEF StepOK

\* Past the early returns the report exists and lies in the caller's city.
LEMMA RefusalCodes ==
  ASSUME NEW u, NEW ok, NEW id, NEW f
  PROVE  /\ Refusal(u, ok, id, f) \in {0, 400, 403, 404}
         /\ Refusal(u, ok, id, f) = 0 =>
              id \in DOMAIN reports /\ reports[id].city = CityOf[u]
BY DEF Refusal

\* Under SafeFaults neither the re-read nor the retry of a request fails.
LEMMA SafeFailing ==
  ASSUME SafeFaults, NEW S, NEW f \in Failing(S)
  PROVE  f \notin {"reread", "retry"}
BY DEF SafeFaults, Failing, IncoherentFaults

\* No request meets a failure that DbFaults does not name.
LEMMA RetryFailing ==
  ASSUME "retry" \notin DbFaults, NEW S, NEW f \in Failing(S)
  PROVE  f # "retry"
BY DEF Failing

\* A submission: the new row can only be in the views of its author and is
\* assigned to nobody, so the invalidation of the author's entries suffices.
LEMMA SubmitStep ==
  ASSUME RowsOK(reports), CacheOK(cache), NEW u \in Visitors, route_post_submit(u)
  PROVE  StepOK
<1>1. CASE UNCHANGED <<reports, cache>> /\ \E code \in {200, 302} : Reply(u, code)
  <2>1. RespOK' /\ reports' = reports /\ cache' = cache
    BY <1>1 DEF Reply, RespOK, Codes, Visitors
  <2> QED
    BY <2>1 DEF StepOK
<1>2. CASE u \in Citizens /\ ~UNCHANGED <<reports, cache>>
  <2> DEFINE row == [author_id |-> u, city |-> CityOf[u], status |-> ACTIVE,
                     assigned_to |-> NULL, assigned_at |-> NULL,
                     resolved_at |-> NULL, feedback |-> NULL]
  <2>1. /\ reports' = Append(reports, row)
        /\ cache' = report_cache_invalidate_city(cache, CityOf[u], u)
        /\ Reply(u, 302)
    BY <1>2 DEF route_post_submit
  <2>2. row \in Row /\ ConsistentRow(row) /\ row.author_id = u /\ row.city = CityOf[u]
    BY <1>2, UserFacts DEF Row, ConsistentRow, ACTIVE, RESOLVED
  <2> HIDE DEF row
  <2> DEFINE n == Len(reports) + 1
  <2>3. reports \in Seq(Row) /\ \A i \in DOMAIN reports : ConsistentRow(reports[i])
    BY DEF RowsOK
  <2>4. /\ reports' \in Seq(Row) /\ DOMAIN reports' = DOMAIN reports \cup {n}
        /\ n \notin DOMAIN reports
        /\ \A i \in DOMAIN reports : reports'[i] = reports[i]
        /\ reports'[n] = row
    BY <2>1, <2>2, <2>3
  <2> HIDE DEF n
  <2>5. RowsOK(reports')
    BY <2>2, <2>3, <2>4 DEF RowsOK
  <2>6. CacheOK(cache')
    BY <2>1, InvalidateType
  <2>7. RespOK' /\ resp'.code = 302
    BY <2>1 DEF Reply, RespOK, Codes, Visitors
  <2>8. ASSUME Coherent(reports, cache)
        PROVE  Coherent(reports', cache')
    <3> SUFFICES ASSUME NEW s \in Slots, cache'[s] # NULL
                 PROVE  cache'[s].view = JsonArray(reports', Select(reports', cache'[s].key))
      BY DEF Coherent
    <3> DEFINE key == cache[s].key
    <3>1. /\ cache'[s] = cache[s] /\ cache[s] # NULL
          /\ ~(key.city = CityOf[u] /\ (key.isOperator \/ key.userId = u))
      BY <2>1 DEF report_cache_invalidate_city
    <3>2. key \in Keys
      BY <3>1 DEF CacheOK
    <3>3. n \notin Select(reports', key)
      BY <3>1, <3>2, <2>2, <2>4, <2>5, SelectedByCity
    <3>4. \A i \in DOMAIN reports : i \in Select(reports', key) <=> i \in Select(reports, key)
      BY <2>4 DEF Select
    <3>5. Select(reports, key) \subseteq DOMAIN reports
          /\ Select(reports', key) \subseteq DOMAIN reports'
      BY DEF Select
    <3>6. Select(reports', key) = Select(reports, key)
      BY <3>3, <3>4, <3>5, <2>4
    <3>7. JsonArray(reports', Select(reports', key)) = JsonArray(reports, Select(reports, key))
      BY <3>5, <3>6, <2>4 DEF JsonArray
    <3> QED
      BY <3>1, <3>7, <2>8 DEF Coherent
  <2> QED
    BY <2>5, <2>6, <2>7, <2>8 DEF StepOK
<1> QED
  BY <1>1, <1>2 DEF route_post_submit

\* Accepting or rejecting.
LEMMA RespondStep ==
  ASSUME RowsOK(reports), CacheOK(cache), NEW u \in Visitors, route_api_report_respond(u)
  PROVE  StepOK
<1>1. CASE Refuse(403)
  BY <1>1, RefuseOK DEF Codes
<1>2. ASSUME u \in Operators, NEW id \in Ids, NEW action,
             NEW f \in Failing({"lookup", "update", "reread"}),
             LET refusal == Refusal(u, action \in {"accept", "reject"}, id, f)
                 w == IF action = "accept" THEN report_accept(reports, cache, id, u, f)
                      ELSE report_reject(reports, cache, id, u, f)
             IN  \/ Refuse(refusal)
                 \/ refusal = 0 /\ Apply(u, w, 409)
      PROVE  StepOK
  <2> DEFINE refusal == Refusal(u, action \in {"accept", "reject"}, id, f)
             w == IF action = "accept" THEN report_accept(reports, cache, id, u, f)
                  ELSE report_reject(reports, cache, id, u, f)
  <2>1. CASE Refuse(refusal)
    BY <2>1, RefusalCodes, RefuseOK DEF Codes
  <2>2. CASE Apply(u, w, 409)
    <3>1. WriteOK(w, reports, cache, f)
      BY AcceptOK, RejectOK
    <3>2. u \in Users
      BY <1>2, UserFacts
    <3> HIDE DEF w
    <3> QED
      BY <2>2, <3>1, <3>2, SafeFailing, ApplyOK DEF WriteOK
  <2> QED
    BY <1>2, <2>1, <2>2
<1> QED
  BY <1>1, <1>2 DEF route_api_report_respond

\* Resolving.
LEMMA StatusStep ==
  ASSUME RowsOK(reports), CacheOK(cache), NEW u \in Visitors, route_api_report_status(u)
  PROVE  StepOK
<1>1. CASE Refuse(403)
  BY <1>1, RefuseOK DEF Codes
<1>2. ASSUME u \in Operators, NEW id \in Ids, NEW status,
             NEW f \in Failing({"lookup", "update", "reread"}),
             LET refusal == Refusal(u, status # NULL, id, f)
             IN  \/ Refuse(refusal)
                 \/ refusal = 0 /\ status # RESOLVED /\ Refuse(400)
                 \/ /\ refusal = 0
                    /\ status = RESOLVED
                    /\ Apply(u, report_resolve(reports, cache, id, u, f), 403)
      PROVE  StepOK
  <2> DEFINE w == report_resolve(reports, cache, id, u, f)
  <2>1. CASE Refuse(400)
    BY <2>1, RefuseOK DEF Codes
  <2>2. CASE Refuse(Refusal(u, status # NULL, id, f))
    BY <2>2, RefusalCodes, RefuseOK DEF Codes
  <2>3. CASE Apply(u, w, 403)
    <3>1. WriteOK(w, reports, cache, f)
      BY ResolveOK
    <3>2. u \in Users
      BY <1>2, UserFacts
    <3> HIDE DEF w
    <3> QED
      BY <2>3, <3>1, <3>2, SafeFailing, ApplyOK DEF WriteOK
  <2> QED
    BY <1>2, <2>1, <2>2, <2>3
<1> QED
  BY <1>1, <1>2 DEF route_api_report_status

\* Rating.
LEMMA FeedbackStep ==
  ASSUME RowsOK(reports), CacheOK(cache), NEW u \in Visitors, route_api_report_feedback(u)
  PROVE  StepOK
<1>1. CASE Refuse(403) \/ Refuse(400)
  BY <1>1, RefuseOK DEF Codes
<1>2. ASSUME u \in Citizens, NEW id \in Ids, NEW stars \in StarInputs,
             NEW f \in Failing({"update", "reread"}), ValidStars(stars),
             Apply(u, report_set_feedback(reports, cache, id, u, stars, f), 409)
      PROVE  StepOK
  <2> DEFINE w == report_set_feedback(reports, cache, id, u, stars, f)
  <2>1. WriteOK(w, reports, cache, f)
    BY <1>2, StarAssumption, FeedbackOK
  <2>2. u \in Users /\ Apply(u, w, 409)
    BY <1>2, UserFacts
  <2> HIDE DEF w
  <2> QED
    BY <2>1, <2>2, SafeFailing, ApplyOK DEF WriteOK
<1> QED
  BY <1>1, <1>2 DEF route_api_report_feedback

\* Assigning and forced reassignment.
LEMMA AssignStep ==
  ASSUME RowsOK(reports), CacheOK(cache), NEW u \in Visitors, route_api_admin_assign(u)
  PROVE  StepOK
<1>1. CASE Refuse(403)
  BY <1>1, RefuseOK DEF Codes
<1>2. ASSUME u \in Admins, NEW id \in Ids, NEW op,
             NEW f \in Failing({"lookup", "user", "update", "reread",
                                "peek", "reset", "retry"}),
             LET refusal == Refusal(u, op # NULL, id, f)
                 validOp == f # "user" /\ op \in Operators /\ CityOf[op] = CityOf[u]
             IN  \/ Refuse(refusal)
                 \/ refusal = 0 /\ ~validOp /\ Refuse(400)
                 \/ refusal = 0 /\ validOp /\ Apply(u, AssignOrReassign(id, op, f), 409)
      PROVE  StepOK
  <2> DEFINE refusal == Refusal(u, op # NULL, id, f)
             w == AssignOrReassign(id, op, f)
  <2>1. CASE Refuse(400)
    BY <2>1, RefuseOK DEF Codes
  <2>2. CASE Refuse(refusal)
    BY <2>2, RefusalCodes, RefuseOK DEF Codes
  <2>3. CASE refusal = 0 /\ op \in Operators /\ CityOf[op] = CityOf[u] /\ Apply(u, w, 409)
    <3>1. id \in DOMAIN reports /\ CityOf[op] = reports[id].city
      BY <2>3, RefusalCodes
    <3>2. /\ w.rc \in {0, 1, 2} /\ RowsOK(w.db) /\ CacheOK(w.cache)
          /\ w.rc # 1 /\ f # "retry" => w.db = reports
          /\ Coherent(reports, cache) /\ f \notin {"reread", "retry"} =>
               Coherent(w.db, w.cache)
      BY <2>3, <3>1, ReassignOK
    <3>3. u \in Users
      BY <1>2, UserFacts
    <3> HIDE DEF w, refusal
    <3> QED
      BY <2>3, <3>2, <3>3, SafeFailing, RetryFailing, ApplyOK
  <2> QED
    BY <1>2, <2>1, <2>2, <2>3
<1> QED
  BY <1>1, <1>2 DEF route_api_admin_assign

-----------------------------------------------------------------------------
(* The list views.                                                         *)

\* Freeing expired slots keeps the cache well formed and coherent.
LEMMA EvictOK ==
  ASSUME CacheOK(cache), NEW last
  PROVE  /\ CacheOK(Evict(last))
         /\ Coherent(reports, cache) => Coherent(reports, Evict(last))
         /\ \A s \in Slots : Evict(last)[s] # NULL => Evict(last)[s] = cache[s]
BY DEF CacheOK, Coherent, Evict

\* Storing a current view keeps the cache well formed and coherent.
LEMMA StoreOK ==
  ASSUME CacheOK(cache), NEW ch, CacheOK(ch), NEW key \in Keys, NEW view,
         cache_store(ch, key, view)
  PROVE  /\ CacheOK(cache')
         /\ Coherent(reports, ch) /\ view = JsonArray(reports, Select(reports, key))
              => Coherent(reports, cache')
<1>1. CASE cache' = ch
  BY <1>1
<1>2. ASSUME NEW s \in Slots,
             cache' = [ch EXCEPT ![s] = [key |-> key, age |-> 0, view |-> view]]
      PROVE  /\ CacheOK(cache')
             /\ Coherent(reports, ch) /\ view = JsonArray(reports, Select(reports, key))
                  => Coherent(reports, cache')
  <2>1. /\ DOMAIN cache' = Slots
        /\ \A t \in Slots : t # s => cache'[t] = ch[t]
        /\ cache'[s].key = key /\ cache'[s].age = 0 /\ cache'[s].view = view
    BY <1>2 DEF CacheOK
  <2>2. CacheOK(cache')
    BY <2>1, BoundAssumption DEF CacheOK
  <2> QED
    BY <2>1, <2>2 DEF Coherent
<1> QED
  BY <1>1, <1>2 DEF cache_store

\* A list reply: the cache stays well formed and coherent, and a body that
\* was served is the current view.
LEMMA ServeStep ==
  ASSUME CacheOK(cache), NEW u \in Users, NEW list, NEW key \in Keys,
         ServeList(u, list, key)
  PROVE  /\ CacheOK(cache')
         /\ resp'.user = u /\ resp'.code = 200 /\ resp'.list = list
         /\ SafeFaults /\ Coherent(reports, cache) =>
              /\ Coherent(reports, cache')
              /\ resp'.body # NULL => resp'.body = JsonArray(reports, Select(reports, key))
<1>1. ASSUME NEW s \in Slots, Hit(key, s), ReplyList(u, list, cache[s].view)
      PROVE  /\ CacheOK(cache')
             /\ resp'.user = u /\ resp'.code = 200 /\ resp'.list = list
             /\ Coherent(reports, cache) =>
                  /\ Coherent(reports, cache')
                  /\ resp'.body = JsonArray(reports, Select(reports, key))
  <2>1. cache' = Evict(s) /\ cache[s] # NULL /\ cache[s].key = key
    BY <1>1 DEF Hit, Hits, Live
  <2>2. resp'.user = u /\ resp'.code = 200 /\ resp'.list = list /\ resp'.body = cache[s].view
    BY <1>1 DEF ReplyList
  <2> QED
    BY <2>1, <2>2, EvictOK DEF Coherent
<1>2. ASSUME NEW ids \in Drained(Select(reports, key)),
             cache_store(Evict(CacheSlots), key, JsonArray(reports, ids)),
             ReplyList(u, list, JsonArray(reports, ids))
      PROVE  /\ CacheOK(cache')
             /\ resp'.user = u /\ resp'.code = 200 /\ resp'.list = list
             /\ SafeFaults /\ Coherent(reports, cache) =>
                  /\ Coherent(reports, cache')
                  /\ resp'.body = JsonArray(reports, Select(reports, key))
  <2>1. SafeFaults => ids = Select(reports, key)
    BY DEF SafeFaults, IncoherentFaults, Drained
  <2>2. CacheOK(Evict(CacheSlots))
        /\ (Coherent(reports, cache) => Coherent(reports, Evict(CacheSlots)))
    BY EvictOK
  <2>3. resp'.user = u /\ resp'.code = 200 /\ resp'.list = list
        /\ resp'.body = JsonArray(reports, ids)
    BY <1>2 DEF ReplyList
  <2> QED
    BY <1>2, <2>1, <2>2, <2>3, StoreOK
<1>3. ASSUME cache' = Evict(CacheSlots), ReplyList(u, list, NULL)
      PROVE  /\ CacheOK(cache')
             /\ resp'.user = u /\ resp'.code = 200 /\ resp'.list = list /\ resp'.body = NULL
             /\ Coherent(reports, cache) => Coherent(reports, cache')
  BY <1>3, EvictOK DEF ReplyList
<1> QED
  BY <1>1, <1>2, <1>3 DEF ServeList

\* The three list handlers.
LEMMA ListStep ==
  ASSUME RowsOK(reports), CacheOK(cache), NEW u \in Visitors,
         \/ route_api_reports_active(u)
         \/ route_api_reports_archived(u)
         \/ route_api_reports_all(u)
  PROVE  /\ StepOK
         /\ SafeFaults /\ Coherent(reports, cache) => ServedFresh'
<1>1. reports' = reports
  BY DEF route_api_reports_active, route_api_reports_archived, route_api_reports_all
<1>2. CASE cache' = cache /\ \E code \in {401, 403} : Reply(u, code)
  <2>1. RespOK' /\ resp'.list = "none"
    BY <1>2 DEF Reply, RespOK, Codes, Visitors
  <2> QED
    BY <1>1, <1>2, <2>1 DEF StepOK, ServedFresh
<1>3. ASSUME u \in Users, NEW archived \in BOOLEAN, NEW list,
             list = IF archived THEN "archived" ELSE "active",
             ServeList(u, list, Key(u, archived))
      PROVE  /\ StepOK
             /\ SafeFaults /\ Coherent(reports, cache) => ServedFresh'
  <2> DEFINE key == Key(u, archived)
  <2>1. key \in Keys
    BY <1>3 DEF Keys
  <2>2. archived = (list = "archived")
    BY <1>3
  <2>3. list # "all"
    BY <1>3
  <2> HIDE DEF key
  <2>4. ServeList(u, list, key)
    BY <1>3 DEF key
  <2>5. /\ CacheOK(cache')
        /\ resp'.user = u /\ resp'.code = 200 /\ resp'.list = list
        /\ SafeFaults /\ Coherent(reports, cache) =>
             /\ Coherent(reports, cache')
             /\ resp'.body # NULL => resp'.body = JsonArray(reports, Select(reports, key))
    BY <1>3, <2>1, <2>4, ServeStep
  <2>6. StepOK
    BY <1>1, <1>3, <2>5 DEF StepOK, RespOK, Codes, Visitors
  <2>7. Key(resp'.user, resp'.list = "archived") = key
    BY <2>2, <2>5 DEF key
  <2> QED
    BY <1>1, <2>3, <2>5, <2>6, <2>7 DEF ServedFresh, View
<1>4. ASSUME u \in Admins, cache' = cache,
             NEW ids \in Drained(CityRows(reports, CityOf[u])), NEW body,
             body \in {NULL, JsonArray(reports, ids)}, ReplyList(u, "all", body)
      PROVE  /\ StepOK
             /\ SafeFaults /\ Coherent(reports, cache) => ServedFresh'
  <2>1. resp'.user = u /\ resp'.code = 200 /\ resp'.list = "all" /\ resp'.body = body
    BY <1>4 DEF ReplyList
  <2>2. u \in Users
    BY <1>4, UserFacts
  <2>3. StepOK
    BY <1>1, <1>4, <2>1, <2>2 DEF StepOK, RespOK, Codes, Visitors
  <2>4. SafeFaults => ids = CityRows(reports, CityOf[u])
    BY DEF SafeFaults, IncoherentFaults, Drained
  <2> QED
    BY <1>1, <1>4, <2>1, <2>3, <2>4 DEF ServedFresh
<1>5. CASE route_api_reports_active(u)
  <2>1. CASE u \in Users /\ ServeList(u, "active", Key(u, FALSE))
    BY <2>1, <1>3
  <2> QED
    BY <1>2, <1>5, <2>1 DEF route_api_reports_active
<1>6. CASE route_api_reports_archived(u)
  <2>1. CASE u \in Users /\ ServeList(u, "archived", Key(u, TRUE))
    BY <2>1, <1>3
  <2> QED
    BY <1>2, <1>6, <2>1 DEF route_api_reports_archived
<1>7. CASE route_api_reports_all(u)
  BY <1>2, <1>4, <1>7 DEF route_api_reports_all
<1> QED
  BY <1>5, <1>6, <1>7

\* Time and restarts spoil nothing.
LEMMA TickStep ==
  ASSUME RowsOK(reports), CacheOK(cache), Tick \/ Restart
  PROVE  StepOK /\ resp'.list = "none"
<1>1. reports' = reports /\ resp' = NoReply
  BY DEF Tick, Restart
<1>2. RespOK' /\ resp'.list = "none"
  BY <1>1 DEF RespOK, NoReply, Codes, Visitors
<1>3. CacheOK(cache') /\ (Coherent(reports, cache) => Coherent(reports, cache'))
  <2>1. CASE Tick
    <3>1. /\ DOMAIN cache' = Slots
          /\ \A s \in Slots :
               cache'[s] = IF cache[s] # NULL /\ cache[s].age <= CacheTTL
                           THEN Older(cache[s]) ELSE cache[s]
      BY <2>1 DEF Tick
    <3>2. ASSUME NEW s \in Slots, cache'[s] # NULL
          PROVE  /\ cache[s] # NULL
                 /\ cache'[s].key = cache[s].key
                 /\ cache'[s].view = cache[s].view
                 /\ cache'[s].age \in 0..(CacheTTL + 1)
      <4>1. cache[s] # NULL /\ cache[s].age \in 0..(CacheTTL + 1)
        BY <3>1, <3>2 DEF CacheOK
      <4>2. CASE cache[s].age <= CacheTTL
        BY <3>1, <4>1, <4>2, BoundAssumption DEF Older
      <4>3. CASE ~(cache[s].age <= CacheTTL)
        BY <3>1, <4>1, <4>3
      <4> QED
        BY <4>2, <4>3
    <3> QED
      BY <3>1, <3>2 DEF CacheOK, Coherent
  <2>2. CASE Restart
    BY <2>2 DEF Restart, CacheOK, Coherent
  <2> QED
    BY <2>1, <2>2
<1> QED
  BY <1>1, <1>2, <1>3 DEF StepOK

-----------------------------------------------------------------------------
(* The theorems.                                                           *)

\* Only the list handlers answer with a list.
LEMMA NoList ==
  ASSUME NEW u \in Visitors,
         \/ route_post_submit(u) \/ route_api_report_respond(u)
         \/ route_api_report_status(u) \/ route_api_report_feedback(u)
         \/ route_api_admin_assign(u)
  PROVE  resp'.list = "none"
<1>1. ASSUME NEW code, Reply(u, code) \/ Reply(NULL, code)
      PROVE  resp'.list = "none"
  BY <1>1 DEF Reply
<1>2. ASSUME NEW code, Refuse(code)
      PROVE  resp'.list = "none"
  BY <1>1, <1>2 DEF Refuse
<1>3. ASSUME NEW w, NEW zero, Apply(u, w, zero)
      PROVE  resp'.list = "none"
  BY <1>1, <1>3 DEF Apply
<1>4. CASE route_post_submit(u)
  BY <1>1, <1>4 DEF route_post_submit
<1>5. CASE route_api_report_respond(u)
  BY <1>2, <1>3, <1>5 DEF route_api_report_respond
<1>6. CASE route_api_report_status(u)
  BY <1>2, <1>3, <1>6 DEF route_api_report_status
<1>7. CASE route_api_report_feedback(u)
  BY <1>2, <1>3, <1>7 DEF route_api_report_feedback
<1>8. CASE route_api_admin_assign(u)
  BY <1>2, <1>3, <1>8 DEF route_api_admin_assign
<1> QED
  BY <1>4, <1>5, <1>6, <1>7, <1>8

\* Every step, of any handler or of the environment, taken from a
\* well-formed state.
LEMMA NextOK ==
  ASSUME RowsOK(reports), CacheOK(cache), Next
  PROVE  /\ StepOK
         /\ SafeFaults /\ Coherent(reports, cache) => ServedFresh'
<1>1. CASE Tick \/ Restart
  BY <1>1, TickStep DEF ServedFresh
<1>2. ASSUME NEW u \in Visitors, Request(u)
      PROVE  /\ StepOK
             /\ SafeFaults /\ Coherent(reports, cache) => ServedFresh'
  <2>1. CASE \/ route_post_submit(u) \/ route_api_report_respond(u)
             \/ route_api_report_status(u) \/ route_api_report_feedback(u)
             \/ route_api_admin_assign(u)
    <3>1. StepOK
      BY <2>1, SubmitStep, RespondStep, StatusStep, FeedbackStep, AssignStep
    <3>2. resp'.list = "none"
      BY <2>1, NoList
    <3> QED
      BY <3>1, <3>2 DEF ServedFresh
  <2>2. CASE \/ route_api_reports_active(u) \/ route_api_reports_archived(u)
             \/ route_api_reports_all(u)
    BY <2>2, ListStep
  <2> QED
    BY <1>2, <2>1, <2>2 DEF Request
<1> QED
  BY <1>1, <1>2 DEF Next

\* The inductive invariant: well-formed rows, cache and response.
WellFormed == RowsOK(reports) /\ CacheOK(cache) /\ RespOK

\* Everything starts well formed: no rows, no entries, no response.
LEMMA InitOK ==
  ASSUME Init
  PROVE  WellFormed /\ Coherent(reports, cache) /\ ServedFresh
<1>1. RowsOK(reports)
  BY DEF Init, RowsOK
<1>2. CacheOK(cache) /\ Coherent(reports, cache)
  BY DEF Init, CacheOK, Coherent
<1>3. RespOK /\ ServedFresh
  BY DEF Init, NoReply, RespOK, Codes, Visitors, ServedFresh
<1> QED
  BY <1>1, <1>2, <1>3 DEF WellFormed

\* Every state is well formed, whatever statements fail.
LEMMA WellFormedAlways == Spec => []WellFormed
<1>1. Init => WellFormed
  BY InitOK
<1>2. WellFormed /\ [Next]_vars => WellFormed'
  <2>1. CASE Next
    BY <2>1, NextOK DEF WellFormed, StepOK
  <2>2. CASE UNCHANGED vars
    BY <2>2 DEF vars, WellFormed, RespOK
  <2> QED
    BY <2>1, <2>2
<1> QED
  BY <1>1, <1>2, PTL DEF Spec

\* The types hold in every reachable state, for any set of failing
\* statements (TypeOK).
THEOREM TypeCorrect == Spec => []TypeOK
<1>1. WellFormed => TypeOK
  BY DEF WellFormed, RowsOK, CacheOK, RespOK, Codes, TypeOK
<1> QED
  BY <1>1, WellFormedAlways, PTL

\* The columns of every row agree with its status and its city in every
\* reachable state, for any set of failing statements: no order of requests
\* by any users produces a row that is half assigned or crosses cities.
THEOREM RowsConsistent == Spec => []RowConsistent
<1>1. WellFormed => RowConsistent
  BY DEF WellFormed, RowsOK, RowConsistent
<1> QED
  BY <1>1, WellFormedAlways, PTL

\* While only the statements outside IncoherentFaults fail, every cache
\* entry equals the view its query would return now, for any users, cities,
\* number of slots and limits.
THEOREM CacheStaysCoherent ==
  ASSUME SafeFaults
  PROVE  Spec => []CacheCoherent
<1>1. Init => Coherent(reports, cache)
  BY InitOK
<1>2. WellFormed /\ Coherent(reports, cache) /\ [Next]_vars => Coherent(reports, cache)'
  <2> SUFFICES ASSUME WellFormed, Coherent(reports, cache), [Next]_vars
               PROVE  Coherent(reports', cache')
    BY DEF Coherent
  <2>1. CASE Next
    BY <2>1, NextOK DEF WellFormed, StepOK
  <2>2. CASE UNCHANGED vars
    BY <2>2 DEF vars
  <2> QED
    BY <2>1, <2>2
<1>3. Coherent(reports, cache) => CacheCoherent
  BY DEF Coherent, CacheCoherent, View
<1> QED
  BY <1>1, <1>2, <1>3, WellFormedAlways, PTL DEF Spec

\* Under the same condition every list a user receives, cached or not, is
\* what the table holds at that moment.
THEOREM ListsServedFresh ==
  ASSUME SafeFaults
  PROVE  Spec => []ServedFresh
<1>1. Init => ServedFresh
  BY InitOK
<1>2. WellFormed /\ CacheCoherent /\ ServedFresh /\ [Next]_vars => ServedFresh'
  <2> SUFFICES ASSUME WellFormed, CacheCoherent, ServedFresh, [Next]_vars
               PROVE  ServedFresh'
    OBVIOUS
  <2>1. CASE Next
    BY <2>1, NextOK DEF WellFormed, CacheCoherent, Coherent, View
  <2>2. CASE UNCHANGED vars
    BY <2>2 DEF vars, ServedFresh, View
  <2> QED
    BY <2>1, <2>2
<1> QED
  BY <1>1, <1>2, WellFormedAlways, CacheStaysCoherent, PTL DEF Spec

\* Unless the retry of a forced reassignment can fail, a request answered
\* with an error left the table as it was.
THEOREM ErrorsChangeNothing ==
  ASSUME "retry" \notin DbFaults
  PROVE  Spec => ErrorLeavesTable
<1>1. WellFormed /\ [Next]_vars => [resp'.code >= 400 => reports' = reports]_vars
  <2> SUFFICES ASSUME WellFormed, Next, resp'.code >= 400
               PROVE  reports' = reports
    OBVIOUS
  <2> QED
    BY NextOK DEF WellFormed, StepOK
<1> QED
  BY <1>1, WellFormedAlways, PTL DEF Spec, ErrorLeavesTable

-----------------------------------------------------------------------------
(* The keys of the cache.                                                  *)

\* The entries of ch2 are entries of ch, older perhaps, in the same slots.
Thins(ch, ch2) ==
  \A s \in Slots : ch2[s] # NULL => ch[s] # NULL /\ ch2[s].key = ch[s].key

\* The write operations only drop entries.
LEMMA GuardedUpdateThins ==
  ASSUME NEW db, NEW ch, NEW id, NEW rows, NEW new, NEW f, NEW w,
         w = GuardedUpdate(db, ch, id, rows, new, f)
  PROVE  Thins(ch, w.cache)
<1> DEFINE inv == report_cache_invalidate_city(ch, db[id].city, db[id].author_id)
<1>1. Thins(ch, ch) /\ Thins(ch, inv)
  BY DEF Thins, report_cache_invalidate_city
<1> HIDE DEF inv
<1>2. w.cache \in {ch, inv}
  BY DEF GuardedUpdate, inv
<1> QED
  BY <1>1, <1>2

\* A handler that applied a write operation only dropped entries.
LEMMA WriteThins ==
  ASSUME NEW u \in Visitors,
         \/ route_post_submit(u) \/ route_api_report_respond(u)
         \/ route_api_report_status(u) \/ route_api_report_feedback(u)
         \/ route_api_admin_assign(u)
  PROVE  Thins(cache, cache')
<1>1. Thins(cache, cache)
  BY DEF Thins
<1>2. ASSUME NEW code, Refuse(code)
      PROVE  Thins(cache, cache')
  BY <1>1, <1>2 DEF Refuse
<1>3. ASSUME NEW w, NEW zero, Apply(u, w, zero), Thins(cache, w.cache)
      PROVE  Thins(cache, cache')
  BY <1>3 DEF Apply
<1>4. CASE route_post_submit(u)
  BY <1>1, <1>4 DEF route_post_submit, Thins, report_cache_invalidate_city
<1>5. CASE route_api_report_respond(u)
  <2>1. \A id, f : /\ Thins(cache, report_accept(reports, cache, id, u, f).cache)
                   /\ Thins(cache, report_reject(reports, cache, id, u, f).cache)
    BY GuardedUpdateThins DEF report_accept, report_reject
  <2> QED
    BY <1>2, <1>3, <1>5, <2>1 DEF route_api_report_respond
<1>6. CASE route_api_report_status(u)
  <2>1. \A id, f : Thins(cache, report_resolve(reports, cache, id, u, f).cache)
    BY GuardedUpdateThins DEF report_resolve
  <2> QED
    BY <1>2, <1>3, <1>6, <2>1 DEF route_api_report_status
<1>7. CASE route_api_report_feedback(u)
  <2>1. \A id, stars, f :
          Thins(cache, report_set_feedback(reports, cache, id, u, stars, f).cache)
    BY GuardedUpdateThins DEF report_set_feedback
  <2> QED
    BY <1>2, <1>3, <1>7, <2>1 DEF route_api_report_feedback
<1>8. CASE route_api_admin_assign(u)
  <2>1. \A db, id, op, f : Thins(cache, report_assign(db, cache, id, op, f).cache)
    BY GuardedUpdateThins DEF report_assign
  <2>2. \A id, op, f : Thins(cache, AssignOrReassign(id, op, f).cache)
    BY <2>1 DEF AssignOrReassign
  <2> QED
    BY <1>2, <1>3, <1>8, <2>2 DEF route_api_admin_assign
<1> QED
  BY <1>4, <1>5, <1>6, <1>7, <1>8

\* A list handler only drops entries, or stores one whose key no entry has:
\* a key that missed is not in the cache once the expired entries are gone.
LEMMA ListKeepsKeys ==
  ASSUME CacheOK(cache), NoDuplicateKeys, NEW u, NEW list, NEW key, ServeList(u, list, key)
  PROVE  NoDuplicateKeys'
<1>1. \A last : Thins(cache, Evict(last))
  BY DEF Thins, Evict
<1>2. ASSUME Thins(cache, cache')
      PROVE  NoDuplicateKeys'
  BY <1>2 DEF Thins, NoDuplicateKeys
<1>3. ASSUME NEW s \in Slots, Hit(key, s)
      PROVE  NoDuplicateKeys'
  BY <1>1, <1>2, <1>3 DEF Hit
<1>4. ASSUME Hits(key) = {}, NEW view, cache_store(Evict(CacheSlots), key, view)
      PROVE  NoDuplicateKeys'
  <2> DEFINE ch == Evict(CacheSlots)
  <2>1. \A t \in Slots : ch[t] # NULL => ch[t] = cache[t] /\ ch[t].key # key
    <3> SUFFICES ASSUME NEW t \in Slots, ch[t] # NULL
                 PROVE  ch[t] = cache[t] /\ cache[t].key # key
      OBVIOUS
    <3>1. t <= CacheSlots
      BY BoundAssumption DEF Slots
    <3>2. ch[t] = cache[t] /\ cache[t] # NULL /\ ~Expired(cache[t])
      BY <3>1 DEF Evict
    <3> QED
      BY <1>4, <3>2 DEF Hits, Live
  <2>2. DOMAIN ch = Slots
    BY DEF Evict
  <2> HIDE DEF ch
  <2>3. CASE cache' = ch
    BY <1>1, <1>2, <2>3 DEF ch
  <2>4. ASSUME NEW s \in Slots,
               cache' = [ch EXCEPT ![s] = [key |-> key, age |-> 0, view |-> view]]
        PROVE  NoDuplicateKeys'
    <3>1. cache'[s].key = key /\ \A t \in Slots : t # s => cache'[t] = ch[t]
      BY <2>2, <2>4
    <3> QED
      BY <2>1, <3>1 DEF NoDuplicateKeys
  <2> QED
    BY <1>4, <2>3, <2>4 DEF cache_store, ch
<1>5. CASE cache' = Evict(CacheSlots)
  BY <1>1, <1>2, <1>5
<1> QED
  BY <1>3, <1>4, <1>5 DEF ServeList

\* The cache never holds two entries for one key, whatever statements fail:
\* cache_find frees what it skips, so cache_store is only reached when the key
\* is gone, and an invalidation cannot uncover an older entry.
THEOREM KeysStayUnique == Spec => []NoDuplicateKeys
<1>1. Init => NoDuplicateKeys
  BY DEF Init, NoDuplicateKeys
<1>2. WellFormed /\ NoDuplicateKeys /\ [Next]_vars => NoDuplicateKeys'
  <2> SUFFICES ASSUME WellFormed, NoDuplicateKeys, [Next]_vars
               PROVE  NoDuplicateKeys'
    OBVIOUS
  <2>1. ASSUME Thins(cache, cache')
        PROVE  NoDuplicateKeys'
    BY <2>1 DEF Thins, NoDuplicateKeys
  <2>2. CASE Tick
    <3>1. Thins(cache, cache')
      BY <2>2 DEF Tick, Older, Thins
    <3> QED
      BY <2>1, <3>1
  <2>3. CASE Restart
    BY <2>3 DEF Restart, NoDuplicateKeys
  <2>4. CASE UNCHANGED cache
    BY <2>4 DEF NoDuplicateKeys
  <2>5. ASSUME NEW u \in Visitors,
               \/ route_post_submit(u) \/ route_api_report_respond(u)
               \/ route_api_report_status(u) \/ route_api_report_feedback(u)
               \/ route_api_admin_assign(u)
        PROVE  NoDuplicateKeys'
    BY <2>1, <2>5, WriteThins
  <2>6. ASSUME NEW u \in Visitors,
               \/ route_api_reports_active(u) \/ route_api_reports_archived(u)
               \/ route_api_reports_all(u)
        PROVE  NoDuplicateKeys'
    BY <2>4, <2>6, ListKeepsKeys
    DEF WellFormed, route_api_reports_active, route_api_reports_archived, route_api_reports_all
  <2> QED
    BY <2>2, <2>3, <2>4, <2>5, <2>6 DEF Next, Request, vars
<1> QED
  BY <1>1, <1>2, WellFormedAlways, PTL DEF Spec
=============================================================================
