------------------------- MODULE ReportsRefinement -------------------------
(***************************************************************************)
(* Reports implements ReportLifecycle, whatever statements fail, for any   *)
(* users, cities, slots and rows.                                          *)
(***************************************************************************)
EXTENDS ReportsProofs

-----------------------------------------------------------------------------
(* One row at a time.                                                      *)

\* The table db with the row r in place of row id.
Replaced(db, id, r) == [i \in DOMAIN db |-> IF i = id THEN r ELSE db[i]]

\* A write operation that returns 1 found its guard true and replaced row id
\* by new[id]; with any other code it changed nothing.
LEMMA GuardedUpdateDoes ==
  ASSUME NEW db, NEW ch, NEW id, NEW f, NEW rows \in SUBSET {id}, NEW new, NEW w,
         w = GuardedUpdate(db, ch, id, rows, new, f)
  PROVE  /\ w.rc # 1 => w.db = db
         /\ w.rc = 1 => id \in rows /\ w.db = Replaced(db, id, new[id])
<1>1. CASE f = "update" \/ rows = {}
  BY <1>1 DEF GuardedUpdate
<1>2. CASE ~(f = "update" \/ rows = {})
  <2>1. w.rc = 1 /\ w.db = Update(db, rows, new) /\ rows = {id}
    BY <1>2 DEF GuardedUpdate
  <2> QED
    BY <2>1 DEF Update, Replaced
<1> QED
  BY <1>1, <1>2

\* report_assign takes an active row that nobody has.
LEMMA AssignDoes ==
  ASSUME NEW db, NEW ch, NEW id, NEW op, NEW f, NEW w, w = report_assign(db, ch, id, op, f)
  PROVE  /\ w.rc # 1 => w.db = db
         /\ w.rc = 1 => /\ id \in DOMAIN db /\ db[id].status = ACTIVE
                        /\ w.db = Replaced(db, id, SetAssignment(db[id], ASSIGNED, op, STAMP))
<1> DEFINE rows == {i \in DOMAIN db :
                      i = id /\ db[i].status = ACTIVE /\ db[i].assigned_to = NULL}
           new == [i \in rows |-> SetAssignment(db[i], ASSIGNED, op, STAMP)]
<1>1. rows \in SUBSET {id} /\ w = GuardedUpdate(db, ch, id, rows, new, f)
  BY DEF report_assign
<1>2. id \in rows => /\ id \in DOMAIN db /\ db[id].status = ACTIVE
                     /\ new[id] = SetAssignment(db[id], ASSIGNED, op, STAMP)
  OBVIOUS
<1> HIDE DEF rows, new
<1> QED
  BY <1>1, <1>2, GuardedUpdateDoes

\* report_accept takes a row assigned to the caller.
LEMMA AcceptDoes ==
  ASSUME NEW db, NEW ch, NEW id, NEW op, NEW f, NEW w, w = report_accept(db, ch, id, op, f)
  PROVE  /\ w.rc # 1 => w.db = db
         /\ w.rc = 1 => /\ id \in DOMAIN db /\ db[id].status = ASSIGNED /\ db[id].assigned_to = op
                        /\ w.db = Replaced(db, id, SetStatus(db[id], IN_PROGRESS))
<1> DEFINE rows == {i \in DOMAIN db :
                      i = id /\ db[i].assigned_to = op /\ db[i].status = ASSIGNED}
           new == [i \in rows |-> SetStatus(db[i], IN_PROGRESS)]
<1>1. rows \in SUBSET {id} /\ w = GuardedUpdate(db, ch, id, rows, new, f)
  BY DEF report_accept
<1>2. id \in rows => /\ id \in DOMAIN db /\ db[id].status = ASSIGNED /\ db[id].assigned_to = op
                     /\ new[id] = SetStatus(db[id], IN_PROGRESS)
  OBVIOUS
<1> HIDE DEF rows, new
<1> QED
  BY <1>1, <1>2, GuardedUpdateDoes

\* report_reject takes a row assigned to the caller.
LEMMA RejectDoes ==
  ASSUME NEW db, NEW ch, NEW id, NEW op, NEW f, NEW w, w = report_reject(db, ch, id, op, f)
  PROVE  /\ w.rc # 1 => w.db = db
         /\ w.rc = 1 => /\ id \in DOMAIN db /\ db[id].status = ASSIGNED /\ db[id].assigned_to = op
                        /\ w.db = Replaced(db, id, SetAssignment(db[id], ACTIVE, NULL, NULL))
<1> DEFINE rows == {i \in DOMAIN db :
                      i = id /\ db[i].assigned_to = op /\ db[i].status = ASSIGNED}
           new == [i \in rows |-> SetAssignment(db[i], ACTIVE, NULL, NULL)]
<1>1. rows \in SUBSET {id} /\ w = GuardedUpdate(db, ch, id, rows, new, f)
  BY DEF report_reject
<1>2. id \in rows => /\ id \in DOMAIN db /\ db[id].status = ASSIGNED /\ db[id].assigned_to = op
                     /\ new[id] = SetAssignment(db[id], ACTIVE, NULL, NULL)
  OBVIOUS
<1> HIDE DEF rows, new
<1> QED
  BY <1>1, <1>2, GuardedUpdateDoes

\* report_resolve takes a row the caller is working on.
LEMMA ResolveDoes ==
  ASSUME NEW db, NEW ch, NEW id, NEW op, NEW f, NEW w, w = report_resolve(db, ch, id, op, f)
  PROVE  /\ w.rc # 1 => w.db = db
         /\ w.rc = 1 => /\ id \in DOMAIN db /\ db[id].status = IN_PROGRESS
                        /\ db[id].assigned_to = op
                        /\ w.db = Replaced(db, id,
                             SetColumns(db[id], RESOLVED, db[id].assigned_to,
                                        db[id].assigned_at, STAMP, db[id].feedback))
<1> DEFINE rows == {i \in DOMAIN db :
                      i = id /\ db[i].assigned_to = op /\ db[i].status = IN_PROGRESS}
           new == [i \in rows |-> SetColumns(db[i], RESOLVED, db[i].assigned_to,
                                             db[i].assigned_at, STAMP, db[i].feedback)]
<1>1. rows \in SUBSET {id} /\ w = GuardedUpdate(db, ch, id, rows, new, f)
  BY DEF report_resolve
<1>2. id \in rows => /\ id \in DOMAIN db /\ db[id].status = IN_PROGRESS /\ db[id].assigned_to = op
                     /\ new[id] = SetColumns(db[id], RESOLVED, db[id].assigned_to,
                                             db[id].assigned_at, STAMP, db[id].feedback)
  OBVIOUS
<1> HIDE DEF rows, new
<1> QED
  BY <1>1, <1>2, GuardedUpdateDoes

\* report_set_feedback takes a resolved row of the caller without a rating.
LEMMA FeedbackDoes ==
  ASSUME NEW db, NEW ch, NEW id, NEW author, NEW stars, NEW f, NEW w,
         w = report_set_feedback(db, ch, id, author, stars, f)
  PROVE  /\ w.rc # 1 => w.db = db
         /\ w.rc = 1 => /\ id \in DOMAIN db /\ db[id].status = RESOLVED
                        /\ db[id].author_id = author /\ db[id].feedback = NULL
                        /\ w.db = Replaced(db, id,
                             SetColumns(db[id], RESOLVED, db[id].assigned_to,
                                        db[id].assigned_at, db[id].resolved_at, stars))
<1> DEFINE rows == {i \in DOMAIN db :
                      /\ i = id
                      /\ db[i].author_id = author
                      /\ db[i].status = RESOLVED
                      /\ db[i].feedback = NULL}
           new == [i \in rows |-> SetColumns(db[i], RESOLVED, db[i].assigned_to,
                                             db[i].assigned_at, db[i].resolved_at, stars)]
<1>1. rows \in SUBSET {id} /\ w = GuardedUpdate(db, ch, id, rows, new, f)
  BY DEF report_set_feedback
<1>2. id \in rows => /\ id \in DOMAIN db /\ db[id].status = RESOLVED
                     /\ db[id].author_id = author /\ db[id].feedback = NULL
                     /\ new[id] = SetColumns(db[id], RESOLVED, db[id].assigned_to,
                                             db[id].assigned_at, db[id].resolved_at, stars)
  OBVIOUS
<1> HIDE DEF rows, new
<1> QED
  BY <1>1, <1>2, GuardedUpdateDoes

-----------------------------------------------------------------------------
(* The abstract table.                                                     *)

\* A step to another phase or holder of row id is a Move.
LEMMA MoveStep ==
  ASSUME reports \in Seq(Row), NEW id \in DOMAIN reports, NEW r,
         reports' = Replaced(reports, id, r),
         r.author_id = reports[id].author_id, r.city = reports[id].city,
         r.feedback = reports[id].feedback
  PROVE  Abstract!Move(id, Phase(r.status), r.assigned_to)
<1>1. reports'[id] = r /\ \A i \in DOMAIN reports : i # id => reports'[i] = reports[i]
  BY DEF Replaced
<1>2. DOMAIN reports' = DOMAIN reports
  BY DEF Replaced
<1> DEFINE before == AbstractRow(reports[id])
<1>3. AbstractRow(r) = [[before EXCEPT !.phase = Phase(r.status)] EXCEPT !.holder = r.assigned_to]
  <2> DEFINE q == reports[id]
             a == [author |-> q.author_id, city |-> q.city, phase |-> Phase(q.status),
                   holder |-> q.assigned_to, rating |-> q.feedback]
             b == [author |-> q.author_id, city |-> q.city, phase |-> Phase(r.status),
                   holder |-> r.assigned_to, rating |-> q.feedback]
  <2>1. before = a /\ AbstractRow(r) = b
    BY DEF AbstractRow
  <2> HIDE DEF before, q
  <2> DEFINE m == [author |-> q.author_id, city |-> q.city, phase |-> Phase(r.status),
                   holder |-> q.assigned_to, rating |-> q.feedback]
  <2>2. m = [a EXCEPT !.phase = Phase(r.status)]
    OBVIOUS
  <2>3. b = [m EXCEPT !.holder = r.assigned_to]
    OBVIOUS
  <2> HIDE DEF a, b, m
  <2> QED
    BY <2>1, <2>2, <2>3
<1> DEFINE R == [i \in DOMAIN reports |-> AbstractRow(reports[i])]
           R2 == [i \in DOMAIN reports' |-> AbstractRow(reports'[i])]
<1>4. R2 = [R EXCEPT ![id] = AbstractRow(r)]
  BY <1>1, <1>2
<1>5. R[id] = before
  OBVIOUS
<1> HIDE DEF before
<1>6. R2 = [R EXCEPT ![id].phase = Phase(r.status), ![id].holder = r.assigned_to]
  BY <1>3, <1>4, <1>5
<1> QED
  BY <1>6 DEF Abstract!Move, AbstractRow

\* A step to another feedback of row id rates it.
LEMMA RateStep ==
  ASSUME reports \in Seq(Row), NEW id \in DOMAIN reports, NEW r,
         reports' = Replaced(reports, id, r),
         r.author_id = reports[id].author_id, r.city = reports[id].city,
         r.status = reports[id].status, r.assigned_to = reports[id].assigned_to
  PROVE  LET R == [i \in DOMAIN reports |-> AbstractRow(reports[i])]
         IN  R' = [R EXCEPT ![id].rating = r.feedback]
<1>1. reports'[id] = r /\ \A i \in DOMAIN reports : i # id => reports'[i] = reports[i]
  BY DEF Replaced
<1>2. DOMAIN reports' = DOMAIN reports
  BY DEF Replaced
<1> DEFINE before == AbstractRow(reports[id])
           R == [i \in DOMAIN reports |-> AbstractRow(reports[i])]
           R2 == [i \in DOMAIN reports' |-> AbstractRow(reports'[i])]
<1>3. AbstractRow(r) = [before EXCEPT !.rating = r.feedback]
  <2> DEFINE q == reports[id]
             a == [author |-> q.author_id, city |-> q.city, phase |-> Phase(q.status),
                   holder |-> q.assigned_to, rating |-> q.feedback]
             b == [author |-> q.author_id, city |-> q.city, phase |-> Phase(q.status),
                   holder |-> q.assigned_to, rating |-> r.feedback]
  <2>1. before = a /\ AbstractRow(r) = b
    BY DEF AbstractRow
  <2> HIDE DEF before, q
  <2>2. b = [a EXCEPT !.rating = r.feedback]
    OBVIOUS
  <2> HIDE DEF a, b
  <2> QED
    BY <2>1, <2>2
<1>4. R2 = [R EXCEPT ![id] = AbstractRow(r)] /\ R[id] = before
  BY <1>1, <1>2
<1> HIDE DEF before
<1>5. R2 = [R EXCEPT ![id].rating = r.feedback]
  BY <1>3, <1>4
<1> QED
  BY <1>5 DEF AbstractRow

\* The phases of the four states of a row.
LEMMA PhaseOf ==
  /\ Phase(ACTIVE) = "active" /\ Phase(ASSIGNED) = "assigned"
  /\ Phase(IN_PROGRESS) = "in_progress" /\ Phase(RESOLVED) = "resolved"
BY DEF Phase, ACTIVE, ASSIGNED, IN_PROGRESS, RESOLVED

\* What a row looks like to ReportLifecycle.
LEMMA RowOf ==
  ASSUME NEW i \in DOMAIN reports
  PROVE  LET R == [j \in DOMAIN reports |-> AbstractRow(reports[j])]
         IN  /\ i \in DOMAIN R
             /\ R[i].author = reports[i].author_id /\ R[i].city = reports[i].city
             /\ R[i].phase = Phase(reports[i].status)
             /\ R[i].holder = reports[i].assigned_to /\ R[i].rating = reports[i].feedback
BY DEF AbstractRow

\* What the two kinds of replies say about the user.
LEMMA ApplyUser ==
  ASSUME NEW u, NEW w, NEW zero \in {403, 409}, Apply(u, w, zero)
  PROVE  /\ reports' = w.db
         /\ resp'.user = IF w.rc = 1 THEN u ELSE NULL
<1>1. CodeOf(w.rc, zero) \in {200, 403, 409, 500} /\ (w.rc = 1 <=> CodeOf(w.rc, zero) = 200)
  BY DEF CodeOf
<1> QED
  BY <1>1 DEF Apply, Reply

-----------------------------------------------------------------------------
(* The handlers, as steps of the lifecycle.                                *)

\* A step of the lifecycle, or one that leaves the reports alone.
LifecycleStep == Abstract!Next \/ reports' = reports

\* An operator who accepts or rejects is the one the report was handed to.
LEMMA RespondMoves ==
  ASSUME RowsOK(reports), NEW u \in Operators, NEW id, NEW action, NEW f, NEW w,
         w = IF action = "accept" THEN report_accept(reports, cache, id, u, f)
             ELSE report_reject(reports, cache, id, u, f),
         Apply(u, w, 409)
  PROVE  LifecycleStep
<1>1. reports' = w.db /\ resp'.user = IF w.rc = 1 THEN u ELSE NULL
  BY ApplyUser
<1>2. CASE w.rc # 1
  BY <1>1, <1>2, AcceptDoes, RejectDoes DEF LifecycleStep
<1>3. CASE w.rc = 1 /\ action = "accept"
  <2> DEFINE r == SetStatus(reports[id], IN_PROGRESS)
  <2>1. /\ id \in DOMAIN reports /\ reports[id].status = ASSIGNED /\ reports[id].assigned_to = u
        /\ reports' = Replaced(reports, id, r)
    BY <1>1, <1>3, AcceptDoes
  <2>2. /\ r.author_id = reports[id].author_id /\ r.city = reports[id].city
        /\ r.feedback = reports[id].feedback /\ r.status = IN_PROGRESS /\ r.assigned_to = u
    BY <2>1 DEF SetStatus, SetAssignment, SetColumns
  <2> HIDE DEF r
  <2>3. Abstract!Move(id, Phase(r.status), r.assigned_to)
    BY <2>1, <2>2, MoveStep DEF RowsOK
  <2>4. Abstract!Move(id, "in_progress", u)
    BY <2>2, <2>3, PhaseOf
  <2>5. Abstract!Accept(u, id)
    BY <2>1, <2>4, RowOf, PhaseOf DEF Abstract!Accept
  <2> QED
    BY <1>1, <1>3, <2>1, <2>5 DEF LifecycleStep, Abstract!Next
<1>4. CASE w.rc = 1 /\ action # "accept"
  <2> DEFINE r == SetAssignment(reports[id], ACTIVE, NULL, NULL)
  <2>1. /\ id \in DOMAIN reports /\ reports[id].status = ASSIGNED /\ reports[id].assigned_to = u
        /\ reports' = Replaced(reports, id, r)
    BY <1>1, <1>4, RejectDoes
  <2>2. /\ r.author_id = reports[id].author_id /\ r.city = reports[id].city
        /\ r.feedback = reports[id].feedback /\ r.status = ACTIVE /\ r.assigned_to = NULL
    BY <2>1 DEF SetAssignment, SetColumns
  <2> HIDE DEF r
  <2>3. Abstract!Move(id, Phase(r.status), r.assigned_to)
    BY <2>1, <2>2, MoveStep DEF RowsOK
  <2>4. Abstract!Move(id, "active", NULL)
    BY <2>2, <2>3, PhaseOf
  <2>5. Abstract!Reject(u, id)
    BY <2>1, <2>4, RowOf, PhaseOf DEF Abstract!Reject
  <2> QED
    BY <1>1, <1>4, <2>1, <2>5 DEF LifecycleStep, Abstract!Next
<1> QED
  BY <1>2, <1>3, <1>4

\* An operator who resolves is the one who accepted.
LEMMA ResolveMoves ==
  ASSUME RowsOK(reports), NEW u \in Operators, NEW id, NEW f, NEW w,
         w = report_resolve(reports, cache, id, u, f), Apply(u, w, 403)
  PROVE  LifecycleStep
<1>1. reports' = w.db /\ resp'.user = IF w.rc = 1 THEN u ELSE NULL
  BY ApplyUser
<1>2. CASE w.rc # 1
  BY <1>1, <1>2, ResolveDoes DEF LifecycleStep
<1>3. CASE w.rc = 1
  <2> DEFINE r == SetColumns(reports[id], RESOLVED, reports[id].assigned_to,
                             reports[id].assigned_at, STAMP, reports[id].feedback)
  <2>1. /\ id \in DOMAIN reports /\ reports[id].status = IN_PROGRESS
        /\ reports[id].assigned_to = u /\ reports' = Replaced(reports, id, r)
    BY <1>1, <1>3, ResolveDoes
  <2>2. /\ r.author_id = reports[id].author_id /\ r.city = reports[id].city
        /\ r.feedback = reports[id].feedback /\ r.status = RESOLVED /\ r.assigned_to = u
    BY <2>1 DEF SetColumns
  <2> HIDE DEF r
  <2>3. Abstract!Move(id, Phase(r.status), r.assigned_to)
    BY <2>1, <2>2, MoveStep DEF RowsOK
  <2>4. Abstract!Move(id, "resolved", u)
    BY <2>2, <2>3, PhaseOf
  <2>5. Abstract!Resolve(u, id)
    BY <2>1, <2>4, RowOf, PhaseOf DEF Abstract!Resolve
  <2> QED
    BY <1>1, <1>3, <2>1, <2>5 DEF LifecycleStep, Abstract!Next
<1> QED
  BY <1>2, <1>3

\* Whoever rates is the author, and rates once.
LEMMA FeedbackRates ==
  ASSUME RowsOK(reports), NEW u \in Citizens, NEW id, NEW stars \in StarInputs,
         ValidStars(stars), NEW f, NEW w,
         w = report_set_feedback(reports, cache, id, u, stars, f), Apply(u, w, 409)
  PROVE  LifecycleStep
<1>1. reports' = w.db /\ resp'.user = IF w.rc = 1 THEN u ELSE NULL
  BY ApplyUser
<1>2. CASE w.rc # 1
  BY <1>1, <1>2, FeedbackDoes DEF LifecycleStep
<1>3. CASE w.rc = 1
  <2> DEFINE r == SetColumns(reports[id], RESOLVED, reports[id].assigned_to,
                             reports[id].assigned_at, reports[id].resolved_at, stars)
             R == [i \in DOMAIN reports |-> AbstractRow(reports[i])]
  <2>1. /\ id \in DOMAIN reports /\ reports[id].status = RESOLVED
        /\ reports[id].author_id = u /\ reports[id].feedback = NULL
        /\ reports' = Replaced(reports, id, r)
    BY <1>1, <1>3, FeedbackDoes
  <2>2. /\ r.author_id = reports[id].author_id /\ r.city = reports[id].city
        /\ r.status = reports[id].status /\ r.assigned_to = reports[id].assigned_to
        /\ r.feedback = stars
    BY <2>1 DEF SetColumns
  <2> HIDE DEF r
  <2>3. R' = [R EXCEPT ![id].rating = stars]
    BY <2>1, <2>2, RateStep DEF RowsOK
  <2>4. Abstract!Rate(u, id, stars)
    BY <2>1, <2>3, RowOf, PhaseOf DEF Abstract!Rate
  <2>5. stars \in 1..5
    BY StarAssumption DEF ValidStars
  <2> QED
    BY <1>1, <1>3, <2>1, <2>4, <2>5 DEF LifecycleStep, Abstract!Next
<1> QED
  BY <1>2, <1>3

\* The reset of a forced reassignment changes the one row.
LEMMA ResetDoes ==
  ASSUME NEW db, NEW id \in DOMAIN db, db[id].status = ASSIGNED
  PROVE  ForceReset(db, id) = Replaced(db, id, SetAssignment(db[id], ACTIVE, NULL, NULL))
<1> DEFINE rows == {i \in DOMAIN db : i = id /\ db[i].status = ASSIGNED}
           new == [i \in rows |-> SetAssignment(db[i], ACTIVE, NULL, NULL)]
<1>1. rows = {id} /\ new[id] = SetAssignment(db[id], ACTIVE, NULL, NULL)
  OBVIOUS
<1>2. ForceReset(db, id) = Update(db, rows, new)
  BY DEF ForceReset
<1> HIDE DEF rows, new
<1> QED
  BY <1>1, <1>2 DEF Update, Replaced

\* An administrator assigns a report that nobody has accepted; when the retry
\* of a reassignment fails, the report is left unassigned.
LEMMA AssignMoves ==
  ASSUME RowsOK(reports), NEW u \in Admins, NEW id \in DOMAIN reports, NEW op \in Operators,
         reports[id].city = CityOf[u], CityOf[op] = CityOf[u], NEW f, NEW w,
         w = AssignOrReassign(id, op, f), Apply(u, w, 409)
  PROVE  LifecycleStep
<1> DEFINE first == report_assign(reports, cache, id, op, f)
           db == IF f = "reset" THEN reports ELSE ForceReset(reports, id)
           g == IF f = "retry" THEN "update" ELSE f
           second == report_assign(db, cache, id, op, g)
           again == first.rc = 0 /\ f # "peek" /\ reports[id].status = ASSIGNED
           to == SetAssignment(reports[id], ASSIGNED, op, STAMP)
           off == SetAssignment(reports[id], ACTIVE, NULL, NULL)
<1>1. reports' = w.db /\ resp'.user = IF w.rc = 1 THEN u ELSE NULL
  BY ApplyUser
<1>2. w = IF again THEN second ELSE first
  BY DEF AssignOrReassign
<1>3. /\ to.author_id = reports[id].author_id /\ to.city = reports[id].city
      /\ to.feedback = reports[id].feedback /\ to.status = ASSIGNED /\ to.assigned_to = op
      /\ off.author_id = reports[id].author_id /\ off.city = reports[id].city
      /\ off.feedback = reports[id].feedback /\ off.status = ACTIVE /\ off.assigned_to = NULL
      /\ SetAssignment(off, ASSIGNED, op, STAMP) = to
  <2>1. /\ off.resolved_at = reports[id].resolved_at /\ off.feedback = reports[id].feedback
        /\ off.author_id = reports[id].author_id /\ off.city = reports[id].city
    BY DEF SetAssignment, SetColumns
  <2>2. SetAssignment(off, ASSIGNED, op, STAMP) = to
    <3> HIDE DEF off
    <3> QED
      BY <2>1 DEF SetAssignment, SetColumns
  <2> QED
    BY <2>1, <2>2 DEF SetAssignment, SetColumns
<1> HIDE DEF to, off
<1>4. ASSUME reports' = Replaced(reports, id, to), w.rc = 1, reports[id].status \in {ACTIVE, ASSIGNED}
      PROVE  LifecycleStep
  <2>1. Abstract!Move(id, Phase(to.status), to.assigned_to)
    BY <1>3, <1>4, MoveStep DEF RowsOK
  <2>2. Abstract!Move(id, "assigned", op)
    BY <1>3, <2>1, PhaseOf
  <2>3. Abstract!Assign(u, id, op)
    BY <1>4, <2>2, RowOf, PhaseOf DEF Abstract!Assign
  <2> QED
    BY <1>1, <1>4, <2>3 DEF LifecycleStep, Abstract!Next
<1>5. ASSUME reports' = Replaced(reports, id, off), w.rc # 1, reports[id].status = ASSIGNED
      PROVE  LifecycleStep
  <2>1. Abstract!Move(id, Phase(off.status), off.assigned_to)
    BY <1>3, <1>5, MoveStep DEF RowsOK
  <2>2. Abstract!Move(id, "active", NULL)
    BY <1>3, <2>1, PhaseOf
  <2>3. Abstract!Unassign(u, id)
    BY <1>5, <2>2, RowOf, PhaseOf DEF Abstract!Unassign
  <2> QED
    BY <1>1, <1>5, <2>3 DEF LifecycleStep, Abstract!Next
<1>6. CASE ~again \/ f = "reset"
  <2>1. \E h : w = report_assign(reports, cache, id, op, h)
    BY <1>2, <1>6
  <2>2. /\ w.rc # 1 => w.db = reports
        /\ w.rc = 1 => reports[id].status = ACTIVE /\ w.db = Replaced(reports, id, to)
    BY <2>1, AssignDoes DEF to
  <2> QED
    BY <1>1, <1>4, <2>2 DEF LifecycleStep
<1>7. CASE again /\ f # "reset"
  <2> DEFINE reset == Replaced(reports, id, off)
  <2>1. w = report_assign(reset, cache, id, op, g)
    BY <1>2, <1>7, ResetDoes DEF off
  <2>2. DOMAIN reset = DOMAIN reports /\ reset[id] = off
    BY DEF Replaced
  <2>3. \A r : Replaced(reset, id, r) = Replaced(reports, id, r)
    BY DEF Replaced
  <2> HIDE DEF reset, g
  <2>4. /\ w.rc # 1 => w.db = reset
        /\ w.rc = 1 => w.db = Replaced(reset, id, SetAssignment(reset[id], ASSIGNED, op, STAMP))
    BY <2>1, AssignDoes
  <2>5. /\ w.rc # 1 => w.db = Replaced(reports, id, off)
        /\ w.rc = 1 => w.db = Replaced(reports, id, to)
    BY <1>3, <2>2, <2>3, <2>4 DEF reset
  <2>6. reports[id].status = ASSIGNED
    BY <1>7
  <2> QED
    BY <1>1, <1>4, <1>5, <2>5, <2>6
<1> QED
  BY <1>6, <1>7

\* A submission files a report of a citizen about the own city.
LEMMA SubmitFiles ==
  ASSUME RowsOK(reports), NEW u \in Visitors, route_post_submit(u)
  PROVE  LifecycleStep
<1>1. CASE UNCHANGED <<reports, cache>>
  BY <1>1 DEF LifecycleStep
<1>2. CASE u \in Citizens /\ ~UNCHANGED <<reports, cache>>
  <2> DEFINE row == [author_id |-> u, city |-> CityOf[u], status |-> ACTIVE,
                     assigned_to |-> NULL, assigned_at |-> NULL,
                     resolved_at |-> NULL, feedback |-> NULL]
             R == [i \in DOMAIN reports |-> AbstractRow(reports[i])]
             R2 == [i \in DOMAIN reports' |-> AbstractRow(reports'[i])]
             filed == [author |-> u, city |-> CityOf[u], phase |-> "active",
                       holder |-> NULL, rating |-> NULL]
             n == Len(reports)
  <2>1. reports' = Append(reports, row) /\ Reply(u, 302)
    BY <1>2 DEF route_post_submit
  <2>2. resp'.user = u
    BY <2>1 DEF Reply
  <2>3. AbstractRow(row) = filed
    BY PhaseOf DEF AbstractRow
  <2> HIDE DEF row, filed
  <2>4. reports \in Seq(Row) /\ n \in Nat /\ DOMAIN reports = 1..n
    BY DEF RowsOK
  <2>5. /\ DOMAIN reports' = 1..(n + 1) /\ reports'[n + 1] = row
        /\ \A i \in 1..n : reports'[i] = reports[i]
    BY <2>1, <2>4
  <2> HIDE DEF n
  <2>6. R2 = [i \in 1..(n + 1) |-> IF i = n + 1 THEN filed ELSE R[i]]
    BY <2>3, <2>4, <2>5
  <2>7. Append(R, filed) = [i \in 1..(n + 1) |-> IF i = n + 1 THEN filed ELSE R[i]]
    <3> DEFINE V == {AbstractRow(reports[i]) : i \in 1..n} \cup {filed}
    <3>1. R = [i \in 1..n |-> AbstractRow(reports[i])]
      BY <2>4
    <3>2. DOMAIN R = 1..n /\ \A i \in 1..n : R[i] \in V
      BY <3>1
    <3>3. R \in [1..n -> V] /\ filed \in V
      BY <3>1
    <3> HIDE DEF R, V
    <3>4. R \in Seq(V) /\ Len(R) = n
      BY <2>4, <3>3
    <3> DEFINE T == Append(R, filed)
    <3>5. T \in Seq(V) /\ Len(T) = n + 1
      BY <3>3, <3>4
    <3>6. \A i \in 1..(n + 1) : T[i] = IF i = n + 1 THEN filed ELSE R[i]
      BY <2>4, <3>3, <3>4
    <3> HIDE DEF T
    <3>7. T = [i \in 1..(n + 1) |-> T[i]]
      BY <2>4, <3>5
    <3>8. T = [i \in 1..(n + 1) |-> IF i = n + 1 THEN filed ELSE R[i]]
      BY <3>6, <3>7
    <3> QED
      BY <3>8 DEF T
  <2>8. R2 = Append(R, filed)
    BY <2>6, <2>7
  <2>9. Abstract!File(u)
    BY <2>8 DEF Abstract!File, AbstractRow, filed
  <2> QED
    BY <1>2, <2>2, <2>9 DEF LifecycleStep, Abstract!Next
<1> QED
  BY <1>1, <1>2 DEF route_post_submit

\* Every step is one the lifecycle allows to the user who took it, or leaves
\* the reports alone.
LEMMA NextSimulates ==
  ASSUME RowsOK(reports), Next
  PROVE  LifecycleStep
<1>1. CASE Tick \/ Restart
  BY <1>1 DEF Tick, Restart, LifecycleStep
<1>2. ASSUME NEW u \in Visitors, NEW code, Refuse(code)
      PROVE  LifecycleStep
  BY <1>2 DEF Refuse, LifecycleStep
<1>3. ASSUME NEW u \in Visitors, Request(u)
      PROVE  LifecycleStep
  <2>1. CASE route_post_submit(u)
    BY <2>1, SubmitFiles
  <2>2. CASE route_api_report_respond(u)
    BY <1>2, <2>2, RespondMoves DEF route_api_report_respond
  <2>3. CASE route_api_report_status(u)
    BY <1>2, <2>3, ResolveMoves DEF route_api_report_status
  <2>4. CASE route_api_report_feedback(u)
    BY <1>2, <2>4, FeedbackRates DEF route_api_report_feedback
  <2>5. CASE route_api_admin_assign(u)
    BY <1>2, <2>5, RefusalCodes, AssignMoves DEF route_api_admin_assign
  <2>6. CASE \/ route_api_reports_active(u) \/ route_api_reports_archived(u)
             \/ route_api_reports_all(u)
    BY <2>6 DEF route_api_reports_active, route_api_reports_archived, route_api_reports_all,
                LifecycleStep
  <2> QED
    BY <1>3, <2>1, <2>2, <2>3, <2>4, <2>5, <2>6 DEF Request
<1> QED
  BY <1>1, <1>3 DEF Next

\* Every change the handlers make to the table is a step the lifecycle allows
\* to the user who made it, whatever statements fail: a report is moved only
\* by the operator who holds it, rated only by its author and once, and
\* assigned only within its city and before somebody accepted it.
THEOREM Refinement == Spec => ImplementsLifecycle
<1> DEFINE R == [i \in DOMAIN reports |-> AbstractRow(reports[i])]
<1>1. Init => Abstract!Init
  BY DEF Init, Abstract!Init
<1>2. WellFormed /\ [Next]_vars => [Abstract!Next]_R
  <2> SUFFICES ASSUME WellFormed, [Next]_vars
               PROVE  Abstract!Next \/ R' = R
    OBVIOUS
  <2>1. CASE Next
    BY <2>1, NextSimulates DEF WellFormed, LifecycleStep
  <2>2. CASE UNCHANGED vars
    BY <2>2 DEF vars
  <2> QED
    BY <2>1, <2>2
<1> QED
  BY <1>1, <1>2, WellFormedAlways, PTL DEF Spec, ImplementsLifecycle, Abstract!Spec
=============================================================================
