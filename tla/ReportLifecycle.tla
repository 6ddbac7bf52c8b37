-------------------------- MODULE ReportLifecycle --------------------------
(***************************************************************************)
(* What the system promises about a report, whatever happens inside: who   *)
(* may move it, from where and to where (README.md "Report Lifecycle",     *)
(* report.h).  There is no SQL, no cache and no failing statement here.    *)
(* Reports.tla is shown to implement this specification.                   *)
(***************************************************************************)
EXTENDS Naturals, Sequences

CONSTANTS Citizens, Operators, Admins, CityOf, NULL

VARIABLES
  rows,   \* the reports, in the order they were filed
  actor   \* the user behind the latest step

\* A citizen files a report about the own city.
File(c) ==
  rows' = Append(rows, [author |-> c, city |-> CityOf[c], phase |-> "active",
                        holder |-> NULL, rating |-> NULL])

Move(i, phase, holder) ==
  rows' = [rows EXCEPT ![i].phase = phase, ![i].holder = holder]

\* An administrator of the report's city hands it to an operator of the same
\* city, until somebody has accepted it.
Assign(a, i, o) ==
  /\ rows[i].phase \in {"active", "assigned"}
  /\ CityOf[a] = rows[i].city
  /\ CityOf[o] = rows[i].city
  /\ Move(i, "assigned", o)

\* A reassignment that failed half way.
Unassign(a, i) ==
  /\ rows[i].phase = "assigned"
  /\ CityOf[a] = rows[i].city
  /\ Move(i, "active", NULL)

\* The operator the report was handed to, and nobody else, answers.
Accept(o, i) ==
  /\ rows[i].phase = "assigned"
  /\ rows[i].holder = o
  /\ Move(i, "in_progress", o)

Reject(o, i) ==
  /\ rows[i].phase = "assigned"
  /\ rows[i].holder = o
  /\ Move(i, "active", NULL)

Resolve(o, i) ==
  /\ rows[i].phase = "in_progress"
  /\ rows[i].holder = o
  /\ Move(i, "resolved", o)

\* The author rates a resolved report, once.
Rate(c, i, stars) ==
  /\ rows[i].phase = "resolved"
  /\ rows[i].author = c
  /\ rows[i].rating = NULL
  /\ rows' = [rows EXCEPT ![i].rating = stars]

Init == rows = <<>>

\* A step taken by somebody of the role it needs; on a refused request or a
\* failed one nobody (NULL) is named.
Next ==
  \/ \E c \in Citizens : actor' = c /\ File(c)
  \/ \E c \in Citizens, i \in DOMAIN rows, stars \in 1..5 : actor' = c /\ Rate(c, i, stars)
  \/ \E o \in Operators, i \in DOMAIN rows :
       actor' = o /\ (Accept(o, i) \/ Reject(o, i) \/ Resolve(o, i))
  \/ \E a \in Admins, i \in DOMAIN rows, o \in Operators : actor' = a /\ Assign(a, i, o)
  \/ \E a \in Admins, i \in DOMAIN rows : actor' = NULL /\ Unassign(a, i)

Spec == Init /\ [][Next]_rows
=============================================================================
