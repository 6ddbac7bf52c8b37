---------------------------- MODULE RateLimiter ----------------------------
(***************************************************************************)
(* rate_limiter.c: the per-IP limiter every complete request passes.       *)
(*                                                                         *)
(* Only differences of wall-clock seconds matter, so an entry keeps the    *)
(* age of its window (seconds since windowStartTime, counted up to 2)      *)
(* instead of the timestamp, and no clock variable is needed.  The clock   *)
(* is taken to be monotonic.  The hash table is a function from addresses  *)
(* to entries; ht_set is taken to succeed.  CreateFails says whether       *)
(* ht_create of a recycled table may fail.                                 *)
(***************************************************************************)
EXTENDS Naturals, FiniteSets

CONSTANTS
  IPs,         \* peer addresses
  RPS,         \* RATE_LIMIT_RPS
  MaxSavedIP,  \* MAX_SAVED_IP
  CreateFails, \* whether the table may not be created again
  Retrying,    \* addresses that never stop sending requests
  NULL         \* no entry, no table, no readable peer address

ASSUME RpsAssumption == RPS \in Nat \ {0}
ASSUME MaxAssumption == MaxSavedIP \in Nat
ASSUME IpAssumption == IsFiniteSet(IPs) /\ NULL \notin IPs
ASSUME FaultAssumption == CreateFails \in BOOLEAN
ASSUME NullAssumption == NULL \notin [countCurr : Nat, countPrev : Nat, age : Nat]
ASSUME RetryAssumption == Retrying \subseteq IPs

VARIABLES
  rateTable,  \* NULL or an entry for each address that has one
  admitted,   \* history: requests admitted per address in this second
              \* and in the one before, since the table was last recycled
  last        \* the latest verdict: whose request, and whether it passed

vars == <<rateTable, admitted, last>>

-----------------------------------------------------------------------------
NoEntries == [ip \in IPs |-> NULL]

Saved(table) == {ip \in IPs : table[ip] # NULL}

\* RateEntry e = {0} when ht_get finds nothing: windowStartTime is the epoch.
Found(table, ip) ==
  IF table[ip] = NULL THEN [countCurr |-> 0, countPrev |-> 0, age |-> 2]
  ELSE table[ip]

\* Mutant of Rotate: the previous window's count is not carried over.
RotateForgets(e) ==
  IF e.age >= 1 THEN [countCurr |-> 0, countPrev |-> 0, age |-> 0] ELSE e

\* Mutant of Rotate: the new window starts with the old window's count.
RotateNoReset(e) ==
  IF e.age >= 1 THEN [countCurr |-> e.countCurr, countPrev |-> e.countCurr, age |-> 0]
  ELSE e

\* A full second has passed since the window began: start a new one.
Rotate(e) ==
  IF e.age >= 1 THEN [countCurr |-> 0, countPrev |-> e.countCurr, age |-> 0]
  ELSE e

\* countPrev * (1 - elapsed) + countCurr, elapsed being e.age after Rotate.
Estimated(e) == e.countPrev * (1 - e.age) + e.countCurr

\* Mutant of Counted: a refused request is counted like an admitted one.
CountedAlways(e) == [e EXCEPT !.countCurr = @ + 1]

\* Only an admitted request is counted.
Counted(e) == IF Estimated(e) < RPS THEN [e EXCEPT !.countCurr = @ + 1] ELSE e

\* Mutant of Recycles: the table is never recycled.
RecyclesNever(table) == FALSE

\* The table is thrown away when it holds too many addresses.
Recycles(table) == Cardinality(Saved(table)) > MaxSavedIP

\* The part of rate_limit_check after the table has been obtained.
Judge(table, before, ip) ==
  LET e == Rotate(Found(table, ip))
      allowed == Estimated(e) < RPS
  IN  /\ rateTable' = [table EXCEPT ![ip] = Counted(e)]
      /\ admitted' = IF allowed THEN [before EXCEPT ![ip].now = @ + 1] ELSE before
      /\ last' = [ip |-> ip, allowed |-> allowed]

Forgotten == [ip \in IPs |-> [now |-> 0, prev |-> 0]]

rate_limit_check(ip) ==
  \/ /\ ip = NULL \/ rateTable = NULL
     /\ last' = [ip |-> ip, allowed |-> TRUE]
     /\ UNCHANGED <<rateTable, admitted>>
  \/ /\ ip # NULL /\ rateTable # NULL
     /\ ~Recycles(rateTable)
     /\ Judge(rateTable, admitted, ip)
  \/ /\ ip # NULL /\ rateTable # NULL
     /\ Recycles(rateTable)
     /\ \/ Judge(NoEntries, Forgotten, ip)
        \/ /\ CreateFails
           /\ rateTable' = NULL
           /\ admitted' = Forgotten
           /\ last' = [ip |-> ip, allowed |-> TRUE]

\* A second passes.
Tick ==
  /\ rateTable' = IF rateTable = NULL THEN NULL
                  ELSE [ip \in IPs |->
                          IF rateTable[ip] # NULL /\ rateTable[ip].age < 2
                          THEN [rateTable[ip] EXCEPT !.age = @ + 1]
                          ELSE rateTable[ip]]
  /\ admitted' = [ip \in IPs |-> [now |-> 0, prev |-> admitted[ip].now]]
  /\ UNCHANGED last

\* rate_limiter_init at startup.
Init ==
  /\ rateTable = NoEntries
  /\ admitted = Forgotten
  /\ last = [ip |-> NULL, allowed |-> TRUE]

Next == Tick \/ \E ip \in IPs \cup {NULL} : rate_limit_check(ip)

Spec == Init /\ [][Next]_vars

\* Time passes, and some addresses keep sending requests.
RetrySpec == Spec /\ WF_vars(Tick) /\ \A ip \in Retrying : WF_vars(rate_limit_check(ip))

-----------------------------------------------------------------------------
(* Properties.                                                             *)

Entry == [countCurr : 0..RPS, countPrev : 0..RPS, age : 0..2]

\* The counters never pass the limit (rate_limiter.h, RateEntry), nor do
\* the admissions of one second.
TypeOK ==
  /\ rateTable = NULL \/ rateTable \in [IPs -> Entry \cup {NULL}]
  /\ admitted \in [IPs -> [now : 0..RPS, prev : 0..RPS]]
  /\ last \in [ip : IPs \cup {NULL}, allowed : BOOLEAN]

\* No address is admitted more than RPS times in any two consecutive clock
\* seconds: the limiter is twice as strict as its name says, in every
\* pattern of bursts and pauses (rate_limiter.c, rate_limit_check).
TwoSecondBound ==
  \A ip \in IPs : admitted[ip].now + admitted[ip].prev <= RPS

\* The table holds at most MaxSavedIP + 1 addresses (rate_limiter.h: "the
\* table is recycled automatically").
TableBounded == rateTable # NULL => Cardinality(Saved(rateTable)) <= MaxSavedIP + 1

\* Whoever keeps asking is admitted again and again: a refusal is not
\* counted, so a refused client cannot lock itself out, whatever the others
\* do to the table.
NobodyLockedOut ==
  \A ip \in Retrying : []<>(last = [ip |-> ip, allowed |-> TRUE])
=============================================================================
