------------------------- MODULE RateLimiterProofs -------------------------
(***************************************************************************)
(* Proofs about RateLimiter, for any addresses, rate and table limit.      *)
(***************************************************************************)
EXTENDS RateLimiter, FiniteSetTheorems, TLAPS

Table == [IPs -> Entry \cup {NULL}]
Count == [now : Nat, prev : Nat]
History == [IPs -> Count]

\* How an entry e relates to the admissions h of its address: the counters
\* of the two latest windows stay within RPS together, and they account for
\* the admissions of this second and of the one before.
Accounts(e, h) ==
  /\ e = NULL => h.now = 0 /\ h.prev = 0
  /\ e # NULL =>
       /\ e.countCurr + e.countPrev <= RPS
       /\ e.age = 0 => h.now = e.countCurr /\ h.prev <= e.countPrev
       /\ e.age = 1 => h.now = 0 /\ h.prev = e.countCurr
       /\ e.age = 2 => h.now = 0 /\ h.prev = 0

\* Within the bound, table or no table.
Bounded == \A ip \in IPs : admitted[ip].now + admitted[ip].prev <= RPS

Accounted == rateTable \in Table /\ \A ip \in IPs : Accounts(rateTable[ip], admitted[ip])

\* The inductive invariant: either the counters account for the admissions,
\* or there is no table any more and no admission is counted.
Inv ==
  /\ admitted \in History
  /\ last \in [ip : IPs \cup {NULL}, allowed : BOOLEAN]
  /\ Bounded
  /\ rateTable = NULL \/ Accounted
  /\ TableBounded

\* No record of counters is NULL.
LEMMA EntryFacts ==
  ASSUME NEW e \in Entry
  PROVE  /\ e # NULL
         /\ e.countCurr \in 0..RPS /\ e.countPrev \in 0..RPS /\ e.age \in 0..2
<1>1. e \in [countCurr : Nat, countPrev : Nat, age : Nat]
  BY RpsAssumption DEF Entry
<1> QED
  BY <1>1, NullAssumption DEF Entry

\* One check of one address, from the entry found to the entry stored: what
\* is admitted is what is counted, and the sum stays within RPS.
LEMMA CheckEntry ==
  ASSUME NEW table \in Table, NEW ip \in IPs, NEW h \in Count, Accounts(table[ip], h)
  PROVE  LET e == Rotate(Found(table, ip)) IN
         /\ e \in Entry /\ e.age = 0
         /\ e.countCurr + e.countPrev <= RPS
         /\ h.now = e.countCurr /\ h.prev <= e.countPrev
         /\ Estimated(e) = e.countPrev + e.countCurr
<1> DEFINE f == Found(table, ip)
           e == Rotate(f)
<1>1. CASE table[ip] = NULL
  <2>1. f = [countCurr |-> 0, countPrev |-> 0, age |-> 2]
    BY <1>1 DEF Found
  <2>2. e = [countCurr |-> 0, countPrev |-> 0, age |-> 0]
    BY <2>1 DEF Rotate
  <2>3. e \in Entry /\ e.age = 0 /\ e.countCurr = 0 /\ e.countPrev = 0
    BY <2>2, RpsAssumption DEF Entry
  <2>4. h.now = 0 /\ h.prev = 0
    BY <1>1 DEF Accounts
  <2> HIDE DEF e
  <2> QED
    BY <2>3, <2>4, RpsAssumption DEF Estimated, e
<1>2. CASE table[ip] # NULL
  <2>1. f = table[ip] /\ f \in Entry
    BY <1>2 DEF Found, Table
  <2>2. /\ f.countCurr \in 0..RPS /\ f.countPrev \in 0..RPS /\ f.age \in 0..2
        /\ f.countCurr + f.countPrev <= RPS
        /\ f.age = 0 => h.now = f.countCurr /\ h.prev <= f.countPrev
        /\ f.age = 1 => h.now = 0 /\ h.prev = f.countCurr
        /\ f.age = 2 => h.now = 0 /\ h.prev = 0
    BY <1>2, <2>1, EntryFacts DEF Accounts
  <2> HIDE DEF f
  <2>3. CASE f.age = 0
    <3>1. e = f
      BY <2>3 DEF Rotate
    <3> QED
      BY <2>1, <2>2, <2>3, <3>1, RpsAssumption DEF Estimated, f
  <2>4. CASE f.age >= 1
    <3>1. e = [countCurr |-> 0, countPrev |-> f.countCurr, age |-> 0]
      BY <2>4 DEF Rotate
    <3>2. e \in Entry /\ e.age = 0 /\ e.countCurr = 0 /\ e.countPrev = f.countCurr
      BY <2>2, <3>1, RpsAssumption DEF Entry
    <3>3. h.now = 0 /\ h.prev <= f.countCurr
      BY <2>2, <2>4
    <3> HIDE DEF e
    <3> QED
      BY <2>2, <3>2, <3>3, RpsAssumption DEF Estimated, e, f
  <2> QED
    BY <2>2, <2>3, <2>4
<1> QED
  BY <1>1, <1>2

\* A check of an address against a well-formed table.
LEMMA JudgeOK ==
  ASSUME NEW table \in Table, NEW before \in History, NEW ip \in IPs,
         \A x \in IPs : Accounts(table[x], before[x]),
         Judge(table, before, ip)
  PROVE  /\ Accounted'
         /\ admitted' \in History
         /\ last' \in [ip : IPs \cup {NULL}, allowed : BOOLEAN]
         /\ Saved(rateTable') \subseteq Saved(table) \cup {ip}
<1> DEFINE e == Rotate(Found(table, ip))
           allowed == Estimated(e) < RPS
           g == Counted(e)
<1>1. before[ip] \in Count /\ Accounts(table[ip], before[ip])
  BY DEF History
<1>2. /\ e \in Entry /\ e.age = 0 /\ e.countCurr + e.countPrev <= RPS
      /\ before[ip].now = e.countCurr /\ before[ip].prev <= e.countPrev
      /\ Estimated(e) = e.countPrev + e.countCurr
  BY <1>1, CheckEntry
<1>3. /\ rateTable' = [table EXCEPT ![ip] = g]
      /\ admitted' = IF allowed THEN [before EXCEPT ![ip].now = @ + 1] ELSE before
      /\ last' = [ip |-> ip, allowed |-> allowed]
  BY DEF Judge
<1> HIDE DEF e
<1>4. e.countCurr \in 0..RPS /\ e.countPrev \in 0..RPS
  BY <1>2, EntryFacts
<1>5. /\ g \in Entry /\ g.age = 0 /\ g.countPrev = e.countPrev
      /\ g.countCurr = IF allowed THEN e.countCurr + 1 ELSE e.countCurr
      /\ g.countCurr + g.countPrev <= RPS
  BY <1>2, <1>4, RpsAssumption DEF Counted, Entry
<1>6. g # NULL
  BY <1>5, EntryFacts
<1>7. /\ admitted' \in History
      /\ \A x \in IPs : x # ip => admitted'[x] = before[x]
      /\ admitted'[ip].now = IF allowed THEN before[ip].now + 1 ELSE before[ip].now
      /\ admitted'[ip].prev = before[ip].prev
  <2> HIDE DEF allowed
  <2>1. CASE allowed
    <3>1. before[ip].now + 1 \in Nat
      BY <1>1 DEF Count
    <3> QED
      BY <1>1, <1>3, <2>1, <3>1 DEF History, Count
  <2>2. CASE ~allowed
    BY <1>1, <1>3, <2>2
  <2> QED
    BY <2>1, <2>2
<1> HIDE DEF g
<1>8. /\ rateTable' \in Table /\ rateTable'[ip] = g
      /\ \A x \in IPs : x # ip => rateTable'[x] = table[x]
  BY <1>3, <1>5 DEF Table
<1>9. Accounts(g, admitted'[ip])
  BY <1>2, <1>4, <1>5, <1>6, <1>7 DEF Accounts
<1>10. Accounted'
  BY <1>7, <1>8, <1>9 DEF Accounted
<1>11. allowed \in BOOLEAN
  BY <1>4, <1>2, RpsAssumption
<1> HIDE DEF allowed
<1>12. last' \in [ip : IPs \cup {NULL}, allowed : BOOLEAN]
  BY <1>3, <1>11
<1> QED
  BY <1>7, <1>8, <1>10, <1>12 DEF Saved

\* Counters that account for the admissions bound them.
LEMMA AccountsBound ==
  ASSUME NEW e \in Entry \cup {NULL}, NEW h \in Count, Accounts(e, h)
  PROVE  h.now + h.prev <= RPS
<1>1. h.now \in Nat /\ h.prev \in Nat
  BY DEF Count
<1>2. CASE e = NULL
  BY <1>1, <1>2, RpsAssumption DEF Accounts
<1>3. CASE e \in Entry
  BY <1>1, <1>3, EntryFacts, RpsAssumption DEF Accounts
<1> QED
  BY <1>2, <1>3

\* Adding one address to a table within the limit passes it by one at most.
LEMMA SavedCount ==
  ASSUME NEW S, S \subseteq IPs, NEW T, NEW ip \in IPs, T \subseteq S \cup {ip},
         Cardinality(S) <= MaxSavedIP
  PROVE  Cardinality(T) <= MaxSavedIP + 1
<1>1. IsFiniteSet(S) /\ Cardinality(S) \in Nat
  BY IpAssumption, FS_Subset, FS_CardinalityType
<1>2. /\ IsFiniteSet(S \cup {ip})
      /\ Cardinality(S \cup {ip}) \in {Cardinality(S), Cardinality(S) + 1}
  BY <1>1, FS_AddElement
<1>3. Cardinality(T) \in Nat /\ Cardinality(T) <= Cardinality(S \cup {ip})
  BY <1>2, FS_Subset, FS_CardinalityType
<1> QED
  BY <1>1, <1>2, <1>3, MaxAssumption

\* A check preserves the invariant.
LEMMA CheckStep ==
  ASSUME Inv, NEW ip \in IPs \cup {NULL}, rate_limit_check(ip)
  PROVE  Inv'
<1>1. CASE ip = NULL \/ rateTable = NULL
  <2>1. UNCHANGED <<rateTable, admitted>> /\ last' = [ip |-> ip, allowed |-> TRUE]
    BY <1>1 DEF rate_limit_check
  <2> QED
    BY <2>1 DEF Inv, Bounded, Accounted, TableBounded
<1>2. ASSUME ip # NULL, NEW table \in Table, NEW before \in History,
             \A x \in IPs : Accounts(table[x], before[x]),
             Cardinality(Saved(table)) <= MaxSavedIP,
             Judge(table, before, ip)
      PROVE  Inv'
  <2>1. ip \in IPs
    BY <1>2
  <2>2. /\ Accounted' /\ admitted' \in History
        /\ last' \in [ip : IPs \cup {NULL}, allowed : BOOLEAN]
        /\ Saved(rateTable') \subseteq Saved(table) \cup {ip}
    BY <1>2, <2>1, JudgeOK
  <2>3. Bounded'
    BY <2>2, AccountsBound DEF Accounted, Table, History, Bounded
  <2>4. Saved(table) \subseteq IPs
    BY DEF Saved
  <2>5. Cardinality(Saved(rateTable')) <= MaxSavedIP + 1
    BY <1>2, <2>1, <2>2, <2>4, SavedCount
  <2> QED
    BY <2>2, <2>3, <2>5 DEF Inv, TableBounded
<1>3. CASE ip # NULL /\ rateTable # NULL /\ ~Recycles(rateTable)
  <2>1. Accounted /\ Judge(rateTable, admitted, ip)
    BY <1>3 DEF Inv, rate_limit_check
  <2>2. Cardinality(Saved(rateTable)) \in Nat
    BY IpAssumption, FS_Subset, FS_CardinalityType DEF Saved
  <2>3. Cardinality(Saved(rateTable)) <= MaxSavedIP
    BY <1>3, <2>2, MaxAssumption DEF Recycles
  <2> QED
    BY <1>2, <1>3, <2>1, <2>3 DEF Inv, Accounted
<1>4. CASE ip # NULL /\ rateTable # NULL /\ Recycles(rateTable)
  <2>1. /\ Forgotten \in History /\ NoEntries \in Table
        /\ \A x \in IPs : Accounts(NoEntries[x], Forgotten[x])
    BY DEF Forgotten, NoEntries, History, Count, Table, Accounts
  <2>2. CASE Judge(NoEntries, Forgotten, ip)
    <3>1. Saved(NoEntries) = {}
      BY DEF Saved, NoEntries
    <3>2. Cardinality(Saved(NoEntries)) <= MaxSavedIP
      BY <3>1, FS_EmptySet, MaxAssumption
    <3> QED
      BY <1>2, <1>4, <2>1, <2>2, <3>2
  <2>3. CASE rateTable' = NULL /\ admitted' = Forgotten
             /\ last' = [ip |-> ip, allowed |-> TRUE]
    <3>1. Bounded'
      BY <2>3, RpsAssumption DEF Bounded, Forgotten
    <3> QED
      BY <2>1, <2>3, <3>1 DEF Inv, TableBounded
  <2> QED
    BY <1>4, <2>2, <2>3 DEF rate_limit_check
<1> QED
  BY <1>1, <1>3, <1>4

\* The passing of a second preserves the invariant.
LEMMA TickStep ==
  ASSUME Inv, Tick
  PROVE  Inv'
<1>1. /\ admitted' \in History /\ Bounded'
      /\ \A ip \in IPs : admitted'[ip].now = 0 /\ admitted'[ip].prev = admitted[ip].now
  BY RpsAssumption DEF Inv, Tick, Bounded, History, Count
<1>2. CASE rateTable = NULL
  BY <1>1, <1>2 DEF Inv, Tick, TableBounded
<1>3. CASE rateTable # NULL
  <2>1. Accounted
    BY <1>3 DEF Inv
  <2>2. rateTable' = [ip \in IPs |->
                        IF rateTable[ip] # NULL /\ rateTable[ip].age < 2
                        THEN [rateTable[ip] EXCEPT !.age = @ + 1]
                        ELSE rateTable[ip]]
    BY <1>3 DEF Tick
  <2>3. ASSUME NEW ip \in IPs
        PROVE  /\ rateTable'[ip] \in Entry \cup {NULL}
               /\ rateTable'[ip] = NULL <=> rateTable[ip] = NULL
               /\ Accounts(rateTable'[ip], admitted'[ip])
    <3>1. /\ Accounts(rateTable[ip], admitted[ip])
          /\ rateTable[ip] = NULL \/ rateTable[ip] \in Entry
          /\ admitted[ip].now \in Nat /\ admitted[ip].prev \in Nat
      BY <2>1 DEF Accounted, Table, Inv, History, Count
    <3>2. CASE rateTable[ip] = NULL
      BY <1>1, <2>2, <3>1, <3>2 DEF Accounts
    <3>3. CASE rateTable[ip] \in Entry
      <4> DEFINE e == rateTable[ip]
                 g == rateTable'[ip]
      <4>1. /\ e # NULL /\ e.age \in 0..2
            /\ e.countCurr \in 0..RPS /\ e.countPrev \in 0..RPS
        BY <3>3, EntryFacts
      <4>2. /\ g \in Entry /\ g.countCurr = e.countCurr /\ g.countPrev = e.countPrev
            /\ g.age = IF e.age < 2 THEN e.age + 1 ELSE e.age
        BY <2>2, <3>3, <4>1 DEF Entry
      <4>3. g # NULL
        BY <4>2, EntryFacts
      <4> QED
        BY <1>1, <3>1, <4>1, <4>2, <4>3 DEF Accounts
    <3> QED
      BY <3>1, <3>2, <3>3
  <2>4. Accounted'
    BY <2>2, <2>3 DEF Accounted, Table
  <2>5. Saved(rateTable') = Saved(rateTable)
    BY <2>3 DEF Saved
  <2>6. TableBounded'
    BY <1>3, <2>5 DEF Inv, TableBounded
  <2> QED
    BY <1>1, <2>4, <2>6 DEF Inv, Tick
<1> QED
  BY <1>2, <1>3

\* The invariant holds in every reachable state.
LEMMA Invariance == Spec => []Inv
<1>1. Init => Inv
  <2> SUFFICES ASSUME Init PROVE Inv
    OBVIOUS
  <2>1. Accounted /\ admitted \in History
    BY DEF Init, Accounted, Forgotten, NoEntries, History, Count, Table, Accounts
  <2>2. Bounded
    BY <2>1, AccountsBound DEF Accounted, Table, History, Bounded
  <2>3. Saved(NoEntries) = {}
    BY DEF Saved, NoEntries
  <2>4. TableBounded
    BY <2>3, FS_EmptySet, MaxAssumption DEF Init, TableBounded
  <2> QED
    BY <2>1, <2>2, <2>4 DEF Init, Inv
<1>2. Inv /\ [Next]_vars => Inv'
  <2> SUFFICES ASSUME Inv, [Next]_vars PROVE Inv'
    OBVIOUS
  <2>1. CASE Tick
    BY <2>1, TickStep
  <2>2. ASSUME NEW ip \in IPs \cup {NULL}, rate_limit_check(ip) PROVE Inv'
    BY <2>2, CheckStep
  <2>3. CASE UNCHANGED vars
    BY <2>3 DEF vars, Inv, Bounded, Accounted, TableBounded
  <2> QED
    BY <2>1, <2>2, <2>3 DEF Next
<1> QED
  BY <1>1, <1>2, PTL DEF Spec

\* No address is admitted more than RPS times in two consecutive seconds,
\* for any set of addresses and any limits, whatever the pattern of requests
\* and pauses, also when the table is recycled or lost.
THEOREM AdmissionsBounded == Spec => []TwoSecondBound
<1>1. Inv => TwoSecondBound
  BY DEF Inv, Bounded, TwoSecondBound
<1> QED
  BY <1>1, Invariance, PTL

\* The table never holds more than MaxSavedIP + 1 addresses.
THEOREM TableStaysBounded == Spec => []TableBounded
<1>1. Inv => TableBounded
  BY DEF Inv
<1> QED
  BY <1>1, Invariance, PTL

\* The counters and the admissions of a second stay within the rate.
THEOREM TypeCorrect == Spec => []TypeOK
<1>1. Inv => TypeOK
  <2> SUFFICES ASSUME Inv PROVE TypeOK
    OBVIOUS
  <2>1. rateTable = NULL \/ rateTable \in [IPs -> Entry \cup {NULL}]
    BY DEF Inv, Accounted, Table
  <2>2. \A ip \in IPs : admitted[ip] \in [now : 0..RPS, prev : 0..RPS]
    BY RpsAssumption DEF Inv, Bounded, History, Count
  <2>3. admitted \in [IPs -> [now : 0..RPS, prev : 0..RPS]]
    BY <2>2 DEF Inv, History
  <2> QED
    BY <2>1, <2>3 DEF TypeOK, Inv
<1> QED
  BY <1>1, Invariance, PTL
=============================================================================
