----------------------------- MODULE HashTable -----------------------------
(***************************************************************************)
(* hash_table.c: chained buckets, a resize before the load reaches one,    *)
(* allocations that may fail at any point, and a snapshot file.            *)
(*                                                                         *)
(* A chain is a sequence, its head first, and bucket i is pool[i + 1].     *)
(* Each table draws a seed, that is one of the functions of Hashes.  Every *)
(* call but ht_load holds the table's lock from its first to its last      *)
(* access, and the server has one thread, so a call is one step; ht_load   *)
(* takes the lock once per record, and a step is one record.  The file     *)
(* keeps the records that were written in full; ht_load ignores a partial  *)
(* one at the end.  The server itself never saves or loads a table.  Keys  *)
(* and values are opaque; a buffer handed to ht_get is as large as the     *)
(* value, as it is in every caller.                                        *)
(***************************************************************************)
EXTENDS Naturals, Sequences, SequencesExt, FiniteSets

CONSTANTS
  Keys, Values,
  Hashes,           \* the hash function of each seed, Keys -> Nat
  initialCapacity,  \* as passed to ht_create
  NULL

ASSUME CapacityAssumption == initialCapacity \in Nat \ {0}
ASSUME HashAssumption == Hashes \subseteq [Keys -> Nat]

Entry == [key : Keys, value : Values, hash : Nat]

Hash_Table ==
  [size : Nat, capacity : Nat, hash : Hashes, pool : Seq(Seq(Entry))]

\* A running ht_load: how many records it has read, and whether ht_set has
\* failed for one of them.
Loading == [read : Nat, missed : BOOLEAN]

\* NULL is none of the things a variable may hold besides.
ASSUME NullAssumption ==
  /\ NULL \notin Values
  /\ NULL \notin Hash_Table
  /\ NULL \notin Loading
  /\ NULL \notin Seq(Keys \X Values)
  /\ \A D \in SUBSET Keys : NULL \notin [D -> Values]

VARIABLES
  table,    \* NULL or a Hash_Table
  file,     \* NULL or the records in the snapshot file
  loading,  \* the state of a running ht_load, NULL if none runs
  failed,   \* history: whether the latest save or load met a failure of
            \* fopen, fwrite, fread or malloc that its caller is not told of
  ret       \* what the latest call returned, or copied to its caller

vars == <<table, file, loading, failed, ret>>

-----------------------------------------------------------------------------
(* Capacities                                                              *)

\* Mutant of is_prime: the square of a prime passes.
is_prime_lt(n) ==
  /\ n >= 2
  /\ \/ n \in {2, 3}
     \/ /\ n % 2 # 0 /\ n % 3 # 0
        /\ \A i \in {5 + 6 * k : k \in 0..n} :
             i * i < n => n % i # 0 /\ n % (i + 2) # 0

is_prime(n) ==
  /\ n >= 2
  /\ \/ n \in {2, 3}
     \/ /\ n % 2 # 0 /\ n % 3 # 0
        /\ \A i \in {5 + 6 * k : k \in 0..n} :
             i * i <= n => n % i # 0 /\ n % (i + 2) # 0

\* The search visits odd numbers only; by Bertrand's postulate it ends below 2n.
Candidates(n) == {m \in n..(2 * n) : m % 2 = 1 /\ is_prime(m)}

next_prime(n) == IF n < 2 THEN 2 ELSE Min(Candidates(n))

-----------------------------------------------------------------------------
(* The table                                                               *)

NewTable(h) ==
  [size |-> 0, capacity |-> initialCapacity, hash |-> h,
   pool |-> [i \in 1..initialCapacity |-> <<>>]]

\* h % capacity, counted from 1.
Index(h, capacity) == (h % capacity) + 1

Bucket(t, k) == Index(t.hash[k], t.capacity)

\* Where k is in its chain, 0 if it is not.
Find(t, k) == SelectInSeq(t.pool[Bucket(t, k)], LAMBDA e : e.key = k)

Lookup(t, k) ==
  IF Find(t, k) = 0 THEN NULL ELSE t.pool[Bucket(t, k)][Find(t, k)].value

\* An entry is at a place: its bucket and its position in the chain.
Places(t) == UNION {{b} \X DOMAIN t.pool[b] : b \in DOMAIN t.pool}

At(t, p) == t.pool[p[1]][p[2]]

\* The order in which ht_snapshot, ht_foreach and ht_resize visit places:
\* bucket after bucket, each chain from its head.
Before(p, q) == p[1] < q[1] \/ (p[1] = q[1] /\ p[2] < q[2])

InOrder(S) ==
  CHOOSE f \in [1..Cardinality(S) -> S] :
    \A i, j \in 1..Cardinality(S) : i < j => Before(f[i], f[j])

Visited(t, S) == [i \in 1..Cardinality(S) |-> At(t, InOrder(S)[i])]

Entries(t) == Visited(t, Places(t))

\* Mutant of ht_resize: entries are spread by the old capacity.
ht_resize_old_index(t) ==
  LET newCap == next_prime(t.capacity * 2)
      Into(i) == {p \in Places(t) : Index(At(t, p).hash, t.capacity) = i}
  IN  [t EXCEPT !.capacity = newCap,
                !.pool = [i \in 1..newCap |-> Reverse(Visited(t, Into(i)))]]

\* Mutant of ht_resize: the bucket is taken over, not chained to.
ht_resize_drops(t) ==
  LET newCap == next_prime(t.capacity * 2)
      Into(i) == Visited(t, {p \in Places(t) : Index(At(t, p).hash, newCap) = i})
  IN  [t EXCEPT !.capacity = newCap,
                !.pool = [i \in 1..newCap |->
                            IF Into(i) = <<>> THEN <<>> ELSE <<Last(Into(i))>>]]

\* Entries are relinked by their cached hash, each at the head of its bucket.
ht_resize(t) ==
  LET newCap == next_prime(t.capacity * 2)
      Into(i) == {p \in Places(t) : Index(At(t, p).hash, newCap) = i}
  IN  [t EXCEPT !.capacity = newCap,
                !.pool = [i \in 1..newCap |-> Reverse(Visited(t, Into(i)))]]

\* Mutant of NeedsResize: only when the table is full.
NeedsResizeLate(t) == t.size > t.capacity

NeedsResize(t) == t.size + 1 >= t.capacity

\* The search for the next capacity ends, as it always does: if it did not,
\* ht_set would not return.
SearchEnds(t) == NeedsResize(t) => Candidates(t.capacity * 2) # {}

\* The old value is replaced once the new one is allocated.
Updated(t, k, v) == [t EXCEPT !.pool[Bucket(t, k)][Find(t, k)].value = v]

Prepended(t, k, v) ==
  LET e == [key |-> k, value |-> v, hash |-> t.hash[k]]
  IN  [t EXCEPT !.pool[Bucket(t, k)] = <<e>> \o @, !.size = @ + 1]

Inserted(t, k, v) == Prepended(IF NeedsResize(t) THEN ht_resize(t) ELSE t, k, v)

\* What ht_set makes of the table when every allocation succeeds.
Stored(t, k, v) == IF Find(t, k) # 0 THEN Updated(t, k, v) ELSE Inserted(t, k, v)

\* What it may leave when one fails, of the value, the new buckets or the
\* entry: in the last case the table may already have been resized.
NotStored(t, k) ==
  {t} \cup (IF Find(t, k) = 0 /\ NeedsResize(t) THEN {ht_resize(t)} ELSE {})

\* Mutant of Removed: size is not lowered.
RemovedNoCount(t, k) == [t EXCEPT !.pool[Bucket(t, k)] = RemoveAt(@, Find(t, k))]

Removed(t, k) ==
  [t EXCEPT !.pool[Bucket(t, k)] = RemoveAt(@, Find(t, k)), !.size = @ - 1]

-----------------------------------------------------------------------------
(* The calls                                                               *)

Ready == table # NULL /\ loading = NULL

ht_create ==
  /\ table = NULL
  /\ table' \in {NULL} \cup {NewTable(h) : h \in Hashes}
  /\ UNCHANGED <<file, loading, failed, ret>>

ht_set_error(k) ==
  /\ Ready /\ SearchEnds(table)
  /\ table' \in NotStored(table, k)
  /\ ret' = 0
  /\ UNCHANGED <<file, loading, failed>>

ht_set(k, v) ==
  /\ Ready /\ SearchEnds(table)
  /\ table' = Stored(table, k, v)
  /\ ret' = 1
  /\ UNCHANGED <<file, loading, failed>>

ht_get(k) ==
  /\ Ready
  /\ ret' = Lookup(table, k)
  /\ UNCHANGED <<table, file, loading, failed>>

ht_delete(k) ==
  /\ Ready
  /\ IF Find(table, k) = 0
     THEN ret' = 0 /\ UNCHANGED table
     ELSE ret' = 1 /\ table' = Removed(table, k)
  /\ UNCHANGED <<file, loading, failed>>

Records(n) ==
  LET es == Entries(table)
  IN  [i \in 1..n |-> <<es[i].key, es[i].value>>]

\* Mutant of AllRecords: only the head of each chain is saved.
AllRecordsHeads ==
  LET heads == Visited(table, {p \in Places(table) : p[2] = 1})
  IN  [i \in DOMAIN heads |-> <<heads[i].key, heads[i].value>>]

AllRecords == Records(Len(Entries(table)))

\* The results of fwrite are ignored: any prefix may have reached the disk.
Written == {Records(n) : n \in 0..Len(Entries(table))}

\* The body of ht_snapshot; a file that cannot be opened stays as it was.
Save ==
  \/ file' = AllRecords /\ failed' = FALSE
  \/ file' \in {file} \cup Written /\ failed' = TRUE

ht_snapshot ==
  /\ Ready
  /\ Save
  /\ UNCHANGED <<table, loading, ret>>

\* With or without a path to save to.
ht_destroy ==
  /\ Ready
  /\ Save \/ UNCHANGED <<file, failed>>
  /\ table' = NULL
  /\ UNCHANGED <<loading, ret>>

\* A table that is not empty, or a file that fopen cannot open.
ht_load_refused ==
  /\ Ready
  /\ ret' = 0
  /\ UNCHANGED <<table, file, loading, failed>>

ht_load ==
  /\ Ready
  /\ table.size = 0 /\ file # NULL
  /\ loading' = [read |-> 0, missed |-> FALSE]
  /\ UNCHANGED <<table, file, failed, ret>>

\* The result of ht_set is ignored: a record that cannot be stored is passed
\* over, and later ones may be stored.
ht_load_record ==
  /\ loading # NULL /\ SearchEnds(table)
  /\ loading.read < Len(file)
  /\ LET r == file[loading.read + 1]
     IN  \/ /\ table' = Stored(table, r[1], r[2])
            /\ loading' = [loading EXCEPT !.read = @ + 1]
         \/ /\ table' \in NotStored(table, r[1])
            /\ loading' = [read |-> loading.read + 1, missed |-> TRUE]
  /\ UNCHANGED <<file, failed, ret>>

\* At the end of the file, or earlier when malloc fails or a length is bad:
\* the rest is lost and ht_load returns 1 all the same.
ht_load_clean ==
  /\ loading # NULL
  /\ failed' = (loading.missed \/ loading.read < Len(file))
  /\ loading' = NULL
  /\ ret' = 1
  /\ UNCHANGED <<table, file>>

Init ==
  /\ table = NULL /\ file = NULL /\ loading = NULL
  /\ failed = FALSE /\ ret = NULL

Next ==
  \/ ht_create \/ ht_snapshot \/ ht_destroy
  \/ ht_load_refused \/ ht_load \/ ht_load_record \/ ht_load_clean
  \/ \E k \in Keys : \/ ht_set_error(k) \/ ht_get(k) \/ ht_delete(k)
                     \/ \E v \in Values : ht_set(k, v)

Spec == Init /\ [][Next]_vars

-----------------------------------------------------------------------------
(* Properties.                                                             *)

\* There are as many buckets as capacity says, and ht_load is within its file.
TypeOK ==
  /\ table # NULL => /\ table \in Hash_Table
                     /\ table.capacity > 0 /\ Len(table.pool) = table.capacity
  /\ file # NULL => file \in Seq(Keys \X Values)
  /\ loading # NULL => /\ table # NULL /\ file # NULL
                       /\ loading \in Loading /\ loading.read <= Len(file)
  /\ failed \in BOOLEAN
  /\ ret \in Values \cup {NULL, 0, 1}

\* The table is a map to its callers, who index by key and never see the
\* buckets: a resize moves nothing out of reach, a failed ht_set says 0 and
\* changes no value, and ht_delete removes one key only.  A snapshot has all
\* entries and a load yields all that the file has, as hash_table.h:69 and 126
\* say, if nothing fails; otherwise a part, any records having been passed
\* over, with no value changed, and ht_load returns 1 all the same
\* (hash_table.c:285).
MapOf(t) == [k \in {j \in Keys : Lookup(t, j) # NULL} |-> Lookup(t, k)]

FileMap(f) == [k \in {f[i][1] : i \in DOMAIN f} |->
                 (CHOOSE r \in {f[i] : i \in DOMAIN f} : r[1] = k)[2]]

\* While ht_load runs, what it has stored so far is not yet the map.
MapSeen ==
  IF table = NULL THEN NULL
  ELSE IF loading # NULL THEN [k \in {} |-> NULL]
  ELSE MapOf(table)

FileSeen == IF file = NULL THEN NULL ELSE FileMap(file)

M == INSTANCE FiniteMap WITH map <- MapSeen, saved <- FileSeen

ImplementsMap == M!Spec

\* No key is chained twice, where ht_delete would uncover an old value, and
\* size, which the rate limiter recycles by, is the number of entries.
EntriesCounted ==
  table # NULL =>
    LET es == Entries(table)
    IN  /\ \A i, j \in DOMAIN es : es[i].key = es[j].key => i = j
        /\ table.size = Len(es)

\* Every entry is in the bucket of its hash, under the table's own seed.
EntriesPlaced ==
  table # NULL =>
    \A p \in Places(table) :
      LET e == At(table, p)
      IN  e.hash = table.hash[e.key] /\ Index(e.hash, table.capacity) = p[1]

Prime(n) == n > 1 /\ \A d \in 2..(n - 1) : n % d # 0

\* README.md:127: the capacity after c is the next prime >= 2 * c.  It is so
\* but for a capacity of 1, where the search among odd numbers passes over 2
\* (hash_table.c:376).
GrowsTo(c) ==
  LET p == next_prime(2 * c)
  IN  IF c = 1 THEN p = 3
      ELSE p >= 2 * c /\ Prime(p) /\ \A m \in (2 * c)..(p - 1) : ~Prime(m)

\* hash_table.c:90: the load factor stays below one, whichever allocations
\* failed before.
LoadBelowOne ==
  table # NULL => table.size < table.capacity
=============================================================================
