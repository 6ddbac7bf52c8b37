-------------------------- MODULE HashTableProofs --------------------------
(***************************************************************************)
(* Proofs about HashTable, for any keys, values, hash functions and first  *)
(* capacity, about the search for prime capacities, and the refinement of  *)
(* FiniteMap.                                                              *)
(***************************************************************************)
EXTENDS HashTable, FiniteSetTheorems, SequenceTheorems, NaturalsInduction, TLAPS

-----------------------------------------------------------------------------
(* The invariant                                                           *)

\* The keys of a table.
Keyed(t) == {At(t, p).key : p \in Places(t)}

\* A table as the calls leave it: each entry in the bucket of its hash, each
\* key at one place, and size their number.
Placed(t) ==
  \A p \in Places(t) : /\ At(t, p).hash = t.hash[At(t, p).key]
                       /\ Index(At(t, p).hash, t.capacity) = p[1]

KeyedOnce(t) ==
  \A p, q \in Places(t) : At(t, p).key = At(t, q).key => p = q

Counted(t) == IsFiniteSet(Keyed(t)) /\ t.size = Cardinality(Keyed(t))

TableOK(t) ==
  /\ t \in Hash_Table /\ t.capacity > 0 /\ Len(t.pool) = t.capacity
  /\ Placed(t) /\ KeyedOnce(t) /\ Counted(t)

\* A snapshot has one record of a key.
FileOK(f) ==
  /\ f \in Seq(Keys \X Values)
  /\ \A i, j \in 1..Len(f) : f[i][1] = f[j][1] => i = j

\* What a running ht_load has stored is in the file, and what it has read is
\* stored unless ht_set has failed.
LoadOK ==
  /\ table # NULL /\ file # NULL /\ loading \in Loading /\ loading.read <= Len(file)
  /\ \A k \in Keyed(table) : /\ k \in DOMAIN FileMap(file)
                             /\ Lookup(table, k) = FileMap(file)[k]
  /\ ~loading.missed => \A i \in 1..loading.read : file[i][1] \in Keyed(table)

Inv ==
  /\ table # NULL => TableOK(table) /\ table.size < table.capacity
  /\ file # NULL => FileOK(file)
  /\ loading # NULL => LoadOK
  /\ failed \in BOOLEAN
  /\ ret \in Values \cup {NULL, 0, 1}
-----------------------------------------------------------------------------
(* Numbers and capacities.                                                 *)

\* A set of numbers has a least one, which Min finds.
LEMMA MinIsLeast ==
  ASSUME NEW S \in SUBSET Nat, S # {}
  PROVE  Min(S) \in S /\ \A m \in S : Min(S) <= m
<1> DEFINE R == {p \in Nat \X Nat : p[1] < p[2]}
<1>1. IsWellFoundedOn(R, Nat)
  BY NatLessThanWellFounded DEF OpToRel
<1>2. \E n \in S : \A m \in S : ~(<<m, n>> \in R)
  BY <1>1, WFMin
<1>3. PICK n \in S : \A m \in S : ~(<<m, n>> \in R)
  BY <1>2
<1>4. ASSUME NEW m \in S PROVE n <= m
  <2>1. ~(<<m, n>> \in R)
    BY <1>3
  <2>2. <<m, n>> \in Nat \X Nat /\ <<m, n>>[1] = m /\ <<m, n>>[2] = n
    OBVIOUS
  <2>3. ~(m < n)
    BY <2>1, <2>2
  <2> QED
    BY <2>3
<1> QED
  BY <1>4 DEF Min

\* A new capacity is at least what was asked for (next_prime).
LEMMA NextPrimeGrows ==
  ASSUME NEW n \in Nat, n >= 2, Candidates(n) # {}
  PROVE  next_prime(n) \in Nat /\ next_prime(n) >= n
<1>1. Candidates(n) \subseteq n..(2 * n)
  BY DEF Candidates
<1>2. Candidates(n) \in SUBSET Nat
  BY <1>1
<1>3. Min(Candidates(n)) \in Candidates(n)
  BY <1>2, MinIsLeast
<1> QED
  BY <1>1, <1>3 DEF next_prime

LEMMA IndexInRange ==
  ASSUME NEW h \in Nat, NEW c \in Nat, c > 0
  PROVE  Index(h, c) \in 1..c
BY DEF Index
-----------------------------------------------------------------------------
(* Primes.                                                                 *)

LEMMA Factor ==
  ASSUME NEW n \in Nat, NEW d \in Nat, d > 0, n % d = 0
  PROVE  \E q \in Nat : n = d * q
OBVIOUS

LEMMA Multiple ==
  ASSUME NEW d \in Nat, d > 0, NEW q \in Nat
  PROVE  (d * q) % d = 0
OBVIOUS

LEMMA Transitive ==
  ASSUME NEW n \in Nat, NEW d \in Nat, NEW c \in Nat, c > 0, d > 0, n % d = 0, d % c = 0
  PROVE  n % c = 0
<1>1. PICK q \in Nat : n = d * q
  BY Factor
<1>2. PICK e \in Nat : d = c * e
  BY Factor
<1>3. n = c * (e * q) /\ e * q \in Nat
  BY <1>1, <1>2
<1> QED
  BY <1>3, Multiple

LEMMA ProductGrows ==
  ASSUME NEW a \in Nat, NEW b \in Nat, NEW c \in Nat, NEW d \in Nat, a <= c, b <= d
  PROVE  a * b <= c * d
<1>1. PICK x \in Nat, y \in Nat : c = a + x /\ d = b + y
  <2>1. c - a \in Nat /\ d - b \in Nat /\ c = a + (c - a) /\ d = b + (d - b)
    OBVIOUS
  <2> QED
    BY <2>1
<1>2. c * d = a * b + (a * y + x * b + x * y)
  BY <1>1
<1>3. a * y \in Nat /\ x * b \in Nat /\ x * y \in Nat /\ a * b \in Nat
  OBVIOUS
<1> QED
  BY <1>2, <1>3

\* A number that is not prime has a divisor up to its root.
LEMMA SmallDivisor ==
  ASSUME NEW n \in Nat, n > 1, ~Prime(n)
  PROVE  \E d \in 2..(n - 1) : n % d = 0 /\ d * d <= n
<1>1. PICK d \in 2..(n - 1) : n % d = 0
  BY DEF Prime
<1>2. PICK q \in Nat : n = d * q
  BY <1>1, Factor
<1>3. q # 0 /\ q # 1
  BY <1>1, <1>2
<1>4. CASE d <= q
  <2>1. d * d <= d * q
    BY <1>4, ProductGrows
  <2> QED
    BY <2>1, <1>1, <1>2
<1>5. CASE q < d
  <2>1. q * q <= d * q
    BY <1>5, ProductGrows
  <2>2. q \in 2..(n - 1)
    BY <1>1, <1>2, <1>3, <1>5, ProductGrows
  <2>3. n % q = 0
    <3>1. n = q * d
      BY <1>2
    <3> QED
      BY <3>1, <1>3, Multiple
  <2> QED
    BY <2>1, <2>2, <2>3, <1>2
<1> QED
  BY <1>4, <1>5

\* is_prime, which tries 2, 3 and then 6k - 1 and 6k + 1 up to the root only,
\* says what a prime is, for every number (hash_table.c:362).
THEOREM IsPrimeCorrect == \A n \in Nat : is_prime(n) <=> Prime(n)
<1> SUFFICES ASSUME NEW n \in Nat PROVE is_prime(n) <=> Prime(n)
  OBVIOUS
<1> DEFINE tried == {5 + 6 * k : k \in 0..n}
<1>1. CASE n < 2
  BY <1>1 DEF is_prime, Prime
<1>2. CASE n \in {2, 3}
  <2>1. is_prime(n)
    BY <1>2 DEF is_prime
  <2>2. ASSUME NEW d \in 2..(n - 1) PROVE n % d # 0
    BY <1>2
  <2> QED
    BY <2>1, <2>2, <1>2 DEF Prime
<1>3. CASE n > 3
  <2>1. ASSUME Prime(n) PROVE is_prime(n)
    <3>1. ASSUME NEW d \in 2..(n - 1) PROVE n % d # 0
      BY <2>1 DEF Prime
    <3>2. n % 2 # 0 /\ n % 3 # 0
      BY <3>1, <1>3
    <3>3. ASSUME NEW i \in tried, i * i <= n PROVE n % i # 0 /\ n % (i + 2) # 0
      <4>1. i \in Nat /\ i >= 5
        OBVIOUS
      <4>2. 5 * i <= i * i
        BY <4>1, ProductGrows
      <4>3. i \in 2..(n - 1) /\ i + 2 \in 2..(n - 1)
        BY <4>1, <4>2, <3>3
      <4> QED
        BY <4>3, <3>1
    <3> QED
      BY <3>2, <3>3, <1>3 DEF is_prime
  <2>2. ASSUME ~Prime(n), is_prime(n) PROVE FALSE
    <3>1. PICK d \in 2..(n - 1) : n % d = 0 /\ d * d <= n
      BY <2>2, <1>3, SmallDivisor
    <3>2. n % 2 # 0 /\ n % 3 # 0
      BY <2>2, <1>3 DEF is_prime
    <3>3. ASSUME NEW i \in tried, i * i <= n PROVE n % i # 0 /\ n % (i + 2) # 0
      BY <2>2, <1>3, <3>3 DEF is_prime
    <3>4. d \in Nat /\ d >= 2
      OBVIOUS
    <3>5. d % 2 # 0 /\ d % 3 # 0
      <4>1. ASSUME NEW c \in {2, 3}, d % c = 0 PROVE FALSE
        <5>1. c \in Nat /\ c > 0
          OBVIOUS
        <5>2. d \in Nat /\ d > 0 /\ n % d = 0 /\ d % c = 0
          BY <4>1, <3>1, <3>4
        <5> HIDE DEF tried
        <5>3. n % c = 0
          BY <5>1, <5>2, Transitive, Zenon
        <5> QED
          BY <5>3, <3>2
      <4> QED
        BY <4>1
    <3>6. PICK a \in Nat : d = 6 * a + (d % 6)
      <4>1. d = 6 * (d \div 6) + (d % 6) /\ d \div 6 \in Nat
        BY <3>4
      <4> QED
        BY <4>1
    <3>7. d % 6 = 1 \/ d % 6 = 5
      BY <3>4, <3>5
    <3>8. d <= d * d
      BY <3>4, ProductGrows
    <3>9. CASE d % 6 = 5
      <4>1. a \in 0..n /\ d = 5 + 6 * a
        BY <3>1, <3>6, <3>8, <3>9
      <4>2. d \in tried
        BY <4>1
      <4> QED
        BY <4>2, <3>1, <3>3
    <3>10. CASE d % 6 = 1
      <4>1. a # 0
        BY <3>4, <3>6, <3>10
      <4> DEFINE i == d - 2
      <4>2. a - 1 \in 0..n /\ i = 5 + 6 * (a - 1) /\ i \in Nat
        BY <3>1, <3>6, <3>8, <3>10, <4>1
      <4>3. i \in tried
        BY <4>2
      <4>4. i * i <= d * d
        BY <4>2, ProductGrows
      <4>5. i * i \in Nat /\ d * d \in Nat
        BY <4>2
      <4>6. i * i <= n /\ i + 2 = d
        BY <4>2, <4>4, <4>5, <3>1
      <4> HIDE DEF i, tried
      <4>7. n % (i + 2) # 0
        BY <4>3, <4>6, <3>3
      <4> QED
        BY <4>6, <4>7, <3>1
    <3> QED
      BY <3>7, <3>9, <3>10
  <2> QED
    BY <2>1, <2>2
<1> QED
  BY <1>1, <1>2, <1>3

\* A table that grows gets the next prime >= twice its capacity, but for 3
\* instead of 2 from a capacity of 1; the one hypothesis is that there is an
\* odd prime to find (next_prime).
THEOREM NextPrimeIsLeast ==
  ASSUME NEW c \in Nat \ {0}, Candidates(2 * c) # {}
  PROVE  GrowsTo(c)
<1> DEFINE n == 2 * c
           p == next_prime(n)
<1>1. n \in Nat /\ n >= 2 /\ n % 2 = 0
  OBVIOUS
<1>2. Candidates(n) \in SUBSET Nat
  BY <1>1 DEF Candidates
<1>3. p = Min(Candidates(n))
  BY <1>1 DEF next_prime
<1>4. p \in Candidates(n) /\ \A m \in Candidates(n) : p <= m
  BY <1>2, <1>3, MinIsLeast
<1> HIDE DEF p, n
<1>5. p \in n..(2 * n) /\ p % 2 = 1 /\ is_prime(p)
  BY <1>4 DEF Candidates
<1>6. p \in Nat /\ p > n /\ p <= 2 * n
  BY <1>1, <1>5
<1>7. Prime(p)
  BY <1>5, <1>6, IsPrimeCorrect
<1>8. ASSUME c # 1, NEW m \in n..(p - 1), Prime(m) PROVE FALSE
  <2>1. m \in Nat /\ m > 2 /\ m \in n..(2 * n) /\ m < p
    <3>1. n > 2
      BY <1>8 DEF n
    <3> QED
      BY <1>1, <1>6, <3>1
  <2>2. CASE m % 2 = 0
    BY <2>1, <2>2, <1>8 DEF Prime
  <2>3. CASE m % 2 = 1
    <3>1. is_prime(m)
      BY <2>1, <1>8, IsPrimeCorrect
    <3>2. m \in Candidates(n)
      BY <2>1, <2>3, <3>1 DEF Candidates
    <3> QED
      BY <3>2, <2>1, <1>4, <1>6
  <2> QED
    BY <2>1, <2>2, <2>3
<1>9. ASSUME c = 1 PROVE p = 3
  <2>1. n = 2
    BY <1>9 DEF n
  <2> QED
    BY <2>1, <1>5, <1>6
<1> QED
  BY <1>6, <1>7, <1>8, <1>9 DEF GrowsTo, p, n

-----------------------------------------------------------------------------
(* Places and lookup.                                                      *)

LEMMA PlacesAre ==
  ASSUME NEW t, NEW p
  PROVE  p \in Places(t) <=> /\ p = <<p[1], p[2]>>
                             /\ p[1] \in DOMAIN t.pool
                             /\ p[2] \in DOMAIN t.pool[p[1]]
BY DEF Places

LEMMA BucketExists ==
  ASSUME NEW t, TableOK(t), NEW k \in Keys
  PROVE  /\ t.hash[k] \in Nat
         /\ Bucket(t, k) \in 1..t.capacity
         /\ Bucket(t, k) \in DOMAIN t.pool
         /\ t.pool[Bucket(t, k)] \in Seq(Entry)
<1>1. t.hash[k] \in Nat /\ t.capacity \in Nat /\ t.pool \in Seq(Seq(Entry))
  BY HashAssumption DEF TableOK, Hash_Table
<1>2. Bucket(t, k) \in 1..t.capacity
  BY <1>1, IndexInRange DEF TableOK, Bucket
<1>3. DOMAIN t.pool = 1..t.capacity
  BY <1>1 DEF TableOK
<1> QED
  BY <1>1, <1>2, <1>3

LEMMA EntryAtPlace ==
  ASSUME NEW t, TableOK(t), NEW p \in Places(t)
  PROVE  /\ At(t, p) \in Entry /\ At(t, p).key \in Keys /\ At(t, p).hash \in Nat
         /\ p[1] \in 1..t.capacity /\ p[2] \in Nat \ {0}
         /\ p[1] = Bucket(t, At(t, p).key)
         /\ At(t, p).key \in Keyed(t)
<1>1. t.pool \in Seq(Seq(Entry)) /\ Len(t.pool) = t.capacity
  BY DEF TableOK, Hash_Table
<1>2. p[1] \in DOMAIN t.pool /\ p[2] \in DOMAIN t.pool[p[1]]
  BY PlacesAre
<1>3. p[1] \in 1..t.capacity /\ t.pool[p[1]] \in Seq(Entry)
  BY <1>1, <1>2
<1>4. p[2] \in Nat \ {0} /\ At(t, p) \in Entry
  BY <1>2, <1>3 DEF At
<1>5. At(t, p).key \in Keys /\ At(t, p).hash \in Nat
  BY <1>4 DEF Entry
<1>6. p[1] = Bucket(t, At(t, p).key)
  BY DEF TableOK, Placed, Bucket
<1> QED
  BY <1>3, <1>4, <1>5, <1>6 DEF Keyed

\* The search of a chain finds the key wherever it is in the table.
LEMMA FindIs ==
  ASSUME NEW t, TableOK(t), NEW k \in Keys
  PROVE  /\ Find(t, k) = 0 => k \notin Keyed(t)
         /\ Find(t, k) # 0 => /\ <<Bucket(t, k), Find(t, k)>> \in Places(t)
                              /\ At(t, <<Bucket(t, k), Find(t, k)>>).key = k
                              /\ k \in Keyed(t)
<1> DEFINE b == Bucket(t, k)
           s == t.pool[b]
           I == {i \in 1..Len(s) : s[i].key = k}
<1>1. b \in DOMAIN t.pool /\ s \in Seq(Entry)
  BY BucketExists
<1>2. Find(t, k) = IF I # {} THEN Min(I) ELSE 0
  BY DEF Find, SelectInSeq
<1>3. I \in SUBSET Nat
  BY <1>1
<1>4. CASE I = {}
  <2>1. ASSUME NEW p \in Places(t), At(t, p).key = k PROVE FALSE
    <3>1. p[1] = b /\ p[2] \in DOMAIN t.pool[p[1]]
      BY <2>1, EntryAtPlace, PlacesAre
    <3>2. p[2] \in 1..Len(s) /\ s[p[2]].key = k
      BY <3>1, <2>1, <1>1 DEF At
    <3> QED
      BY <3>2, <1>4
  <2> QED
    BY <2>1, <1>2, <1>4 DEF Keyed
<1>5. CASE I # {}
  <2>1. Find(t, k) \in I
    BY <1>2, <1>3, <1>5, MinIsLeast
  <2>2. Find(t, k) \in 1..Len(s) /\ s[Find(t, k)].key = k
    BY <2>1
  <2> DEFINE q == <<b, Find(t, k)>>
  <2>3. q[1] = b /\ q[2] = Find(t, k) /\ q = <<q[1], q[2]>>
    OBVIOUS
  <2>4. q \in Places(t)
    <3>1. Find(t, k) \in DOMAIN s
      BY <2>2, <1>1
    <3> QED
      BY <3>1, <1>1, <2>3, PlacesAre
  <2>5. At(t, q).key = k
    BY <2>2, <2>3 DEF At
  <2>6. k \in Keyed(t)
    BY <2>4, <2>5 DEF Keyed
  <2>7. Find(t, k) # 0
    BY <2>2
  <2> QED
    BY <2>4, <2>5, <2>6, <2>7
<1> QED
  BY <1>4, <1>5

\* What ht_get copies is the value of the one entry that has the key.
LEMMA LookupIs ==
  ASSUME NEW t, TableOK(t)
  PROVE  /\ \A p \in Places(t) : Lookup(t, At(t, p).key) = At(t, p).value
         /\ \A k \in Keys : k \notin Keyed(t) => Lookup(t, k) = NULL
         /\ \A k \in Keyed(t) : k \in Keys /\ Lookup(t, k) \in Values
<1>1. ASSUME NEW p \in Places(t)
      PROVE  Lookup(t, At(t, p).key) = At(t, p).value
  <2> DEFINE k == At(t, p).key
             q == <<Bucket(t, k), Find(t, k)>>
  <2>1. k \in Keys /\ k \in Keyed(t)
    BY EntryAtPlace
  <2>2. Find(t, k) # 0 /\ q \in Places(t) /\ At(t, q).key = k
    BY <2>1, FindIs
  <2>3. q = p
    BY <2>2 DEF TableOK, KeyedOnce
  <2>4. Lookup(t, k) = At(t, q).value
    BY <2>2 DEF Lookup, At
  <2> QED
    BY <2>3, <2>4
<1>2. ASSUME NEW k \in Keys, k \notin Keyed(t) PROVE Lookup(t, k) = NULL
  BY <1>2, FindIs DEF Lookup
<1>3. ASSUME NEW k \in Keyed(t) PROVE k \in Keys /\ Lookup(t, k) \in Values
  <2>1. PICK p \in Places(t) : k = At(t, p).key
    BY DEF Keyed
  <2>2. At(t, p) \in Entry
    BY EntryAtPlace
  <2> QED
    BY <1>1, <2>1, <2>2 DEF Entry
<1> QED
  BY <1>1, <1>2, <1>3

\* The map that a table stands for.
LEMMA MapIs ==
  ASSUME NEW t, TableOK(t)
  PROVE  /\ Keyed(t) \in SUBSET Keys
         /\ MapOf(t) \in [Keyed(t) -> Values]
         /\ \A k \in Keyed(t) : MapOf(t)[k] = Lookup(t, k)
         /\ MapOf(t) # NULL
<1>1. {j \in Keys : Lookup(t, j) # NULL} = Keyed(t)
  BY LookupIs, NullAssumption
<1>2. MapOf(t) = [k \in Keyed(t) |-> Lookup(t, k)]
  BY <1>1 DEF MapOf
<1>3. Keyed(t) \in SUBSET Keys /\ MapOf(t) \in [Keyed(t) -> Values]
  BY <1>2, LookupIs
<1> QED
  BY <1>2, <1>3, NullAssumption

\* Two tables with the same keys and the same values under them.
LEMMA SameMap ==
  ASSUME NEW t, TableOK(t), NEW u, TableOK(u), Keyed(u) = Keyed(t),
         \A k \in Keyed(t) : Lookup(u, k) = Lookup(t, k)
  PROVE  MapOf(u) = MapOf(t)
BY MapIs

-----------------------------------------------------------------------------
(* The order of a visit.                                                   *)

LEMMA PlacesOfNumbers ==
  ASSUME NEW t, TableOK(t)
  PROVE  Places(t) \in SUBSET (Nat \X Nat)
<1>1. ASSUME NEW p \in Places(t) PROVE p \in Nat \X Nat
  <2>1. p = <<p[1], p[2]>>
    BY PlacesAre
  <2>2. p[1] \in 1..t.capacity /\ t.capacity \in Nat /\ p[2] \in Nat
    BY EntryAtPlace DEF TableOK, Hash_Table
  <2> QED
    BY <2>1, <2>2
<1> QED
  BY <1>1

\* A table has finitely many entries.
LEMMA PlacesFinite ==
  ASSUME NEW t, TableOK(t)
  PROVE  IsFiniteSet(Places(t)) /\ Cardinality(Places(t)) = Cardinality(Keyed(t))
<1> DEFINE f == [p \in Places(t) |-> At(t, p).key]
<1>1. f \in [Places(t) -> Keyed(t)]
  BY DEF Keyed
<1>2. f \in Injection(Places(t), Keyed(t))
  BY <1>1 DEF TableOK, KeyedOnce, Injection, IsInjective
<1>3. f \in Surjection(Places(t), Keyed(t))
  BY <1>1 DEF Surjection, Keyed
<1> QED
  BY <1>2, <1>3, FS_Injection DEF TableOK, Counted

\* A finite set of places has an order, which InOrder finds: the rank of a
\* place is the number of those that are not after it.
LEMMA InOrderIs ==
  ASSUME NEW S \in SUBSET (Nat \X Nat), IsFiniteSet(S)
  PROVE  /\ Cardinality(S) \in Nat
         /\ InOrder(S) \in [1..Cardinality(S) -> S]
         /\ \A i, j \in 1..Cardinality(S) : InOrder(S)[i] = InOrder(S)[j] => i = j
         /\ \A p \in S : \E i \in 1..Cardinality(S) : InOrder(S)[i] = p
<1> DEFINE n == Cardinality(S)
           UpTo(p) == {q \in S : ~Before(p, q)}
           rank == [p \in S |-> Cardinality(UpTo(p))]
<1>1. n \in Nat
  BY FS_CardinalityType
<1>2. ASSUME NEW p \in S
      PROVE  IsFiniteSet(UpTo(p)) /\ rank[p] \in 1..n
  <2>1. UpTo(p) \in SUBSET S
    OBVIOUS
  <2>2. IsFiniteSet(UpTo(p)) /\ Cardinality(UpTo(p)) <= n
    BY <2>1, FS_Subset
  <2>3. p \in UpTo(p)
    BY DEF Before
  <2>4. Cardinality(UpTo(p)) \in Nat /\ Cardinality(UpTo(p)) # 0
    BY <2>2, <2>3, FS_CardinalityType, FS_EmptySet
  <2> QED
    BY <2>2, <2>4, <1>1
<1>3. ASSUME NEW p \in S, NEW q \in S, Before(p, q)
      PROVE  rank[p] < rank[q]
  <2>1. UpTo(p) \in SUBSET UpTo(q)
    BY <1>3 DEF Before
  <2>2. q \in UpTo(q) /\ q \notin UpTo(p)
    BY <1>3 DEF Before
  <2>3. UpTo(p) # UpTo(q)
    BY <2>2
  <2>4. IsFiniteSet(UpTo(q))
    BY <1>2
  <2> HIDE DEF UpTo
  <2>5. Cardinality(UpTo(p)) <= Cardinality(UpTo(q)) /\ Cardinality(UpTo(p)) # Cardinality(UpTo(q))
    BY <2>1, <2>3, <2>4, FS_Subset
  <2>6. rank[p] \in Nat /\ rank[q] \in Nat
    BY <1>2, <1>1
  <2> QED
    BY <2>5, <2>6
<1>4. ASSUME NEW p \in S, NEW q \in S, p # q
      PROVE  Before(p, q) \/ Before(q, p)
  <2>1. p \in Nat \X Nat /\ q \in Nat \X Nat
    OBVIOUS
  <2>2. p[1] # q[1] \/ p[2] # q[2]
    BY <2>1, <1>4
  <2> QED
    BY <2>1, <2>2 DEF Before
<1>5. rank \in [S -> 1..n]
  BY <1>2
<1>6. ASSUME NEW p \in S, NEW q \in S, rank[p] = rank[q] PROVE p = q
  <2>1. rank[p] \in Nat /\ rank[q] \in Nat
    BY <1>2, <1>1
  <2> QED
    BY <2>1, <1>3, <1>4, <1>6
<1> HIDE DEF rank
<1>7. rank \in Injection(S, 1..n)
  BY <1>5, <1>6 DEF Injection, IsInjective
<1>8. IsFiniteSet(1..n) /\ Cardinality(1..n) = n
  BY <1>1, FS_Interval
<1>9. rank \in Surjection(S, 1..n)
  BY <1>7, <1>8, FS_Injection
<1> DEFINE f == [i \in 1..n |-> CHOOSE p \in S : rank[p] = i]
<1>10. ASSUME NEW i \in 1..n PROVE f[i] \in S /\ rank[f[i]] = i
  <2>1. \E p \in S : rank[p] = i
    BY <1>9 DEF Surjection
  <2> QED
    BY <2>1
<1>11. f \in [1..n -> S]
  BY <1>10
<1> HIDE DEF f
<1>12. ASSUME NEW i \in 1..n, NEW j \in 1..n, i < j PROVE Before(f[i], f[j])
  <2>1. f[i] # f[j]
    BY <1>10, <1>12
  <2>2. ~Before(f[j], f[i])
    BY <1>10, <1>12, <1>3
  <2> QED
    BY <2>1, <2>2, <1>4, <1>10
<1> DEFINE g == InOrder(S)
<1>13. g \in [1..n -> S] /\ \A i, j \in 1..n : i < j => Before(g[i], g[j])
  BY <1>11, <1>12 DEF InOrder
<1> HIDE DEF g
<1>14. ASSUME NEW i \in 1..n, NEW j \in 1..n, g[i] = g[j] PROVE i = j
  <2>1. ASSUME NEW a \in 1..n, NEW b \in 1..n, a < b PROVE g[a] # g[b]
    <3>1. Before(g[a], g[b])
      BY <1>13, <2>1
    <3>2. g[a] \in Nat \X Nat
      BY <1>13
    <3> QED
      BY <3>1, <3>2 DEF Before
  <2> QED
    BY <2>1, <1>14
<1>15. g \in Injection(1..n, S)
  BY <1>13, <1>14 DEF Injection, IsInjective
<1>16. g \in Surjection(1..n, S)
  BY <1>15, <1>8, FS_Injection
<1> QED
  BY <1>1, <1>13, <1>14, <1>16 DEF g, Surjection

-----------------------------------------------------------------------------
(* Entries that move.                                                      *)

\* m takes the places of u, one to one, to the places S of t, where the same
\* entries are.
Moves(m, u, t, S) ==
  /\ m \in [Places(u) -> S]
  /\ \A p, q \in Places(u) : m[p] = m[q] => p = q
  /\ \A x \in S : \E p \in Places(u) : m[p] = x
  /\ \A p \in Places(u) : /\ At(u, p) = At(t, m[p])
                           /\ Index(At(u, p).hash, u.capacity) = p[1]

\* Then u is well formed and agrees with t on the keys at S.
LEMMA Relocated ==
  ASSUME NEW t, TableOK(t), NEW u \in Hash_Table,
         u.capacity > 0, Len(u.pool) = u.capacity, u.hash = t.hash,
         NEW S \in SUBSET Places(t), NEW m, Moves(m, u, t, S),
         NEW K, K = {At(t, p).key : p \in S},
         IsFiniteSet(K), u.size = Cardinality(K)
  PROVE  /\ TableOK(u) /\ Keyed(u) = K
         /\ \A k \in Keyed(u) : Lookup(u, k) = Lookup(t, k)
<1> USE DEF Moves
<1>1. Keyed(u) = K
  BY DEF Keyed
<1>2. Placed(u)
  <2>1. ASSUME NEW p \in Places(u)
        PROVE  At(u, p).hash = u.hash[At(u, p).key]
    <3>1. m[p] \in Places(t)
      OBVIOUS
    <3>2. At(t, m[p]).hash = t.hash[At(t, m[p]).key]
      BY <3>1 DEF TableOK, Placed
    <3> QED
      BY <3>2
  <2> QED
    BY <2>1 DEF Placed
<1>3. KeyedOnce(u)
  <2>1. ASSUME NEW p \in Places(u), NEW q \in Places(u), At(u, p).key = At(u, q).key
        PROVE  p = q
    <3>1. m[p] \in Places(t) /\ m[q] \in Places(t)
      OBVIOUS
    <3>2. At(t, m[p]).key = At(t, m[q]).key
      BY <2>1
    <3>3. m[p] = m[q]
      BY <3>1, <3>2 DEF TableOK, KeyedOnce
    <3> QED
      BY <3>3
  <2> QED
    BY <2>1 DEF KeyedOnce
<1>4. TableOK(u)
  BY <1>1, <1>2, <1>3 DEF TableOK, Counted
<1>5. ASSUME NEW k \in Keyed(u) PROVE Lookup(u, k) = Lookup(t, k)
  <2>1. PICK p \in Places(u) : k = At(u, p).key
    BY DEF Keyed
  <2>2. m[p] \in Places(t) /\ At(u, p) = At(t, m[p])
    OBVIOUS
  <2>3. Lookup(u, At(u, p).key) = At(u, p).value
    BY <1>4, LookupIs
  <2>4. Lookup(t, At(t, m[p]).key) = At(t, m[p]).value
    BY <2>2, LookupIs
  <2> QED
    BY <2>1, <2>2, <2>3, <2>4
<1> QED
  BY <1>1, <1>4, <1>5

\* The entries at some places, in the order of a visit.
LEMMA VisitedIs ==
  ASSUME NEW t, TableOK(t), NEW S \in SUBSET Places(t)
  PROVE  /\ IsFiniteSet(S) /\ Cardinality(S) \in Nat
         /\ InOrder(S) \in [1..Cardinality(S) -> S]
         /\ \A i, j \in 1..Cardinality(S) : InOrder(S)[i] = InOrder(S)[j] => i = j
         /\ \A p \in S : \E i \in 1..Cardinality(S) : InOrder(S)[i] = p
         /\ Visited(t, S) \in Seq(Entry) /\ Len(Visited(t, S)) = Cardinality(S)
         /\ \A i \in 1..Cardinality(S) : Visited(t, S)[i] = At(t, InOrder(S)[i])
<1>1. S \in SUBSET (Nat \X Nat)
  BY PlacesOfNumbers
<1>2. IsFiniteSet(S)
  BY PlacesFinite, FS_Subset
<1> DEFINE n == Cardinality(S)
           g == InOrder(S)
<1>3. n \in Nat /\ g \in [1..n -> S]
  BY <1>1, <1>2, InOrderIs
<1>4. /\ \A i, j \in 1..n : g[i] = g[j] => i = j
      /\ \A p \in S : \E i \in 1..n : g[i] = p
  BY <1>1, <1>2, InOrderIs
<1>5. Visited(t, S) = [i \in 1..n |-> At(t, g[i])]
  BY DEF Visited
<1>6. ASSUME NEW i \in 1..n PROVE At(t, g[i]) \in Entry
  BY <1>3, EntryAtPlace
<1> HIDE DEF n, g
<1>7. Visited(t, S) \in Seq(Entry) /\ Len(Visited(t, S)) = n
  BY <1>3, <1>5, <1>6
<1>8. ASSUME NEW i \in 1..n PROVE Visited(t, S)[i] = At(t, g[i])
  BY <1>5
<1> QED
  BY <1>2, <1>3, <1>4, <1>7, <1>8 DEF n, g

\* ht_resize loses, doubles and changes no entry, and every entry is where its
\* hash leads in the new pool.
LEMMA ResizeKeepsEntries ==
  ASSUME NEW t, TableOK(t), Candidates(t.capacity * 2) # {}
  PROVE  LET u == ht_resize(t)
         IN  /\ TableOK(u) /\ Keyed(u) = Keyed(t) /\ MapOf(u) = MapOf(t)
             /\ u.size = t.size /\ u.hash = t.hash
             /\ u.capacity >= 2 * t.capacity
<1> DEFINE c == next_prime(t.capacity * 2)
           Into(i) == {p \in Places(t) : Index(At(t, p).hash, c) = i}
           chain(i) == Reverse(Visited(t, Into(i)))
           pool == [i \in 1..c |-> chain(i)]
           u == ht_resize(t)
           size(i) == Cardinality(Into(i))
<1>1. t \in Hash_Table /\ t.capacity \in Nat /\ t.capacity > 0
  BY DEF TableOK, Hash_Table
<1>2. c \in Nat /\ c >= 2 * t.capacity /\ c > 0
  BY <1>1, NextPrimeGrows
<1>3. ASSUME NEW i \in 1..c
      PROVE  /\ size(i) \in Nat
             /\ chain(i) \in Seq(Entry) /\ Len(chain(i)) = size(i)
             /\ \A j \in 1..size(i) :
                  chain(i)[j] = At(t, InOrder(Into(i))[size(i) - j + 1])
  <2> DEFINE v == Visited(t, Into(i))
             n == size(i)
  <2>1. Into(i) \in SUBSET Places(t)
    OBVIOUS
  <2>2. n \in Nat /\ v \in Seq(Entry) /\ Len(v) = n
    BY <2>1, VisitedIs
  <2>3. \A j \in 1..n : v[j] = At(t, InOrder(Into(i))[j])
    BY <2>1, VisitedIs
  <2>4. chain(i) = [j \in 1..n |-> v[n - j + 1]]
    BY <2>2 DEF Reverse
  <2> HIDE DEF v, n, Into, chain
  <2>5. ASSUME NEW j \in 1..n PROVE n - j + 1 \in 1..n
    BY <2>2
  <2>6. chain(i) \in Seq(Entry) /\ Len(chain(i)) = n
    BY <2>2, <2>4, <2>5
  <2>7. ASSUME NEW j \in 1..n
        PROVE  chain(i)[j] = At(t, InOrder(Into(i))[n - j + 1])
    BY <2>3, <2>4, <2>5
  <2> QED
    BY <2>2, <2>6, <2>7 DEF n
<1>4. u = [[t EXCEPT !.capacity = c] EXCEPT !.pool = pool]
  BY DEF ht_resize
<1>5. pool \in Seq(Seq(Entry)) /\ Len(pool) = c
  <2>1. \A i \in 1..c : chain(i) \in Seq(Entry)
    BY <1>3
  <2> HIDE DEF chain, c
  <2>2. pool = [i \in 1..c |-> chain(i)]
    OBVIOUS
  <2> HIDE DEF pool, size, Into
  <2> QED
    BY <1>2, <2>1, <2>2
<1>6. u \in Hash_Table /\ u.capacity = c /\ u.pool = pool /\ u.size = t.size /\ u.hash = t.hash
  <2> HIDE DEF pool, c, u
  <2>1. [t EXCEPT !.capacity = c] \in Hash_Table
    BY <1>1, <1>2 DEF Hash_Table
  <2>2. /\ [t EXCEPT !.capacity = c].size = t.size
        /\ [t EXCEPT !.capacity = c].hash = t.hash
        /\ [t EXCEPT !.capacity = c].capacity = c
    BY <1>1 DEF Hash_Table
  <2> QED
    BY <1>4, <1>5, <2>1, <2>2 DEF Hash_Table
<1> DEFINE m == [p \in Places(u) |-> InOrder(Into(p[1]))[size(p[1]) - p[2] + 1]]
<1>7. ASSUME NEW p \in Places(u)
      PROVE  /\ p = <<p[1], p[2]>> /\ p[1] \in 1..c /\ p[2] \in 1..size(p[1])
             /\ size(p[1]) - p[2] + 1 \in 1..size(p[1])
             /\ m[p] \in Into(p[1])
             /\ At(u, p) = At(t, m[p])
  <2>1. p = <<p[1], p[2]>> /\ p[1] \in DOMAIN pool /\ p[2] \in DOMAIN pool[p[1]]
    BY <1>6, PlacesAre
  <2>2. p[1] \in 1..c /\ pool[p[1]] = chain(p[1])
    BY <2>1
  <2>3. p[2] \in 1..size(p[1]) /\ size(p[1]) \in Nat
    BY <1>3, <2>1, <2>2
  <2>4. size(p[1]) - p[2] + 1 \in 1..size(p[1])
    BY <2>3
  <2>5. Into(p[1]) \in SUBSET Places(t)
    OBVIOUS
  <2>6. InOrder(Into(p[1])) \in [1..size(p[1]) -> Into(p[1])]
    BY <2>5, VisitedIs
  <2>7. m[p] \in Into(p[1])
    BY <2>4, <2>6
  <2>8. At(u, p) = chain(p[1])[p[2]]
    BY <2>2, <1>6 DEF At
  <2>9. chain(p[1])[p[2]] = At(t, InOrder(Into(p[1]))[size(p[1]) - p[2] + 1])
    BY <1>3, <2>2, <2>3
  <2> QED
    BY <2>1, <2>2, <2>3, <2>4, <2>7, <2>8, <2>9
<1>8. m \in [Places(u) -> Places(t)]
  BY <1>7
<1>9. ASSUME NEW p \in Places(u), NEW q \in Places(u), m[p] = m[q]
      PROVE  p = q
  <2>1. m[p] \in Into(p[1]) /\ m[q] \in Into(q[1])
    BY <1>7
  <2>2. p[1] = q[1]
    BY <2>1, <1>9
  <2> DEFINE g == InOrder(Into(p[1]))
             n == size(p[1])
  <2>3. n \in Nat /\ \A i, j \in 1..n : g[i] = g[j] => i = j
    BY VisitedIs
  <2>4. /\ p[2] \in 1..n /\ n - p[2] + 1 \in 1..n
        /\ q[2] \in 1..n /\ n - q[2] + 1 \in 1..n
    BY <1>7, <2>2
  <2>5. g[n - p[2] + 1] = g[n - q[2] + 1]
    BY <2>2, <1>9
  <2> HIDE DEF g, n
  <2>6. n - p[2] + 1 = n - q[2] + 1
    BY <2>3, <2>4, <2>5
  <2>7. p[2] = q[2]
    BY <2>3, <2>4, <2>6
  <2> QED
    BY <2>2, <2>7, <1>7
<1>10. ASSUME NEW x \in Places(t) PROVE \E p \in Places(u) : m[p] = x
  <2> DEFINE i == Index(At(t, x).hash, c)
             g == InOrder(Into(i))
             n == size(i)
  <2>1. i \in 1..c
    BY EntryAtPlace, <1>2, IndexInRange
  <2>2. x \in Into(i)
    OBVIOUS
  <2>3. n \in Nat /\ \E a \in 1..n : g[a] = x
    BY <2>2, VisitedIs
  <2>4. PICK a \in 1..n : g[a] = x
    BY <2>3
  <2> DEFINE p == <<i, n - a + 1>>
  <2>5. n - a + 1 \in 1..n /\ n - (n - a + 1) + 1 = a
    BY <2>3, <2>4
  <2>6. i \in DOMAIN pool /\ n - a + 1 \in DOMAIN pool[i]
    <3>1. pool[i] = chain(i) /\ i \in DOMAIN pool
      BY <2>1
    <3>2. chain(i) \in Seq(Entry) /\ Len(chain(i)) = n
      BY <1>3, <2>1
    <3> HIDE DEF pool, chain, n, i
    <3> QED
      BY <3>1, <3>2, <2>5
  <2>7. p = <<p[1], p[2]>> /\ p[1] = i /\ p[2] = n - a + 1
    OBVIOUS
  <2>8. p \in Places(u)
    <3> HIDE DEF pool, i, n, p, u
    <3> QED
      BY <2>6, <2>7, <1>6, PlacesAre
  <2>9. m[p] = InOrder(Into(i))[n - (n - a + 1) + 1]
    BY <2>7, <2>8
  <2>10. m[p] = x
    BY <2>9, <2>5, <2>4
  <2> QED
    BY <2>8, <2>10
<1>11. ASSUME NEW p \in Places(u) PROVE Index(At(u, p).hash, u.capacity) = p[1]
  BY <1>6, <1>7
<1>12. Keyed(t) = {At(t, p).key : p \in Places(t)}
  BY DEF Keyed
<1>13. IsFiniteSet(Keyed(t)) /\ u.size = Cardinality(Keyed(t))
  BY <1>6 DEF TableOK, Counted
<1>14. Len(u.pool) = u.capacity /\ u.capacity > 0
  BY <1>2, <1>5, <1>6
<1> HIDE DEF m, u, c, pool
<1>15. /\ TableOK(u) /\ Keyed(u) = Keyed(t)
       /\ \A k \in Keyed(u) : Lookup(u, k) = Lookup(t, k)
  <2>1. ASSUME NEW p \in Places(u)
        PROVE  At(u, p) = At(t, m[p]) /\ Index(At(u, p).hash, u.capacity) = p[1]
    BY <1>7, <1>11
  <2>2. Moves(m, u, t, Places(t))
    BY <1>8, <1>9, <1>10, <2>1 DEF Moves
  <2> QED
    BY <1>6, <1>12, <1>13, <1>14, <2>2, Relocated
<1>16. MapOf(u) = MapOf(t)
  BY <1>15, SameMap
<1> QED
  BY <1>2, <1>6, <1>15, <1>16 DEF u

-----------------------------------------------------------------------------
(* What the calls do to a table.                                           *)

\* u is t with the value v under k.
Sets(u, t, k, v) ==
  /\ TableOK(u) /\ Keyed(u) = Keyed(t) \cup {k}
  /\ Lookup(u, k) = v
  /\ \A j \in Keyed(t) \ {k} : Lookup(u, j) = Lookup(t, j)

\* The old value of a key that is in the table is replaced (hash_table.c:73).
LEMMA UpdatedSets ==
  ASSUME NEW t, TableOK(t), NEW k \in Keys, NEW v \in Values, Find(t, k) # 0
  PROVE  LET u == Updated(t, k, v)
         IN  Sets(u, t, k, v) /\ u.size = t.size /\ u.capacity = t.capacity
<1> DEFINE b == Bucket(t, k)
           f == Find(t, k)
           s == t.pool[b]
           e2 == [s[f] EXCEPT !.value = v]
           s2 == [s EXCEPT ![f] = e2]
           pool == [t.pool EXCEPT ![b] = s2]
           u == Updated(t, k, v)
           q == <<b, f>>
<1>1. t \in Hash_Table /\ t.pool \in Seq(Seq(Entry)) /\ Len(t.pool) = t.capacity /\ t.capacity > 0
  BY DEF TableOK, Hash_Table
<1>2. q \in Places(t) /\ At(t, q).key = k /\ k \in Keyed(t)
  BY FindIs
<1>3. b \in DOMAIN t.pool /\ f \in DOMAIN s /\ s \in Seq(Entry)
  BY <1>2, BucketExists, PlacesAre
<1>4. s[f] \in Entry /\ s[f].key = k
  BY <1>2, <1>3 DEF At
<1>5. e2 \in Entry /\ e2.key = k /\ e2.value = v /\ e2.hash = s[f].hash
  BY <1>4 DEF Entry
<1>6. u = [t EXCEPT !.pool = pool]
  BY DEF Updated
<1> HIDE DEF e2
<1>7. s2 \in Seq(Entry) /\ DOMAIN s2 = DOMAIN s /\ s2[f] = e2 /\ \A i \in DOMAIN s \ {f} : s2[i] = s[i]
  <2> HIDE DEF s, f
  <2> QED
    BY <1>3, <1>5
<1> HIDE DEF s2
<1>8. /\ pool \in Seq(Seq(Entry)) /\ DOMAIN pool = DOMAIN t.pool /\ Len(pool) = Len(t.pool)
      /\ pool[b] = s2
      /\ \A i \in DOMAIN t.pool \ {b} : pool[i] = t.pool[i]
  <2> HIDE DEF b, s
  <2> QED
    BY <1>1, <1>3, <1>7
<1> HIDE DEF pool, u
<1>9. u \in Hash_Table /\ u.pool = pool /\ u.size = t.size /\ u.hash = t.hash /\ u.capacity = t.capacity
  BY <1>1, <1>6, <1>8 DEF Hash_Table
<1>10. ASSUME NEW p PROVE p \in Places(u) <=> p \in Places(t)
  <2>1. DOMAIN u.pool[b] = DOMAIN t.pool[b]
    BY <1>7, <1>8, <1>9
  <2>2. ASSUME NEW i \in DOMAIN t.pool PROVE DOMAIN u.pool[i] = DOMAIN t.pool[i]
    BY <2>1, <1>8, <1>9
  <2>3. DOMAIN u.pool = DOMAIN t.pool
    BY <1>8, <1>9
  <2> QED
    BY <2>2, <2>3, PlacesAre
<1>11. At(u, q) = e2 /\ At(t, q) = s[f]
  BY <1>7, <1>8, <1>9 DEF At
<1>12. ASSUME NEW p \in Places(t), p # q PROVE At(u, p) = At(t, p)
  <2>1. p = <<p[1], p[2]>> /\ p[1] \in DOMAIN t.pool /\ p[2] \in DOMAIN t.pool[p[1]]
    BY PlacesAre
  <2>2. CASE p[1] # b
    BY <2>1, <2>2, <1>8, <1>9 DEF At
  <2>3. CASE p[1] = b
    <3>1. p[2] # f
      BY <2>1, <2>3, <1>12
    <3>2. u.pool[p[1]] = s2 /\ p[2] \in DOMAIN s \ {f}
      BY <2>1, <2>3, <3>1, <1>8, <1>9
    <3>3. s2[p[2]] = s[p[2]]
      BY <3>2, <1>7
    <3> QED
      BY <3>2, <3>3, <2>3 DEF At
  <2> QED
    BY <2>2, <2>3
<1>13. ASSUME NEW p \in Places(t)
       PROVE  At(u, p).key = At(t, p).key /\ At(u, p).hash = At(t, p).hash
  BY <1>4, <1>5, <1>11, <1>12
<1>14. Keyed(u) = Keyed(t)
  BY <1>10, <1>13 DEF Keyed
<1>15. Placed(u)
  <2>1. ASSUME NEW p \in Places(u)
        PROVE  /\ At(u, p).hash = u.hash[At(u, p).key]
               /\ Index(At(u, p).hash, u.capacity) = p[1]
    <3>1. p \in Places(t)
      BY <1>10
    <3>2. At(t, p).hash = t.hash[At(t, p).key] /\ Index(At(t, p).hash, t.capacity) = p[1]
      BY <3>1 DEF TableOK, Placed
    <3> QED
      BY <3>1, <3>2, <1>9, <1>13
  <2> QED
    BY <2>1 DEF Placed
<1>16. KeyedOnce(u)
  <2>1. ASSUME NEW p \in Places(u), NEW r \in Places(u), At(u, p).key = At(u, r).key
        PROVE  p = r
    <3>1. p \in Places(t) /\ r \in Places(t)
      BY <1>10
    <3>2. At(t, p).key = At(t, r).key
      BY <3>1, <2>1, <1>13
    <3> QED
      BY <3>1, <3>2 DEF TableOK, KeyedOnce
  <2> QED
    BY <2>1 DEF KeyedOnce
<1>17. TableOK(u)
  <2>1. Counted(u)
    BY <1>9, <1>14 DEF TableOK, Counted
  <2>2. u.capacity > 0 /\ Len(u.pool) = u.capacity
    BY <1>1, <1>8, <1>9
  <2> QED
    BY <2>1, <2>2, <1>9, <1>15, <1>16 DEF TableOK
<1>18. Lookup(u, k) = v
  <2>1. q \in Places(u)
    BY <1>2, <1>10
  <2> QED
    BY <2>1, <1>5, <1>11, <1>17, LookupIs
<1>19. ASSUME NEW j \in Keyed(t) \ {k} PROVE Lookup(u, j) = Lookup(t, j)
  <2>1. PICK p \in Places(t) : j = At(t, p).key
    BY DEF Keyed
  <2>2. p # q
    BY <2>1, <1>2
  <2>3. p \in Places(u) /\ At(u, p) = At(t, p)
    BY <2>2, <1>10, <1>12
  <2>4. Lookup(u, At(u, p).key) = At(u, p).value
    BY <2>3, <1>17, LookupIs
  <2>5. Lookup(t, At(t, p).key) = At(t, p).value
    BY LookupIs
  <2> QED
    BY <2>1, <2>3, <2>4, <2>5
<1>20. Sets(u, t, k, v)
  BY <1>2, <1>14, <1>17, <1>18, <1>19 DEF Sets
<1> QED
  BY <1>9, <1>20 DEF u

\* A new entry at the head of its chain, when the key is not in the table.
LEMMA PrependedSets ==
  ASSUME NEW t, TableOK(t), NEW k \in Keys, NEW v \in Values, k \notin Keyed(t)
  PROVE  LET u == Prepended(t, k, v)
         IN  Sets(u, t, k, v) /\ u.size = t.size + 1 /\ u.capacity = t.capacity
<1> DEFINE b == Bucket(t, k)
           s == t.pool[b]
           e == [key |-> k, value |-> v, hash |-> t.hash[k]]
           s2 == <<e>> \o s
           pool == [t.pool EXCEPT ![b] = s2]
           u == Prepended(t, k, v)
           q == <<b, 1>>
           prev(p) == IF p[1] = b THEN <<b, p[2] - 1>> ELSE p
           next(p) == IF p[1] = b THEN <<b, p[2] + 1>> ELSE p
<1>1. /\ t \in Hash_Table /\ t.pool \in Seq(Seq(Entry)) /\ Len(t.pool) = t.capacity
      /\ t.capacity > 0 /\ t.size \in Nat
  BY DEF TableOK, Hash_Table
<1>2. b \in DOMAIN t.pool /\ s \in Seq(Entry) /\ t.hash[k] \in Nat
  BY BucketExists
<1>3. e \in Entry /\ e.key = k /\ e.value = v /\ e.hash = t.hash[k]
  BY <1>2 DEF Entry
<1>4. u = [[t EXCEPT !.pool = pool] EXCEPT !.size = t.size + 1]
  BY DEF Prepended
<1> HIDE DEF e
<1>5. /\ s2 \in Seq(Entry) /\ Len(s2) = Len(s) + 1 /\ s2[1] = e
      /\ \A i \in 1..Len(s) : s2[i + 1] = s[i]
  <2> HIDE DEF s
  <2> QED
    BY <1>2, <1>3
<1> HIDE DEF s2
<1>6. /\ pool \in Seq(Seq(Entry)) /\ DOMAIN pool = DOMAIN t.pool /\ Len(pool) = Len(t.pool)
      /\ pool[b] = s2
      /\ \A i \in DOMAIN t.pool \ {b} : pool[i] = t.pool[i]
  <2> HIDE DEF b, s
  <2> QED
    BY <1>1, <1>2, <1>5
<1> HIDE DEF pool, u
<1>7. u \in Hash_Table /\ u.pool = pool /\ u.size = t.size + 1 /\ u.hash = t.hash /\ u.capacity = t.capacity
  <2> DEFINE w == [t EXCEPT !.pool = pool]
  <2>1. w \in Hash_Table /\ w.pool = pool /\ w.hash = t.hash /\ w.capacity = t.capacity
    BY <1>1, <1>6 DEF Hash_Table
  <2>2. u = [w EXCEPT !.size = t.size + 1]
    BY <1>4
  <2>3. t.size + 1 \in Nat
    BY <1>1
  <2> HIDE DEF w
  <2> QED
    BY <2>1, <2>2, <2>3 DEF Hash_Table
<1>8. q \in Places(u) /\ At(u, q) = e /\ q[1] = b
  <2>1. q = <<q[1], q[2]>> /\ q[1] = b /\ q[2] = 1
    OBVIOUS
  <2>2. 1 \in DOMAIN s2
    BY <1>2, <1>5
  <2> HIDE DEF q
  <2>3. q \in Places(u)
    BY <2>1, <2>2, <1>2, <1>6, <1>7, PlacesAre
  <2> QED
    BY <2>1, <2>3, <1>5, <1>6, <1>7 DEF At
<1>9. ASSUME NEW p \in Places(u), p # q
      PROVE  /\ prev(p) \in Places(t) /\ prev(p)[1] = p[1] /\ At(u, p) = At(t, prev(p))
             /\ p = next(prev(p))
  <2>1. p = <<p[1], p[2]>> /\ p[1] \in DOMAIN t.pool /\ p[2] \in DOMAIN u.pool[p[1]]
    BY <1>6, <1>7, PlacesAre
  <2>2. CASE p[1] # b
    <3>1. u.pool[p[1]] = t.pool[p[1]]
      BY <2>1, <2>2, <1>6, <1>7
    <3>2. p \in Places(t)
      BY <2>1, <3>1, PlacesAre
    <3> QED
      BY <2>2, <3>1, <3>2 DEF At
  <2>3. CASE p[1] = b
    <3>1. u.pool[p[1]] = s2 /\ p[2] \in 1..Len(s2)
      BY <2>1, <2>3, <1>5, <1>6, <1>7
    <3>2. p[2] # 1
      BY <2>1, <2>3, <1>9
    <3>3. p[2] - 1 \in 1..Len(s) /\ (p[2] - 1) + 1 = p[2]
      BY <3>1, <3>2, <1>2, <1>5
    <3> DEFINE r == <<b, p[2] - 1>>
    <3>4. r = <<r[1], r[2]>> /\ r[1] = b /\ r[2] = p[2] - 1 /\ r = prev(p)
      BY <2>3
    <3>5. r[2] \in DOMAIN t.pool[r[1]]
      BY <3>3, <3>4, <1>2
    <3> HIDE DEF r
    <3>6. r \in Places(t)
      BY <3>4, <3>5, <1>2, PlacesAre
    <3>7. s2[p[2]] = s[p[2] - 1]
      BY <3>3, <1>5
    <3>8. At(u, p) = At(t, r)
      BY <3>1, <3>4, <3>7 DEF At
    <3>9. next(r) = p
      BY <3>3, <3>4, <2>1, <2>3
    <3> QED
      BY <3>4, <3>6, <3>8, <3>9, <2>3
  <2> QED
    BY <2>2, <2>3
<1>10. ASSUME NEW x \in Places(t)
       PROVE  next(x) \in Places(u) /\ At(u, next(x)) = At(t, x)
  <2>1. x = <<x[1], x[2]>> /\ x[1] \in DOMAIN t.pool /\ x[2] \in DOMAIN t.pool[x[1]]
    BY PlacesAre
  <2>2. CASE x[1] # b
    <3>1. u.pool[x[1]] = t.pool[x[1]] /\ next(x) = x
      BY <2>1, <2>2, <1>6, <1>7
    <3>2. x \in Places(u)
      BY <2>1, <3>1, <1>6, <1>7, PlacesAre
    <3> QED
      BY <3>1, <3>2 DEF At
  <2>3. CASE x[1] = b
    <3>1. x[2] \in 1..Len(s)
      BY <2>1, <2>3, <1>2
    <3> DEFINE r == <<b, x[2] + 1>>
    <3>2. r = <<r[1], r[2]>> /\ r[1] = b /\ r[2] = x[2] + 1 /\ r = next(x)
      BY <2>3
    <3>3. r[2] \in DOMAIN s2 /\ s2[x[2] + 1] = s[x[2]]
      BY <3>1, <3>2, <1>2, <1>5
    <3> HIDE DEF r
    <3>4. r \in Places(u)
      BY <3>2, <3>3, <1>2, <1>6, <1>7, PlacesAre
    <3>5. At(u, r) = At(t, x)
      BY <3>2, <3>3, <2>3, <1>6, <1>7 DEF At
    <3> QED
      BY <3>2, <3>4, <3>5
  <2> QED
    BY <2>2, <2>3
<1> HIDE DEF q, prev, next
<1>11. Keyed(u) = Keyed(t) \cup {k}
  <2>1. ASSUME NEW j \in Keyed(u) PROVE j \in Keyed(t) \cup {k}
    <3>1. PICK p \in Places(u) : j = At(u, p).key
      BY DEF Keyed
    <3> QED
      BY <3>1, <1>3, <1>8, <1>9 DEF Keyed
  <2>2. ASSUME NEW j \in Keyed(t) PROVE j \in Keyed(u)
    BY <1>10 DEF Keyed
  <2>3. k \in Keyed(u)
    BY <1>3, <1>8 DEF Keyed
  <2> QED
    BY <2>1, <2>2, <2>3
<1>12. Placed(u)
  <2>1. ASSUME NEW p \in Places(u)
        PROVE  /\ At(u, p).hash = u.hash[At(u, p).key]
               /\ Index(At(u, p).hash, u.capacity) = p[1]
    <3>1. CASE p = q
      BY <3>1, <1>3, <1>7, <1>8 DEF Bucket
    <3>2. CASE p # q
      <4>1. prev(p) \in Places(t) /\ prev(p)[1] = p[1] /\ At(u, p) = At(t, prev(p))
        BY <3>2, <1>9
      <4>2. /\ At(t, prev(p)).hash = t.hash[At(t, prev(p)).key]
            /\ Index(At(t, prev(p)).hash, t.capacity) = prev(p)[1]
        BY <4>1 DEF TableOK, Placed
      <4> QED
        BY <4>1, <4>2, <1>7
    <3> QED
      BY <3>1, <3>2
  <2> QED
    BY <2>1 DEF Placed
<1>13. ASSUME NEW p \in Places(u), p # q PROVE At(u, p).key # k
  <2>1. At(t, prev(p)).key \in Keyed(t)
    BY <1>9, <1>13 DEF Keyed
  <2> QED
    BY <2>1, <1>9, <1>13
<1>14. KeyedOnce(u)
  <2>1. ASSUME NEW p \in Places(u), NEW r \in Places(u), At(u, p).key = At(u, r).key
        PROVE  p = r
    <3>1. CASE p = q \/ r = q
      BY <3>1, <2>1, <1>3, <1>8, <1>13
    <3>2. CASE p # q /\ r # q
      <4>1. /\ prev(p) \in Places(t) /\ prev(r) \in Places(t)
            /\ At(t, prev(p)).key = At(t, prev(r)).key
        BY <3>2, <2>1, <1>9
      <4>2. prev(p) = prev(r)
        BY <4>1 DEF TableOK, KeyedOnce
      <4> QED
        BY <4>2, <3>2, <1>9
    <3> QED
      BY <3>1, <3>2
  <2> QED
    BY <2>1 DEF KeyedOnce
<1>15. TableOK(u)
  <2>1. IsFiniteSet(Keyed(t)) /\ t.size = Cardinality(Keyed(t))
    BY DEF TableOK, Counted
  <2>2. Counted(u)
    BY <2>1, <1>7, <1>11, FS_AddElement DEF Counted
  <2>3. u.capacity > 0 /\ Len(u.pool) = u.capacity
    BY <1>1, <1>6, <1>7
  <2> QED
    BY <2>2, <2>3, <1>7, <1>12, <1>14 DEF TableOK
<1>16. Lookup(u, k) = v
  BY <1>3, <1>8, <1>15, LookupIs
<1>17. ASSUME NEW j \in Keyed(t) \ {k} PROVE Lookup(u, j) = Lookup(t, j)
  <2>1. PICK x \in Places(t) : j = At(t, x).key
    BY DEF Keyed
  <2>2. next(x) \in Places(u) /\ At(u, next(x)) = At(t, x)
    BY <1>10
  <2>3. Lookup(u, At(u, next(x)).key) = At(u, next(x)).value
    BY <2>2, <1>15, LookupIs
  <2>4. Lookup(t, At(t, x).key) = At(t, x).value
    BY LookupIs
  <2> QED
    BY <2>1, <2>2, <2>3, <2>4
<1>18. Sets(u, t, k, v)
  BY <1>11, <1>15, <1>16, <1>17 DEF Sets
<1> QED
  BY <1>7, <1>18 DEF u

\* A chain without its entry f (ht_delete unlinks it).
LEMMA RemoveAtIs ==
  ASSUME NEW s \in Seq(Entry), NEW f \in 1..Len(s)
  PROVE  /\ RemoveAt(s, f) \in Seq(Entry) /\ Len(RemoveAt(s, f)) = Len(s) - 1
         /\ \A i \in 1..(Len(s) - 1) :
              RemoveAt(s, f)[i] = IF i < f THEN s[i] ELSE s[i + 1]
<1> DEFINE a == SubSeq(s, 1, f - 1)
           z == SubSeq(s, f + 1, Len(s))
<1>1. Len(s) \in Nat /\ f \in Nat /\ f >= 1 /\ f <= Len(s)
  OBVIOUS
<1>2. a \in Seq(Entry) /\ Len(a) = f - 1 /\ \A i \in 1..(f - 1) : a[i] = s[i]
  BY <1>1
<1>3. z \in Seq(Entry) /\ Len(z) = Len(s) - f /\ \A i \in 1..(Len(s) - f) : z[i] = s[f + i]
  BY <1>1
<1>4. RemoveAt(s, f) = a \o z
  BY DEF RemoveAt
<1> HIDE DEF a, z
<1>5. a \o z \in Seq(Entry) /\ Len(a \o z) = Len(s) - 1
  BY <1>1, <1>2, <1>3
<1>6. ASSUME NEW i \in 1..(Len(s) - 1)
      PROVE  (a \o z)[i] = IF i < f THEN s[i] ELSE s[i + 1]
  <2>1. CASE i < f
    <3>1. (a \o z)[i] = a[i]
      BY <2>1, <1>1, <1>2, <1>3
    <3> QED
      BY <3>1, <2>1, <1>1, <1>2
  <2>2. CASE ~(i < f)
    <3>1. i \in Nat /\ i - (f - 1) \in 1..(Len(s) - f) /\ f + (i - (f - 1)) = i + 1
      BY <2>2, <1>1
    <3>2. (a \o z)[i] = z[i - (f - 1)]
      BY <2>2, <1>1, <1>2, <1>3
    <3>3. z[i - (f - 1)] = s[f + (i - (f - 1))]
      BY <3>1, <1>3
    <3> QED
      BY <2>2, <3>1, <3>2, <3>3
  <2> QED
    BY <2>1, <2>2
<1> QED
  BY <1>4, <1>5, <1>6

\* ht_delete takes away one key, and changes no other.
LEMMA RemovedDeletes ==
  ASSUME NEW t, TableOK(t), NEW k \in Keys, Find(t, k) # 0
  PROVE  LET u == Removed(t, k)
         IN  /\ TableOK(u) /\ Keyed(u) = Keyed(t) \ {k}
             /\ \A j \in Keyed(u) : Lookup(u, j) = Lookup(t, j)
             /\ u.size = t.size - 1 /\ u.capacity = t.capacity
<1> DEFINE b == Bucket(t, k)
           f == Find(t, k)
           s == t.pool[b]
           s2 == RemoveAt(s, f)
           pool == [t.pool EXCEPT ![b] = s2]
           u == Removed(t, k)
           q == <<b, f>>
           S == Places(t) \ {q}
           next(p) == IF p[1] = b /\ p[2] >= f THEN <<b, p[2] + 1>> ELSE p
           m == [p \in Places(u) |-> next(p)]
<1>1. /\ t \in Hash_Table /\ t.pool \in Seq(Seq(Entry)) /\ Len(t.pool) = t.capacity
      /\ t.capacity > 0 /\ t.size \in Nat
  BY DEF TableOK, Hash_Table
<1>2. q \in Places(t) /\ At(t, q).key = k /\ k \in Keyed(t)
  BY FindIs
<1>3. b \in DOMAIN t.pool /\ s \in Seq(Entry) /\ f \in 1..Len(s)
  BY <1>2, BucketExists, PlacesAre
<1>4. t.size = Cardinality(Keyed(t)) /\ IsFiniteSet(Keyed(t))
  BY DEF TableOK, Counted
<1>5. /\ t.size - 1 \in Nat
      /\ IsFiniteSet(Keyed(t) \ {k}) /\ Cardinality(Keyed(t) \ {k}) = t.size - 1
  <2>1. IsFiniteSet(Keyed(t) \ {k}) /\ Cardinality(Keyed(t) \ {k}) = t.size - 1
    BY <1>2, <1>4, FS_RemoveElement
  <2> QED
    BY <2>1, FS_CardinalityType
<1>6. u = [[t EXCEPT !.pool = pool] EXCEPT !.size = t.size - 1]
  BY DEF Removed
<1>7. /\ s2 \in Seq(Entry) /\ Len(s2) = Len(s) - 1
      /\ \A i \in 1..(Len(s) - 1) : s2[i] = IF i < f THEN s[i] ELSE s[i + 1]
  BY <1>3, RemoveAtIs
<1> HIDE DEF s2
<1>8. /\ pool \in Seq(Seq(Entry)) /\ DOMAIN pool = DOMAIN t.pool /\ Len(pool) = Len(t.pool)
      /\ pool[b] = s2
      /\ \A i \in DOMAIN t.pool \ {b} : pool[i] = t.pool[i]
  <2> HIDE DEF b, s, f
  <2> QED
    BY <1>1, <1>3, <1>7
<1> HIDE DEF pool, u
<1>9. u \in Hash_Table /\ u.pool = pool /\ u.size = t.size - 1 /\ u.hash = t.hash /\ u.capacity = t.capacity
  <2> DEFINE w == [t EXCEPT !.pool = pool]
  <2>1. w \in Hash_Table /\ w.pool = pool /\ w.hash = t.hash /\ w.capacity = t.capacity
    BY <1>1, <1>8 DEF Hash_Table
  <2>2. u = [w EXCEPT !.size = t.size - 1]
    BY <1>6
  <2> HIDE DEF w
  <2> QED
    BY <2>1, <2>2, <1>5 DEF Hash_Table
<1>10. ASSUME NEW p \in Places(u)
       PROVE  /\ next(p) \in S /\ next(p)[1] = p[1] /\ At(u, p) = At(t, next(p))
              /\ p = <<p[1], p[2]>>
              /\ p[1] = b => p[2] \in 1..(Len(s) - 1)
  <2>1. p = <<p[1], p[2]>> /\ p[1] \in DOMAIN t.pool /\ p[2] \in DOMAIN u.pool[p[1]]
    BY <1>8, <1>9, PlacesAre
  <2>2. CASE p[1] # b
    <3>1. u.pool[p[1]] = t.pool[p[1]] /\ next(p) = p /\ p # q
      BY <2>1, <2>2, <1>8, <1>9
    <3>2. p \in Places(t)
      BY <2>1, <3>1, PlacesAre
    <3> QED
      BY <2>1, <2>2, <3>1, <3>2 DEF At
  <2>3. CASE p[1] = b
    <3>1. u.pool[p[1]] = s2 /\ p[2] \in 1..(Len(s) - 1) /\ Len(s) \in Nat
      BY <2>1, <2>3, <1>3, <1>7, <1>8, <1>9
    <3> DEFINE i == IF p[2] >= f THEN p[2] + 1 ELSE p[2]
               r == <<b, i>>
    <3>2. i \in 1..Len(s) /\ i # f
      BY <3>1, <1>3
    <3>3. s2[p[2]] = s[i]
      <4>1. s2[p[2]] = IF p[2] < f THEN s[p[2]] ELSE s[p[2] + 1]
        BY <3>1, <1>7
      <4>2. p[2] < f <=> ~(p[2] >= f)
        BY <3>1, <1>3
      <4> QED
        BY <4>1, <4>2
    <3>4. r = <<r[1], r[2]>> /\ r[1] = b /\ r[2] = i /\ r = next(p) /\ r # q
      BY <2>1, <2>3, <3>2
    <3>5. i \in DOMAIN s
      BY <3>2, <1>3
    <3> HIDE DEF r, i
    <3>6. r \in Places(t)
      BY <3>4, <3>5, <1>3, PlacesAre
    <3>7. At(u, p) = At(t, r)
      BY <3>1, <3>3, <3>4 DEF At
    <3> QED
      BY <2>1, <2>3, <3>1, <3>4, <3>6, <3>7
  <2> QED
    BY <2>2, <2>3
<1>11. ASSUME NEW p \in Places(u), NEW r \in Places(u), next(p) = next(r)
       PROVE  p = r
  <2>1. /\ p[1] = r[1] /\ p = <<p[1], p[2]>> /\ r = <<r[1], r[2]>>
        /\ p[1] = b => p[2] \in Nat /\ r[2] \in Nat
    BY <1>10, <1>11
  <2>2. CASE p[1] # b
    BY <2>1, <2>2, <1>11
  <2>3. CASE p[1] = b
    <3>1. /\ next(p)[2] = IF p[2] >= f THEN p[2] + 1 ELSE p[2]
          /\ next(r)[2] = IF r[2] >= f THEN r[2] + 1 ELSE r[2]
      BY <2>1, <2>3
    <3>2. p[2] = r[2]
      BY <2>1, <2>3, <3>1, <1>3, <1>11
    <3> QED
      BY <2>1, <3>2
  <2> QED
    BY <2>2, <2>3
<1>12. ASSUME NEW x \in S PROVE \E p \in Places(u) : next(p) = x
  <2>1. x = <<x[1], x[2]>> /\ x[1] \in DOMAIN t.pool /\ x[2] \in DOMAIN t.pool[x[1]] /\ x # q
    BY PlacesAre
  <2>2. CASE x[1] # b
    <3>1. u.pool[x[1]] = t.pool[x[1]] /\ next(x) = x
      BY <2>1, <2>2, <1>8, <1>9
    <3>2. x \in Places(u)
      BY <2>1, <3>1, <1>8, <1>9, PlacesAre
    <3> QED
      BY <3>1, <3>2
  <2>3. CASE x[1] = b
    <3>1. x[2] \in 1..Len(s) /\ x[2] # f /\ Len(s) \in Nat
      BY <2>1, <2>3, <1>3
    <3> DEFINE i == IF x[2] > f THEN x[2] - 1 ELSE x[2]
               r == <<b, i>>
    <3>2. i \in 1..(Len(s) - 1) /\ (IF i >= f THEN i + 1 ELSE i) = x[2]
      BY <3>1, <1>3
    <3>3. r = <<r[1], r[2]>> /\ r[1] = b /\ r[2] = i
      OBVIOUS
    <3>4. i \in DOMAIN s2
      BY <3>1, <3>2, <1>7
    <3> HIDE DEF r, i
    <3>5. r \in Places(u)
      BY <3>3, <3>4, <1>3, <1>8, <1>9, PlacesAre
    <3>6. next(r) = <<b, IF i >= f THEN i + 1 ELSE i>>
      BY <3>3
    <3>7. next(r) = x
      BY <3>2, <3>6, <2>1, <2>3
    <3> QED
      BY <3>5, <3>7
  <2> QED
    BY <2>2, <2>3
<1> HIDE DEF next, q
<1>13. Moves(m, u, t, S)
  <2>1. m \in [Places(u) -> S]
    BY <1>10
  <2>2. ASSUME NEW p \in Places(u)
        PROVE  At(u, p) = At(t, m[p]) /\ Index(At(u, p).hash, u.capacity) = p[1]
    <3>1. next(p) \in Places(t) /\ At(u, p) = At(t, next(p)) /\ next(p)[1] = p[1]
      BY <1>10
    <3>2. Index(At(t, next(p)).hash, t.capacity) = next(p)[1]
      BY <3>1 DEF TableOK, Placed
    <3> QED
      BY <3>1, <3>2, <1>9
  <2>3. ASSUME NEW p \in Places(u), NEW r \in Places(u), m[p] = m[r] PROVE p = r
    BY <2>3, <1>11
  <2>4. ASSUME NEW x \in S PROVE \E p \in Places(u) : m[p] = x
    BY <1>12
  <2> HIDE DEF m, S
  <2> QED
    BY <2>1, <2>2, <2>3, <2>4 DEF Moves
<1>14. Keyed(t) \ {k} = {At(t, p).key : p \in S}
  <2>1. ASSUME NEW j \in Keyed(t) \ {k} PROVE j \in {At(t, p).key : p \in S}
    <3>1. PICK p \in Places(t) : j = At(t, p).key
      BY DEF Keyed
    <3>2. p \in S
      BY <3>1, <1>2
    <3> QED
      BY <3>1, <3>2
  <2>2. ASSUME NEW p \in S PROVE At(t, p).key \in Keyed(t) \ {k}
    <3>1. p \in Places(t) /\ p # q
      OBVIOUS
    <3>2. At(t, p).key # At(t, q).key
      BY <3>1, <1>2 DEF TableOK, KeyedOnce
    <3> QED
      BY <3>1, <3>2, <1>2 DEF Keyed
  <2> QED
    BY <2>1, <2>2
<1>15. u.capacity > 0 /\ Len(u.pool) = u.capacity
  BY <1>1, <1>8, <1>9
<1>16. S \in SUBSET Places(t)
  OBVIOUS
<1> HIDE DEF m, S
<1>17. /\ TableOK(u) /\ Keyed(u) = Keyed(t) \ {k}
       /\ \A j \in Keyed(u) : Lookup(u, j) = Lookup(t, j)
  <2> DEFINE K == Keyed(t) \ {k}
  <2>1. IsFiniteSet(K) /\ u.size = Cardinality(K) /\ K = {At(t, p).key : p \in S}
    BY <1>5, <1>9, <1>14
  <2>2. u \in Hash_Table /\ u.hash = t.hash
    BY <1>9
  <2> HIDE DEF K
  <2>3. /\ TableOK(u) /\ Keyed(u) = K
        /\ \A j \in Keyed(u) : Lookup(u, j) = Lookup(t, j)
    BY <2>1, <2>2, <1>13, <1>15, <1>16, Relocated
  <2> QED
    BY <2>3 DEF K
<1> QED
  BY <1>9, <1>17 DEF u

\* ht_create: an empty table.
LEMMA NewTableIs ==
  ASSUME NEW h \in Hashes
  PROVE  LET t == NewTable(h)
         IN  TableOK(t) /\ Keyed(t) = {} /\ t.size < t.capacity
<1> DEFINE t == NewTable(h)
           pool == [i \in 1..initialCapacity |-> <<>>]
<1>1. initialCapacity \in Nat /\ initialCapacity > 0
  BY CapacityAssumption
<1>2. pool \in Seq(Seq(Entry)) /\ Len(pool) = initialCapacity
  BY <1>1
<1>3. t = [size |-> 0, capacity |-> initialCapacity, hash |-> h, pool |-> pool]
  BY DEF NewTable
<1>4. t \in Hash_Table /\ t.pool = pool /\ t.size = 0 /\ t.capacity = initialCapacity
  <2> HIDE DEF pool, t
  <2> QED
    BY <1>1, <1>2, <1>3 DEF Hash_Table
<1>5. Places(t) = {}
  BY <1>4 DEF Places
<1>6. Keyed(t) = {}
  BY <1>5 DEF Keyed
<1> HIDE DEF t, pool
<1>7. Placed(t) /\ KeyedOnce(t)
  BY <1>5 DEF Placed, KeyedOnce
<1>8. Counted(t)
  BY <1>4, <1>6, FS_EmptySet DEF Counted
<1>9. TableOK(t) /\ t.size < t.capacity
  BY <1>1, <1>2, <1>4, <1>7, <1>8 DEF TableOK
<1> QED
  BY <1>6, <1>9 DEF t

\* A resize leaves room for the entry it is made for (hash_table.c:90).
LEMMA ResizeMakesRoom ==
  ASSUME NEW t, TableOK(t), t.size < t.capacity, NeedsResize(t), SearchEnds(t)
  PROVE  LET u == ht_resize(t)
         IN  /\ TableOK(u) /\ Keyed(u) = Keyed(t) /\ MapOf(u) = MapOf(t)
             /\ u.size + 1 < u.capacity
<1> DEFINE u == ht_resize(t)
<1>1. Candidates(t.capacity * 2) # {}
  BY DEF SearchEnds
<1>2. /\ TableOK(u) /\ Keyed(u) = Keyed(t) /\ MapOf(u) = MapOf(t)
      /\ u.size = t.size /\ u.capacity >= 2 * t.capacity
  BY <1>1, ResizeKeepsEntries
<1>3. t.size \in Nat /\ t.capacity \in Nat /\ u.capacity \in Nat
  BY <1>2 DEF TableOK, Hash_Table
<1> HIDE DEF u
<1>4. u.size + 1 < u.capacity
  BY <1>2, <1>3
<1> QED
  BY <1>2, <1>4 DEF u

\* ht_set when nothing fails, with or without a resize.
LEMMA StoredSets ==
  ASSUME NEW t, TableOK(t), t.size < t.capacity, SearchEnds(t),
         NEW k \in Keys, NEW v \in Values
  PROVE  LET u == Stored(t, k, v) IN Sets(u, t, k, v) /\ u.size < u.capacity
<1>1. CASE Find(t, k) # 0
  <2>1. Stored(t, k, v) = Updated(t, k, v)
    BY <1>1 DEF Stored
  <2> QED
    BY <1>1, <2>1, UpdatedSets
<1>2. CASE Find(t, k) = 0
  <2> DEFINE w == IF NeedsResize(t) THEN ht_resize(t) ELSE t
             u == Prepended(w, k, v)
  <2>1. Stored(t, k, v) = u
    BY <1>2 DEF Stored, Inserted
  <2>2. TableOK(w) /\ Keyed(w) = Keyed(t) /\ MapOf(w) = MapOf(t) /\ w.size + 1 < w.capacity
    <3>1. CASE NeedsResize(t)
      BY <3>1, ResizeMakesRoom
    <3>2. CASE ~NeedsResize(t)
      <4>1. t.size \in Nat /\ t.capacity \in Nat
        BY DEF TableOK, Hash_Table
      <4>2. t.size + 1 < t.capacity
        BY <3>2, <4>1 DEF NeedsResize
      <4> QED
        BY <3>2, <4>2
    <3> QED
      BY <3>1, <3>2
  <2>3. k \notin Keyed(t)
    BY <1>2, FindIs
  <2> HIDE DEF w
  <2>4. Sets(u, w, k, v) /\ u.size = w.size + 1 /\ u.capacity = w.capacity
    BY <2>2, <2>3, PrependedSets
  <2>5. ASSUME NEW j \in Keyed(t) PROVE Lookup(w, j) = Lookup(t, j)
    BY <2>2, MapIs
  <2>6. Sets(u, t, k, v)
    BY <2>2, <2>4, <2>5 DEF Sets
  <2>7. u.size < u.capacity
    BY <2>2, <2>4
  <2> QED
    BY <2>1, <2>6, <2>7
<1> QED
  BY <1>1, <1>2

\* ht_set when an allocation fails: the table may be larger, its map is as it was.
LEMMA NotStoredSame ==
  ASSUME NEW t, TableOK(t), t.size < t.capacity, SearchEnds(t),
         NEW k \in Keys, NEW u \in NotStored(t, k)
  PROVE  /\ TableOK(u) /\ u.size < u.capacity
         /\ Keyed(u) = Keyed(t) /\ MapOf(u) = MapOf(t)
<1>1. CASE u = t
  BY <1>1
<1>2. CASE u # t
  <2>1. NeedsResize(t) /\ u = ht_resize(t)
    BY <1>2 DEF NotStored
  <2>2. TableOK(u) /\ Keyed(u) = Keyed(t) /\ MapOf(u) = MapOf(t) /\ u.size + 1 < u.capacity
    BY <2>1, ResizeMakesRoom
  <2>3. u.size \in Nat /\ u.capacity \in Nat
    BY <2>2 DEF TableOK, Hash_Table
  <2> QED
    BY <2>2, <2>3
<1> QED
  BY <1>1, <1>2

\* A table with a value set stands for the map with the value set.
LEMMA SetsMap ==
  ASSUME NEW t, TableOK(t), NEW u, NEW k \in Keys, NEW v \in Values, Sets(u, t, k, v)
  PROVE  MapOf(u) = M!With(MapOf(t), k, v)
<1> DEFINE m == M!With(MapOf(t), k, v)
<1>1. TableOK(u) /\ Keyed(u) = Keyed(t) \cup {k} /\ Lookup(u, k) = v
  BY DEF Sets
<1>2. MapOf(u) \in [Keyed(t) \cup {k} -> Values]
  BY <1>1, MapIs
<1>3. DOMAIN MapOf(t) = Keyed(t)
  BY MapIs
<1>4. m = [x \in Keyed(t) \cup {k} |-> IF x = k THEN v ELSE MapOf(t)[x]]
  BY <1>3 DEF M!With
<1>5. ASSUME NEW x \in Keyed(t) \cup {k} PROVE MapOf(u)[x] = m[x]
  <2>1. MapOf(u)[x] = Lookup(u, x)
    BY <1>1, MapIs
  <2>2. CASE x = k
    BY <2>1, <2>2, <1>1, <1>4
  <2>3. CASE x # k
    <3>1. x \in Keyed(t) \ {k}
      BY <2>3
    <3>2. Lookup(u, x) = Lookup(t, x)
      BY <3>1 DEF Sets
    <3>3. MapOf(t)[x] = Lookup(t, x)
      BY <3>1, MapIs
    <3> QED
      BY <3>1, <3>2, <3>3, <2>1, <2>3, <1>4
  <2> QED
    BY <2>2, <2>3
<1> QED
  BY <1>2, <1>4, <1>5

-----------------------------------------------------------------------------
(* Snapshots.                                                              *)

\* What a file with one record of a key stands for.
LEMMA FileMapIs ==
  ASSUME NEW f, FileOK(f)
  PROVE  /\ DOMAIN FileMap(f) = {f[i][1] : i \in 1..Len(f)}
         /\ DOMAIN FileMap(f) \in SUBSET Keys
         /\ FileMap(f) \in [DOMAIN FileMap(f) -> Values]
         /\ \A i \in 1..Len(f) : FileMap(f)[f[i][1]] = f[i][2]
         /\ FileMap(f) # NULL /\ f # NULL
<1>1. f \in Seq(Keys \X Values) /\ DOMAIN f = 1..Len(f)
  BY DEF FileOK
<1> DEFINE D == {f[i][1] : i \in 1..Len(f)}
           recs == {f[i] : i \in 1..Len(f)}
           val(k) == (CHOOSE r \in recs : r[1] = k)[2]
<1>2. FileMap(f) = [k \in D |-> val(k)]
  BY <1>1 DEF FileMap
<1>3. ASSUME NEW i \in 1..Len(f) PROVE f[i] \in Keys \X Values
  BY <1>1
<1>4. ASSUME NEW i \in 1..Len(f)
      PROVE  f[i][1] \in Keys /\ f[i][2] \in Values /\ val(f[i][1]) = f[i][2]
  <2>1. f[i] \in recs
    OBVIOUS
  <2>2. ASSUME NEW r \in recs, r[1] = f[i][1] PROVE r = f[i]
    BY <2>2 DEF FileOK
  <2>3. (CHOOSE r \in recs : r[1] = f[i][1]) = f[i]
    BY <2>1, <2>2
  <2> QED
    BY <2>3, <1>3
<1>5. ASSUME NEW k \in D PROVE k \in Keys /\ val(k) \in Values
  BY <1>4
<1>6. FileMap(f) \in [D -> Values] /\ D \in SUBSET Keys
  BY <1>2, <1>5
<1>7. ASSUME NEW i \in 1..Len(f) PROVE FileMap(f)[f[i][1]] = f[i][2]
  BY <1>2, <1>4
<1> QED
  BY <1>1, <1>6, <1>7, NullAssumption

\* Whatever prefix of a snapshot reaches the disk is a part of the map, and the
\* whole snapshot is the map.
LEMMA RecordsArePart ==
  ASSUME table # NULL, TableOK(table), NEW n \in 0..Len(Entries(table))
  PROVE  /\ FileOK(Records(n)) /\ FileMap(Records(n)) \in M!Parts(MapOf(table))
         /\ n = Len(Entries(table)) => FileMap(Records(n)) = MapOf(table)
<1> DEFINE S == Places(table)
           g == InOrder(S)
           es == Entries(table)
           N == Cardinality(S)
           f == Records(n)
<1>1. /\ N \in Nat /\ g \in [1..N -> S] /\ Len(es) = N
      /\ \A i, j \in 1..N : g[i] = g[j] => i = j
      /\ \A p \in S : \E i \in 1..N : g[i] = p
      /\ \A i \in 1..N : es[i] = At(table, g[i])
  <2>1. S \in SUBSET Places(table)
    OBVIOUS
  <2> QED
    BY <2>1, VisitedIs DEF Entries
<1>2. /\ n \in 0..N /\ N = Len(Entries(table))
      /\ f = [i \in 1..n |-> <<es[i].key, es[i].value>>]
  BY <1>1 DEF Records
<1> HIDE DEF es, g, S, N, f
<1>3. n \in Nat /\ \A i \in 1..n : i \in 1..N
  BY <1>1, <1>2
<1>4. ASSUME NEW i \in 1..n
      PROVE  /\ g[i] \in Places(table)
             /\ f[i] = <<At(table, g[i]).key, At(table, g[i]).value>>
             /\ f[i] \in Keys \X Values
             /\ f[i][1] = At(table, g[i]).key /\ f[i][2] = At(table, g[i]).value
  <2>1. g[i] \in Places(table) /\ es[i] = At(table, g[i])
    BY <1>1, <1>3 DEF S
  <2>2. At(table, g[i]) \in Entry
    BY <2>1, EntryAtPlace
  <2>3. f[i] = <<At(table, g[i]).key, At(table, g[i]).value>>
    BY <1>2, <2>1
  <2> QED
    BY <2>1, <2>2, <2>3 DEF Entry
<1>5. f \in Seq(Keys \X Values) /\ Len(f) = n
  <2>1. DOMAIN f = 1..n /\ f = [i \in 1..n |-> f[i]]
    BY <1>2
  <2>2. f \in [1..n -> Keys \X Values]
    BY <2>1, <1>4
  <2> QED
    BY <2>1, <2>2, <1>3
<1>6. ASSUME NEW i \in 1..n, NEW j \in 1..n, f[i][1] = f[j][1] PROVE i = j
  <2>1. g[i] = g[j]
    BY <1>4, <1>6 DEF TableOK, KeyedOnce
  <2> QED
    BY <2>1, <1>1, <1>3
<1>7. FileOK(f)
  BY <1>5, <1>6 DEF FileOK
<1> DEFINE D == DOMAIN FileMap(f)
<1>8. D = {f[i][1] : i \in 1..n} /\ FileMap(f) \in [D -> Values]
  BY <1>5, <1>7, FileMapIs
<1>9. ASSUME NEW k \in D PROVE k \in Keyed(table) /\ FileMap(f)[k] = MapOf(table)[k]
  <2>1. PICK i \in 1..n : k = f[i][1]
    BY <1>8
  <2>2. FileMap(f)[k] = f[i][2]
    BY <2>1, <1>5, <1>7, FileMapIs
  <2>3. k = At(table, g[i]).key /\ f[i][2] = At(table, g[i]).value /\ g[i] \in Places(table)
    BY <2>1, <1>4
  <2>4. Lookup(table, k) = f[i][2]
    BY <2>3, LookupIs
  <2>5. k \in Keyed(table)
    BY <2>3 DEF Keyed
  <2>6. MapOf(table)[k] = Lookup(table, k)
    BY <2>5, MapIs
  <2> QED
    BY <2>2, <2>4, <2>5, <2>6
<1>10. DOMAIN MapOf(table) = Keyed(table)
  BY MapIs
<1>11. D \in SUBSET DOMAIN MapOf(table)
  BY <1>9, <1>10
<1>12. FileMap(f) = [k \in D |-> MapOf(table)[k]]
  BY <1>8, <1>9
<1>13. ASSUME n = N PROVE FileMap(f) = MapOf(table)
  <2>1. ASSUME NEW k \in Keyed(table) PROVE k \in D
    <3>1. PICK p \in S : k = At(table, p).key
      BY DEF Keyed, S
    <3>2. PICK i \in 1..n : g[i] = p
      BY <3>1, <1>1, <1>13
    <3>3. k = f[i][1]
      BY <3>1, <3>2, <1>4
    <3> QED
      BY <3>3, <1>8
  <2>2. D = DOMAIN MapOf(table)
    BY <2>1, <1>10, <1>11
  <2>3. MapOf(table) = [k \in DOMAIN MapOf(table) |-> MapOf(table)[k]]
    BY MapIs
  <2> QED
    BY <2>2, <2>3, <1>12
<1> QED
  BY <1>7, <1>11, <1>12, <1>13, <1>2 DEF M!Parts, f

LEMMA WrittenIsPart ==
  ASSUME table # NULL, TableOK(table), NEW f \in Written
  PROVE  FileOK(f) /\ FileMap(f) \in M!Parts(MapOf(table))
BY RecordsArePart DEF Written

LEMMA AllIsWhole ==
  ASSUME table # NULL, TableOK(table)
  PROVE  AllRecords \in Written /\ FileMap(AllRecords) = MapOf(table)
<1>1. Len(Entries(table)) \in 0..Len(Entries(table))
  <2>1. Places(table) \in SUBSET Places(table)
    OBVIOUS
  <2>2. Len(Entries(table)) = Cardinality(Places(table)) /\ Cardinality(Places(table)) \in Nat
    BY <2>1, VisitedIs DEF Entries
  <2> QED
    BY <2>2
<1> QED
  BY <1>1, RecordsArePart DEF AllRecords, Written

\* A table whose every value is in the file is a part of it, and all of it if
\* it has a value for every record.
LEMMA LoadedIsPart ==
  ASSUME NEW t, TableOK(t), NEW f, FileOK(f),
         \A k \in Keyed(t) : k \in DOMAIN FileMap(f) /\ Lookup(t, k) = FileMap(f)[k]
  PROVE  /\ MapOf(t) \in M!Parts(FileMap(f))
         /\ (\A i \in 1..Len(f) : f[i][1] \in Keyed(t)) => MapOf(t) = FileMap(f)
<1>1. MapOf(t) \in [Keyed(t) -> Values]
  BY MapIs
<1>2. ASSUME NEW k \in Keyed(t) PROVE MapOf(t)[k] = FileMap(f)[k]
  BY MapIs
<1>3. MapOf(t) = [k \in Keyed(t) |-> FileMap(f)[k]]
  BY <1>1, <1>2
<1>4. Keyed(t) \in SUBSET DOMAIN FileMap(f)
  OBVIOUS
<1>5. ASSUME \A i \in 1..Len(f) : f[i][1] \in Keyed(t) PROVE MapOf(t) = FileMap(f)
  <2>1. Keyed(t) = DOMAIN FileMap(f)
    <3>1. DOMAIN FileMap(f) = {f[i][1] : i \in 1..Len(f)}
      BY FileMapIs
    <3> QED
      BY <1>4, <1>5, <3>1
  <2>2. FileMap(f) = [k \in DOMAIN FileMap(f) |-> FileMap(f)[k]]
    BY FileMapIs
  <2> QED
    BY <2>1, <2>2, <1>3
<1> QED
  BY <1>3, <1>4, <1>5 DEF M!Parts

-----------------------------------------------------------------------------
(* The invariant is inductive.                                             *)

\* A step of ht_load: one more record of the file, or none if it was not stored.
LEMMA LoadRecordKeeps ==
  ASSUME Inv, ht_load_record
  PROVE  Inv'
<1> DEFINE r == file[loading.read + 1]
           k == r[1]
           v == r[2]
<1>1. /\ loading # NULL /\ SearchEnds(table) /\ loading.read < Len(file)
      /\ UNCHANGED <<file, failed, ret>>
  BY DEF ht_load_record
<1>2. \/ table' = Stored(table, k, v) /\ loading' = [loading EXCEPT !.read = @ + 1]
      \/ /\ table' \in NotStored(table, k)
         /\ loading' = [read |-> loading.read + 1, missed |-> TRUE]
  BY DEF ht_load_record
<1>3. LoadOK /\ loading \in Loading /\ table # NULL /\ file # NULL
  BY <1>1 DEF Inv, LoadOK
<1>4. TableOK(table) /\ table.size < table.capacity /\ FileOK(file)
  BY <1>3 DEF Inv
<1>5. loading.read \in Nat /\ loading.read + 1 \in 1..Len(file)
  BY <1>1, <1>3, <1>4 DEF FileOK, Loading
<1>6. k \in Keys /\ v \in Values
  BY <1>4, <1>5 DEF FileOK
<1>7. k \in DOMAIN FileMap(file) /\ FileMap(file)[k] = v
  BY <1>4, <1>5, FileMapIs
<1> HIDE DEF r
<1> DEFINE u == table'
<1>8. /\ TableOK(u) /\ u.size < u.capacity
      /\ \A j \in Keyed(u) : j \in DOMAIN FileMap(file) /\ Lookup(u, j) = FileMap(file)[j]
      /\ ~loading'.missed => Keyed(u) = Keyed(table) \cup {k} /\ ~loading.missed
      /\ loading' \in Loading /\ loading'.read = loading.read + 1
  <2>1. CASE u = Stored(table, k, v) /\ loading' = [loading EXCEPT !.read = @ + 1]
    <3>1. Sets(u, table, k, v) /\ u.size < u.capacity
      BY <2>1, <1>1, <1>4, <1>6, StoredSets
    <3>2. ASSUME NEW j \in Keyed(u)
          PROVE  j \in DOMAIN FileMap(file) /\ Lookup(u, j) = FileMap(file)[j]
      <4>1. CASE j = k
        BY <4>1, <3>1, <1>7 DEF Sets
      <4>2. CASE j # k
        <5>1. j \in Keyed(table) \ {k}
          BY <4>2, <3>1 DEF Sets
        <5> QED
          BY <5>1, <3>1, <1>3 DEF Sets, LoadOK
      <4> QED
        BY <4>1, <4>2
    <3>3. /\ loading' \in Loading /\ loading'.read = loading.read + 1
          /\ loading'.missed = loading.missed
      BY <2>1, <1>3, <1>5 DEF Loading
    <3> QED
      BY <3>1, <3>2, <3>3 DEF Sets
  <2>2. CASE u \in NotStored(table, k) /\ loading' = [read |-> loading.read + 1, missed |-> TRUE]
    <3>1. /\ TableOK(u) /\ u.size < u.capacity
          /\ Keyed(u) = Keyed(table) /\ MapOf(u) = MapOf(table)
      BY <2>2, <1>1, <1>4, <1>6, NotStoredSame
    <3>2. ASSUME NEW j \in Keyed(u)
          PROVE  j \in DOMAIN FileMap(file) /\ Lookup(u, j) = FileMap(file)[j]
      <4>1. Lookup(u, j) = Lookup(table, j)
        BY <3>1, <1>4, MapIs
      <4> QED
        BY <4>1, <3>1, <1>3 DEF LoadOK
    <3>3. loading' \in Loading /\ loading'.read = loading.read + 1 /\ loading'.missed
      BY <2>2, <1>3, <1>5 DEF Loading
    <3> QED
      BY <3>1, <3>2, <3>3
  <2> QED
    BY <1>2, <2>1, <2>2
<1>9. u # NULL
  BY <1>8, NullAssumption DEF TableOK
<1>10. /\ file' = file /\ ret' = ret /\ failed' = failed
       /\ loading'.read <= Len(file) /\ loading' # NULL
  BY <1>1, <1>5, <1>8, NullAssumption
<1>11. ASSUME ~loading'.missed, NEW i \in 1..loading'.read PROVE file[i][1] \in Keyed(u)
  <2>1. Keyed(u) = Keyed(table) \cup {k} /\ ~loading.missed
    BY <1>8, <1>11
  <2>2. CASE i = loading.read + 1
    BY <2>1, <2>2 DEF r
  <2>3. CASE i # loading.read + 1
    <3>1. i \in 1..loading.read
      BY <2>3, <1>5, <1>8
    <3> QED
      BY <3>1, <2>1, <1>3 DEF LoadOK
  <2> QED
    BY <2>2, <2>3
<1>12. LoadOK'
  BY <1>3, <1>8, <1>9, <1>10, <1>11 DEF LoadOK
<1> QED
  BY <1>4, <1>8, <1>10, <1>12 DEF Inv

LEMMA SaveKeeps ==
  ASSUME Inv, table # NULL, Save
  PROVE  (file' # NULL => FileOK(file')) /\ failed' \in BOOLEAN
<1>1. TableOK(table)
  BY DEF Inv
<1>2. AllRecords \in Written
  BY <1>1, AllIsWhole
<1> QED
  BY <1>1, <1>2, WrittenIsPart DEF Save, Inv

LEMMA InvInit == Init => Inv
BY DEF Init, Inv

LEMMA InvStep ==
  ASSUME Inv, [Next]_vars
  PROVE  Inv'
<1>1. CASE UNCHANGED vars
  BY <1>1 DEF vars, Inv, LoadOK
<1>2. CASE ht_create
  <2>1. file' = file /\ loading' = loading /\ failed' = failed /\ ret' = ret /\ table = NULL
    BY <1>2 DEF ht_create
  <2>2. loading = NULL
    BY <2>1 DEF Inv, LoadOK
  <2>3. table' # NULL => TableOK(table') /\ table'.size < table'.capacity
    <3>1. ASSUME table' # NULL PROVE \E h \in Hashes : table' = NewTable(h)
      BY <1>2, <3>1 DEF ht_create
    <3> QED
      BY <3>1, NewTableIs
  <2> QED
    BY <2>1, <2>2, <2>3 DEF Inv
<1>3. CASE ht_snapshot
  <2>1. table' = table /\ loading' = NULL /\ table # NULL /\ Save /\ ret' = ret
    BY <1>3 DEF ht_snapshot, Ready
  <2>2. TableOK(table) /\ table.size < table.capacity
    BY <2>1 DEF Inv
  <2>3. (file' # NULL => FileOK(file')) /\ failed' \in BOOLEAN
    BY <2>1, <2>2, SaveKeeps
  <2> QED
    BY <2>1, <2>2, <2>3 DEF Inv
<1>4. CASE ht_destroy
  <2>1. /\ table' = NULL /\ loading' = NULL /\ table # NULL /\ ret' = ret
        /\ (Save \/ UNCHANGED <<file, failed>>)
    BY <1>4 DEF ht_destroy, Ready
  <2>2. TableOK(table)
    BY <2>1 DEF Inv
  <2>3. (file' # NULL => FileOK(file')) /\ failed' \in BOOLEAN
    BY <2>1, <2>2, SaveKeeps DEF Inv
  <2> QED
    BY <2>1, <2>3 DEF Inv
<1>5. CASE ht_load
  <2>1. /\ table' = table /\ file' = file /\ table # NULL /\ file # NULL
        /\ table.size = 0 /\ loading' = [read |-> 0, missed |-> FALSE]
        /\ failed' = failed /\ ret' = ret
    BY <1>5 DEF ht_load, Ready
  <2>2. TableOK(table) /\ table.size < table.capacity /\ FileOK(file)
    BY <2>1 DEF Inv
  <2>3. Keyed(table) = {}
    BY <2>1, <2>2, FS_EmptySet DEF TableOK, Counted
  <2>4. Keyed(table)' = {}
    BY <2>1, <2>3
  <2>5. loading' \in Loading /\ loading'.read = 0 /\ 0 <= Len(file')
    BY <2>1, <2>2 DEF FileOK, Loading
  <2>6. LoadOK'
    BY <2>1, <2>4, <2>5 DEF LoadOK
  <2> QED
    BY <2>1, <2>2, <2>6 DEF Inv
<1>6. CASE ht_load_record
  BY <1>6, LoadRecordKeeps
<1>7. CASE ht_load_refused \/ ht_load_clean
  <2>1. table' = table /\ file' = file /\ loading' = NULL /\ ret' \in {0, 1}
    BY <1>7 DEF ht_load_refused, ht_load_clean, Ready
  <2>2. failed' \in BOOLEAN
    BY <1>7 DEF ht_load_refused, ht_load_clean, Inv, LoadOK, Loading
  <2> QED
    BY <2>1, <2>2 DEF Inv
<1>8. ASSUME NEW k \in Keys,
             ht_set_error(k) \/ ht_delete(k) \/ \E v \in Values : ht_set(k, v)
      PROVE  Inv'
  <2>1. /\ file' = file /\ loading' = NULL /\ failed' = failed /\ table # NULL
        /\ ret' \in {0, 1}
    BY <1>8 DEF ht_set_error, ht_delete, ht_set, Ready
  <2>2. TableOK(table) /\ table.size < table.capacity
    BY <2>1 DEF Inv
  <2>3. TableOK(table') /\ table'.size < table'.capacity
    <3>1. CASE ht_set_error(k)
      BY <3>1, <2>2, NotStoredSame DEF ht_set_error
    <3>2. ASSUME NEW v \in Values, ht_set(k, v)
          PROVE  TableOK(table') /\ table'.size < table'.capacity
      BY <3>2, <2>2, StoredSets DEF ht_set, Sets
    <3>3. CASE ht_delete(k)
      <4>1. CASE Find(table, k) = 0
        BY <4>1, <3>3, <2>2 DEF ht_delete
      <4>2. CASE Find(table, k) # 0
        <5>1. table' = Removed(table, k)
          BY <4>2, <3>3 DEF ht_delete
        <5>2. /\ TableOK(table') /\ table'.size = table.size - 1
              /\ table'.capacity = table.capacity
          BY <4>2, <5>1, <2>2, RemovedDeletes
        <5>3. table.size \in Nat /\ table.capacity \in Nat
          BY <2>2 DEF TableOK, Hash_Table
        <5> QED
          BY <5>2, <5>3, <2>2
      <4> QED
        BY <4>1, <4>2
    <3> QED
      BY <3>1, <3>2, <3>3, <1>8
  <2> QED
    BY <2>1, <2>3 DEF Inv
<1>9. ASSUME NEW k \in Keys, ht_get(k) PROVE Inv'
  <2>1. /\ table' = table /\ file' = file /\ loading' = NULL /\ table # NULL
        /\ failed' = failed /\ ret' = Lookup(table, k)
    BY <1>9 DEF ht_get, Ready
  <2>2. ret' \in Values \cup {NULL}
    BY <2>1, LookupIs DEF Inv
  <2> QED
    BY <2>1, <2>2 DEF Inv
<1> QED
  BY <1>1, <1>2, <1>3, <1>4, <1>5, <1>6, <1>7, <1>8, <1>9 DEF Next

LEMMA InvAlways == Spec => []Inv
<1>1. Init => Inv
  BY InvInit
<1>2. Inv /\ [Next]_vars => Inv'
  BY InvStep
<1> QED
  BY <1>1, <1>2, PTL DEF Spec

-----------------------------------------------------------------------------
(* The theorems.                                                           *)

\* There are as many buckets as capacity says, and ht_load is within its file
\* (ht_resize, ht_load).
THEOREM TypeCorrect == Spec => []TypeOK
<1>1. Inv => TypeOK
  BY DEF Inv, TypeOK, TableOK, FileOK, LoadOK
<1> QED
  BY <1>1, InvAlways, PTL

\* No key is chained twice, and size, by which the rate limiter recycles its
\* table, is the number of entries, after any calls, failures and loads.
THEOREM SizeCounts == Spec => []EntriesCounted
<1>1. Inv => EntriesCounted
  <2> SUFFICES ASSUME Inv, table # NULL
               PROVE  /\ \A i, j \in DOMAIN Entries(table) :
                            Entries(table)[i].key = Entries(table)[j].key => i = j
                      /\ table.size = Len(Entries(table))
    BY DEF EntriesCounted
  <2> DEFINE n == Cardinality(Places(table))
             g == InOrder(Places(table))
             es == Entries(table)
  <2>1. TableOK(table)
    BY DEF Inv
  <2>2. /\ n \in Nat /\ g \in [1..n -> Places(table)]
        /\ \A i, j \in 1..n : g[i] = g[j] => i = j
        /\ es \in Seq(Entry) /\ Len(es) = n
        /\ \A i \in 1..n : es[i] = At(table, g[i])
    BY <2>1, VisitedIs DEF Entries
  <2> HIDE DEF n, g, es
  <2>3. ASSUME NEW i \in DOMAIN es, NEW j \in DOMAIN es, es[i].key = es[j].key
        PROVE  i = j
    <3>1. i \in 1..n /\ j \in 1..n
      BY <2>2
    <3>2. At(table, g[i]).key = At(table, g[j]).key /\ g[i] \in Places(table) /\ g[j] \in Places(table)
      BY <3>1, <2>2, <2>3
    <3>3. g[i] = g[j]
      BY <3>2, <2>1 DEF TableOK, KeyedOnce
    <3> QED
      BY <3>1, <3>3, <2>2
  <2>4. table.size = n
    BY <2>1, PlacesFinite DEF n, TableOK, Counted
  <2>5. table.size = Len(es)
    BY <2>2, <2>4
  <2> QED
    BY <2>3, <2>5 DEF es
<1> QED
  BY <1>1, InvAlways, PTL

\* Every entry is in the bucket of its hash, under the table's own seed,
\* whatever the capacities and the hash functions (ht_resize, ht_load).
THEOREM HashesPlace == Spec => []EntriesPlaced
<1>1. Inv => EntriesPlaced
  BY DEF Inv, TableOK, Placed, EntriesPlaced
<1> QED
  BY <1>1, InvAlways, PTL

\* The load factor stays below one (hash_table.c:90).
THEOREM RoomLeft == Spec => []LoadBelowOne
<1>1. Inv => LoadBelowOne
  BY DEF Inv, LoadBelowOne
<1> QED
  BY <1>1, InvAlways, PTL

-----------------------------------------------------------------------------
(* The refinement.                                                         *)

LEMMA EmptyMap ==
  ASSUME NEW t, TableOK(t), Keyed(t) = {}
  PROVE  MapOf(t) = M!Empty
BY MapIs DEF M!Empty

LEMMA EmptyIsNotNull == M!Empty # NULL
<1>1. M!Empty \in [{} -> Values] /\ {} \in SUBSET Keys
  BY DEF M!Empty
<1> QED
  BY <1>1, NullAssumption

\* What the callers of a table see, while no load runs.
LEMMA SeenReady ==
  ASSUME Inv, Ready
  PROVE  /\ TableOK(table) /\ table.size < table.capacity
         /\ MapSeen = MapOf(table) /\ MapSeen # NULL
         /\ DOMAIN MapSeen = Keyed(table)
         /\ \A k \in Keyed(table) : MapSeen[k] = Lookup(table, k)
<1>1. TableOK(table) /\ table.size < table.capacity /\ MapSeen = MapOf(table)
  BY DEF Inv, Ready, MapSeen
<1> QED
  BY <1>1, MapIs

LEMMA TableIsNotNull ==
  ASSUME NEW t, TableOK(t)
  PROVE  t # NULL
BY NullAssumption DEF TableOK

LEMMA SeenNext ==
  ASSUME table' # NULL, loading' = NULL
  PROVE  MapSeen' = MapOf(table')
BY DEF MapSeen

LEMMA CreateRefines ==
  ASSUME Inv, ht_create
  PROVE  M!Create
<1>1. table = NULL /\ UNCHANGED <<file, loading, failed, ret>> /\ loading = NULL
  BY DEF ht_create, Inv, LoadOK
<1>2. MapSeen = NULL /\ FileSeen' = FileSeen
  BY <1>1 DEF MapSeen, FileSeen
<1>3. CASE table' = NULL
  BY <1>1, <1>2, <1>3 DEF MapSeen, M!Create
<1>4. ASSUME NEW h \in Hashes, table' = NewTable(h) PROVE M!Create
  <2>1. TableOK(table') /\ Keyed(table') = {}
    BY <1>4, NewTableIs
  <2>2. MapOf(table') = M!Empty
    BY <2>1, EmptyMap
  <2>3. MapSeen' = MapOf(table')
    BY <1>1, <2>1, TableIsNotNull, SeenNext
  <2> QED
    BY <1>1, <1>2, <2>2, <2>3 DEF M!Create
<1> QED
  BY <1>3, <1>4 DEF ht_create

\* All or nothing, and the answer says which.
LEMMA SetRefines ==
  ASSUME Inv, NEW k \in Keys
  PROVE  /\ \A v \in Values : ht_set(k, v) => M!Set(k, v)
         /\ ht_set_error(k) => M!SetFails
<1>1. ASSUME Ready, UNCHANGED <<file, loading, failed>>
      PROVE  /\ TableOK(table) /\ table.size < table.capacity
             /\ MapSeen = MapOf(table) /\ MapSeen # NULL
             /\ loading' = NULL /\ FileSeen' = FileSeen
  BY <1>1, SeenReady DEF FileSeen, Ready
<1>2. ASSUME NEW v \in Values, ht_set(k, v) PROVE M!Set(k, v)
  <2>1. /\ Ready /\ SearchEnds(table) /\ UNCHANGED <<file, loading, failed>>
        /\ table' = Stored(table, k, v) /\ ret' = 1
    BY <1>2 DEF ht_set
  <2>2. Sets(table', table, k, v)
    BY <2>1, <1>1, StoredSets
  <2>3. MapOf(table') = M!With(MapOf(table), k, v)
    BY <2>1, <2>2, <1>1, SetsMap
  <2>4. table' # NULL
    BY <2>2, TableIsNotNull DEF Sets
  <2>5. MapSeen' = M!With(MapSeen, k, v)
    BY <2>1, <2>3, <2>4, <1>1, SeenNext
  <2> QED
    BY <2>1, <2>5, <1>1 DEF M!Set
<1>3. ASSUME ht_set_error(k) PROVE M!SetFails
  <2>1. /\ Ready /\ SearchEnds(table) /\ UNCHANGED <<file, loading, failed>>
        /\ table' \in NotStored(table, k) /\ ret' = 0
    BY <1>3 DEF ht_set_error
  <2>2. TableOK(table') /\ MapOf(table') = MapOf(table)
    BY <2>1, <1>1, NotStoredSame
  <2>3. MapSeen' = MapSeen
    BY <2>1, <2>2, <1>1, TableIsNotNull, SeenNext
  <2> QED
    BY <2>1, <2>3, <1>1 DEF M!SetFails
<1> QED
  BY <1>2, <1>3

LEMMA GetRefines ==
  ASSUME Inv, NEW k \in Keys, ht_get(k)
  PROVE  M!Get(k)
<1>1. Ready /\ UNCHANGED <<table, file, loading, failed>> /\ ret' = Lookup(table, k)
  BY DEF ht_get
<1>2. /\ TableOK(table) /\ MapSeen # NULL /\ DOMAIN MapSeen = Keyed(table)
      /\ \A j \in Keyed(table) : MapSeen[j] = Lookup(table, j)
  BY <1>1, SeenReady
<1>3. ret' = IF k \in DOMAIN MapSeen THEN MapSeen[k] ELSE NULL
  <2>1. CASE k \in Keyed(table)
    BY <2>1, <1>1, <1>2
  <2>2. CASE k \notin Keyed(table)
    BY <2>2, <1>1, <1>2, LookupIs
  <2> QED
    BY <2>1, <2>2
<1>4. MapSeen' = MapSeen /\ FileSeen' = FileSeen
  BY <1>1 DEF MapSeen, FileSeen
<1> QED
  BY <1>1, <1>2, <1>3, <1>4 DEF M!Get

LEMMA DeleteRefines ==
  ASSUME Inv, NEW k \in Keys, ht_delete(k)
  PROVE  M!Delete(k)
<1>1. Ready /\ UNCHANGED <<file, loading, failed>>
  BY DEF ht_delete
<1>2. /\ TableOK(table) /\ MapSeen = MapOf(table) /\ MapSeen # NULL
      /\ DOMAIN MapSeen = Keyed(table)
      /\ \A j \in Keyed(table) : MapSeen[j] = Lookup(table, j)
  BY <1>1, SeenReady
<1>3. FileSeen' = FileSeen
  BY <1>1 DEF FileSeen
<1> DEFINE rest == [j \in DOMAIN MapSeen \ {k} |-> MapSeen[j]]
<1>4. CASE Find(table, k) = 0
  <2>1. ret' = 0 /\ table' = table /\ k \notin Keyed(table)
    BY <1>2, <1>4, FindIs DEF ht_delete
  <2>2. MapSeen' = MapSeen
    BY <2>1, <1>1 DEF MapSeen
  <2>3. MapSeen \in [Keyed(table) -> Values] /\ DOMAIN MapSeen \ {k} = Keyed(table)
    BY <2>1, <1>2, MapIs
  <2>4. MapSeen = rest
    BY <2>3
  <2> QED
    BY <2>1, <2>2, <2>4, <1>1, <1>2, <1>3 DEF M!Delete
<1>5. CASE Find(table, k) # 0
  <2>1. ret' = 1 /\ table' = Removed(table, k) /\ k \in Keyed(table)
    BY <1>2, <1>5, FindIs DEF ht_delete
  <2> DEFINE u == table'
  <2>2. /\ TableOK(u) /\ Keyed(u) = Keyed(table) \ {k}
        /\ \A j \in Keyed(u) : Lookup(u, j) = Lookup(table, j)
    BY <2>1, <1>2, <1>5, RemovedDeletes
  <2>3. MapSeen' = MapOf(u)
    BY <2>2, <1>1, TableIsNotNull, SeenNext DEF Ready
  <2>4. MapOf(u) \in [Keyed(u) -> Values]
    BY <2>2, MapIs
  <2>5. ASSUME NEW j \in Keyed(u) PROVE MapOf(u)[j] = MapSeen[j]
    BY <2>2, <1>2, MapIs
  <2>6. DOMAIN MapSeen \ {k} = Keyed(u)
    BY <2>2, <1>2
  <2>7. MapOf(u) = rest
    BY <2>4, <2>5, <2>6
  <2> QED
    BY <2>1, <2>3, <2>7, <1>1, <1>2, <1>3 DEF M!Delete
<1> QED
  BY <1>4, <1>5

\* What a snapshot leaves in the file, as the abstract specification sees it.
LEMMA SaveRefines ==
  ASSUME Inv, Ready, Save
  PROVE  M!Save
<1>1. TableOK(table) /\ MapSeen = MapOf(table) /\ table # NULL
  BY SeenReady DEF Ready
<1>2. AllRecords \in Written /\ FileMap(AllRecords) = MapOf(table)
  BY <1>1, AllIsWhole
<1>3. ASSUME file' \in Written
      PROVE  FileSeen' = FileMap(file') /\ FileMap(file') \in M!Parts(MapOf(table))
  <2>1. FileOK(file') /\ FileMap(file') \in M!Parts(MapOf(table))
    BY <1>1, <1>3, WrittenIsPart
  <2> QED
    BY <2>1, FileMapIs DEF FileSeen
<1>4. CASE file' = AllRecords /\ failed' = FALSE
  BY <1>1, <1>2, <1>3, <1>4 DEF M!Save
<1>5. CASE file' = file /\ failed' = TRUE
  <2>1. FileSeen' = FileSeen
    BY <1>5 DEF FileSeen
  <2> QED
    BY <1>5, <2>1 DEF M!Save
<1>6. CASE file' \in Written /\ failed' = TRUE
  BY <1>1, <1>3, <1>6 DEF M!Save
<1> QED
  BY <1>4, <1>5, <1>6 DEF Save

LEMMA SnapshotRefines ==
  ASSUME Inv, ht_snapshot
  PROVE  M!Snapshot
<1>1. Ready /\ Save /\ UNCHANGED <<table, loading, ret>>
  BY DEF ht_snapshot
<1>2. MapSeen' = MapSeen /\ MapSeen # NULL
  BY <1>1, SeenReady DEF MapSeen
<1>3. M!Save
  BY <1>1, SaveRefines
<1> QED
  BY <1>1, <1>2, <1>3 DEF M!Snapshot

LEMMA DestroyRefines ==
  ASSUME Inv, ht_destroy
  PROVE  M!Destroy
<1>1. /\ Ready /\ (Save \/ UNCHANGED <<file, failed>>)
      /\ table' = NULL /\ UNCHANGED <<loading, ret>>
  BY DEF ht_destroy
<1>2. MapSeen' = NULL /\ MapSeen # NULL
  BY <1>1, SeenReady DEF MapSeen
<1>3. M!Save \/ UNCHANGED <<FileSeen, failed>>
  <2>1. CASE UNCHANGED <<file, failed>>
    BY <2>1 DEF FileSeen
  <2>2. CASE Save
    BY <2>2, <1>1, SaveRefines
  <2> QED
    BY <2>1, <2>2, <1>1
<1> QED
  BY <1>1, <1>2, <1>3 DEF M!Destroy

\* The end of a load is where the abstract one happens.
LEMMA LoadRefines ==
  ASSUME Inv
  PROVE  (ht_load_refused => M!LoadRefused) /\ (ht_load_clean => M!Load)
<1>1. ASSUME ht_load_refused PROVE M!LoadRefused
  <2>1. Ready /\ UNCHANGED <<table, file, loading, failed>> /\ ret' = 0
    BY <1>1 DEF ht_load_refused
  <2>2. MapSeen' = MapSeen /\ FileSeen' = FileSeen /\ MapSeen # NULL
    BY <2>1, SeenReady DEF MapSeen, FileSeen
  <2> QED
    BY <2>1, <2>2 DEF M!LoadRefused
<1>2. ASSUME ht_load_clean PROVE M!Load
  <2>1. /\ loading # NULL /\ loading' = NULL /\ ret' = 1 /\ UNCHANGED <<table, file>>
        /\ failed' = (loading.missed \/ loading.read < Len(file))
    BY <1>2 DEF ht_load_clean
  <2>2. LoadOK /\ table # NULL /\ file # NULL /\ TableOK(table) /\ FileOK(file)
    BY <2>1 DEF Inv, LoadOK
  <2>3. MapSeen = M!Empty /\ MapSeen # NULL
    BY <2>1, <2>2, EmptyIsNotNull DEF MapSeen, M!Empty
  <2>4. FileSeen = FileMap(file) /\ FileSeen # NULL /\ FileSeen' = FileSeen
    BY <2>1, <2>2, FileMapIs DEF FileSeen
  <2>5. MapSeen' = MapOf(table)
    BY <2>1, <2>2 DEF MapSeen
  <2>6. MapOf(table) \in M!Parts(FileMap(file))
    BY <2>2, LoadedIsPart DEF LoadOK
  <2>7. failed' \in BOOLEAN
    BY <2>1, <2>2 DEF LoadOK, Loading
  <2>8. ASSUME failed' = FALSE PROVE MapOf(table) = FileMap(file)
    <3>1. ~loading.missed /\ ~(loading.read < Len(file))
      BY <2>1, <2>8, Zenon
    <3>2. loading.read \in Nat /\ loading.read <= Len(file) /\ Len(file) \in Nat
      BY <2>2 DEF LoadOK, Loading, FileOK
    <3>3. loading.read = Len(file)
      BY <3>1, <3>2
    <3>4. \A i \in 1..Len(file) : file[i][1] \in Keyed(table)
      BY <2>2, <3>1, <3>3 DEF LoadOK
    <3> QED
      BY <2>2, <3>4, LoadedIsPart DEF LoadOK
  <2> QED
    BY <2>1, <2>3, <2>4, <2>5, <2>6, <2>7, <2>8 DEF M!Load
<1> QED
  BY <1>1, <1>2

\* The beginning of a load and its records are not seen.
LEMMA LoadStutters ==
  ASSUME Inv, Inv', ht_load \/ ht_load_record
  PROVE  UNCHANGED <<MapSeen, FileSeen, failed, ret>>
<1>1. CASE ht_load
  <2>1. /\ Ready /\ table.size = 0 /\ UNCHANGED <<table, file, failed, ret>>
        /\ loading' = [read |-> 0, missed |-> FALSE]
    BY <1>1 DEF ht_load
  <2>2. loading' # NULL
    <3>1. loading' \in Loading
      BY <2>1 DEF Loading
    <3> QED
      BY <3>1, NullAssumption
  <2>3. TableOK(table) /\ MapSeen = MapOf(table) /\ table # NULL
    BY <2>1, SeenReady DEF Ready
  <2>4. Keyed(table) = {}
    BY <2>1, <2>3, FS_EmptySet DEF TableOK, Counted
  <2>5. MapSeen = M!Empty
    BY <2>3, <2>4, EmptyMap
  <2>6. MapSeen' = M!Empty
    BY <2>1, <2>3, <2>2 DEF MapSeen, M!Empty
  <2> QED
    BY <2>1, <2>5, <2>6 DEF FileSeen
<1>2. CASE ht_load_record
  <2>1. /\ loading # NULL /\ UNCHANGED <<file, failed, ret>>
        /\ \/ loading' = [loading EXCEPT !.read = @ + 1]
           \/ loading' = [read |-> loading.read + 1, missed |-> TRUE]
    BY <1>2 DEF ht_load_record
  <2>2. table # NULL /\ loading \in Loading
    BY <2>1 DEF Inv, LoadOK
  <2>3. loading' # NULL
    <3>1. loading.read + 1 \in Nat /\ loading.missed \in BOOLEAN
      BY <2>2 DEF Loading
    <3>2. ASSUME loading' = [loading EXCEPT !.read = @ + 1] PROVE loading' \in Loading
      BY <3>1, <3>2, <2>2 DEF Loading
    <3>3. ASSUME loading' = [read |-> loading.read + 1, missed |-> TRUE]
          PROVE  loading' \in Loading
      BY <3>1, <3>3 DEF Loading
    <3>4. loading' \in Loading
      BY <2>1, <3>2, <3>3
    <3> QED
      BY <3>4, NullAssumption
  <2>4. table' # NULL
    BY <2>3 DEF Inv, LoadOK
  <2>5. MapSeen = M!Empty /\ MapSeen' = M!Empty
    BY <2>1, <2>2, <2>3, <2>4 DEF MapSeen, M!Empty
  <2> QED
    BY <2>1, <2>5 DEF FileSeen
<1> QED
  BY <1>1, <1>2

\* Every step is one of a map that may run out of memory and of a file that
\* holds it, or after a failure a part of it, or is not seen (hash_table.h).
LEMMA StepRefines ==
  ASSUME Inv, Inv', [Next]_vars
  PROVE  [M!Next]_<<MapSeen, FileSeen, failed, ret>>
<1>1. CASE UNCHANGED vars
  BY <1>1 DEF vars, MapSeen, FileSeen
<1>2. CASE ht_create
  BY <1>2, CreateRefines DEF M!Next
<1>3. CASE ht_snapshot
  BY <1>3, SnapshotRefines DEF M!Next
<1>4. CASE ht_destroy
  BY <1>4, DestroyRefines DEF M!Next
<1>5. CASE ht_load_refused \/ ht_load_clean
  BY <1>5, LoadRefines DEF M!Next
<1>6. CASE ht_load \/ ht_load_record
  BY <1>6, LoadStutters
<1>7. ASSUME NEW k \in Keys, NEW v \in Values, ht_set(k, v)
      PROVE  M!Next
  BY <1>7, SetRefines DEF M!Next
<1>8. ASSUME NEW k \in Keys, ht_set_error(k)
      PROVE  M!Next
  BY <1>8, SetRefines DEF M!Next
<1>9. ASSUME NEW k \in Keys, ht_get(k) PROVE M!Next
  BY <1>9, GetRefines DEF M!Next
<1>10. ASSUME NEW k \in Keys, ht_delete(k) PROVE M!Next
  BY <1>10, DeleteRefines DEF M!Next
<1> QED
  BY <1>1, <1>2, <1>3, <1>4, <1>5, <1>6, <1>7, <1>8, <1>9, <1>10 DEF Next

\* The hash table implements the map that hash_table.h promises, for every
\* set of keys, hash functions and first capacity.
THEOREM Refinement == Spec => ImplementsMap
<1>1. Init => M!Init
  BY DEF Init, M!Init, MapSeen, FileSeen
<1>2. Inv /\ Inv' /\ [Next]_vars => [M!Next]_<<MapSeen, FileSeen, failed, ret>>
  BY StepRefines
<1> QED
  BY <1>1, <1>2, InvAlways, PTL DEF Spec, ImplementsMap, M!Spec

=============================================================================
