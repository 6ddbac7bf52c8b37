---------------------------- MODULE MCHashTable ----------------------------
(* Instance of HashTable for TLC.                                          *)
EXTENDS HashTable

\* Two seeds.  With the first, two keys always collide and the third meets
\* them in a table of 3 buckets but not in one of 7; with the second the
\* entries are all apart.
Seeds == {[k \in Keys |-> IF k = "c" THEN 4 ELSE 1],
          [k \in Keys |-> IF k = "a" THEN 0 ELSE IF k = "b" THEN 1 ELSE 2]}

VARIABLE probe  \* a capacity to try next_prime on, or 0

\* Capacities are tried one after the other, before there is a table.
ProbeBound == 150
Probe ==
  /\ Init
  /\ probe' = (probe + 1) % (ProbeBound + 1)
  /\ UNCHANGED vars

ProbeInit == Init /\ probe = 0
ProbeNext == Probe \/ (probe = 0 /\ Next /\ UNCHANGED probe)
ProbeSpec == ProbeInit /\ [][ProbeNext]_<<vars, probe>>

\* A table that grows from capacity probe gets the next prime >= 2 * probe, as
\* README.md:127 says, except from 1, where it gets 3 and not 2 (next_prime,
\* is_prime).
GrowsToPrime == probe > 0 => GrowsTo(probe)
=============================================================================
