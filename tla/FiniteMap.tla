----------------------------- MODULE FiniteMap -----------------------------
(***************************************************************************)
(* What hash_table.h promises, as far as the code keeps it: a map that may *)
(* run out of memory, and a snapshot of it in a file.  The header says     *)
(* that a snapshot has all entries and that a load returns 0 on failure.   *)
(* So it is as long as nothing fails; a failure while entries are written  *)
(* or read is not reported, and only then some of them may be missing.     *)
(***************************************************************************)
CONSTANTS Keys, Values, NULL

VARIABLES
  map,    \* NULL, or the value of each key that is in the table
  saved,  \* NULL, or the part of a map that reached the file
  failed, \* whether the latest save or load met a failure it did not report
  ret     \* what the latest call returned

Empty == [k \in {} |-> NULL]

With(m, k, v) ==
  [j \in DOMAIN m \cup {k} |-> IF j = k THEN v ELSE m[j]]

Parts(m) == {[k \in D |-> m[k]] : D \in SUBSET DOMAIN m}

Init == map = NULL /\ saved = NULL /\ failed = FALSE /\ ret = NULL

Create ==
  /\ map = NULL
  /\ map' \in {NULL, Empty}
  /\ UNCHANGED <<saved, failed, ret>>

\* All or nothing, and the return value says which.
Set(k, v) ==
  /\ map # NULL
  /\ ret' = 1
  /\ map' = With(map, k, v)
  /\ UNCHANGED <<saved, failed>>

SetFails ==
  /\ map # NULL
  /\ ret' = 0
  /\ UNCHANGED <<map, saved, failed>>

Get(k) ==
  /\ map # NULL
  /\ ret' = IF k \in DOMAIN map THEN map[k] ELSE NULL
  /\ UNCHANGED <<map, saved, failed>>

Delete(k) ==
  /\ map # NULL
  /\ ret' = IF k \in DOMAIN map THEN 1 ELSE 0
  /\ map' = [j \in DOMAIN map \ {k} |-> map[j]]
  /\ UNCHANGED <<saved, failed>>

\* The whole map, unless something fails; the file may then not even be opened.
Save ==
  \/ failed' = FALSE /\ saved' = map
  \/ failed' = TRUE /\ (saved' = saved \/ saved' \in Parts(map))

Snapshot ==
  /\ map # NULL
  /\ Save
  /\ UNCHANGED <<map, ret>>

\* With a snapshot or without.
Destroy ==
  /\ map # NULL
  /\ map' = NULL
  /\ Save \/ UNCHANGED <<saved, failed>>
  /\ UNCHANGED ret

\* Into a map that is not empty, or from a file that cannot be opened.
LoadRefused ==
  /\ map # NULL
  /\ ret' = 0
  /\ UNCHANGED <<map, saved, failed>>

\* All that was saved, unless something fails; the answer is 1 in both cases.
Load ==
  /\ map = Empty /\ saved # NULL
  /\ ret' = 1
  /\ \/ failed' = FALSE /\ map' = saved
     \/ failed' = TRUE /\ map' \in Parts(saved)
  /\ UNCHANGED saved

Next ==
  \/ Create \/ SetFails \/ Snapshot \/ Destroy \/ LoadRefused \/ Load
  \/ \E k \in Keys : Get(k) \/ Delete(k) \/ \E v \in Values : Set(k, v)

Spec == Init /\ [][Next]_<<map, saved, failed, ret>>
=============================================================================
