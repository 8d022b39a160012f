---------------------------- MODULE TaskRecords ----------------------------
(***************************************************************************)
(* The contents of a task store and what its operations do to them         *)
(* (taskstore.go).  The JSON array of records is a function from task IDs  *)
(* to records: Save replaces the record that has the ID or appends one, so *)
(* an ID occurs once and the order of the array is never observed.         *)
(***************************************************************************)
EXTENDS Integers

CONSTANTS Task,     \* aigo-side task IDs
          Absent    \* "the store has no record for this ID"

Status == {"pending", "completed", "failed"}

NoRecords == [i \in Task |-> Absent]

Stored(recs) == {i \in Task : recs[i] # Absent}

Pending(recs) == {i \in Stored(recs) : recs[i].st = "pending"}

Upsert(recs, i, r) == [recs EXCEPT ![i] = r]

Without(recs, S) == [i \in Task |-> IF i \in S THEN Absent ELSE recs[i]]

\* Mutant: the test of the status is left out.
ExpiredAny(recs, cutoff) == {i \in Stored(recs) : recs[i].upd <= cutoff}

\* What Purge drops: settled records whose UpdatedAt is not after the cutoff.
Expired(recs, cutoff) ==
  {i \in Stored(recs) : recs[i].st # "pending" /\ recs[i].upd <= cutoff}
=============================================================================
