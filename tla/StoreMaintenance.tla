-------------------------- MODULE StoreMaintenance --------------------------
(***************************************************************************)
(* What IgraStore::new of crates/igra/src/store.rs does to an existing     *)
(* database: reconcile_profile_cache in one transaction, then prune_cache  *)
(* statement by statement, each committed by itself while other processes  *)
(* write.  Adds to the tables of IgraStore the updated_at_ms column and    *)
(* the size of the file that fs::metadata reports.                         *)
(***************************************************************************)
EXTENDS IgraStore, FiniteSets

CONSTANTS
  I64Max,       \* i64::MAX
  HourMs,       \* milliseconds in an hour
  Now,          \* the clock, in milliseconds, while the handle is opened
  BatchLimit,   \* rows deleted in one round of the size budget
  EmptySize,    \* size of the file without rows, in rows
  MaxWrites     \* bound: rows other processes write while the handle is opened

ASSUME MaintenanceAssumption ==
  /\ IsFiniteSet(Hashes)
  /\ I64Max \in Nat
  /\ HourMs \in Nat \ {0}
  /\ Now \in 0..I64Max
  /\ BatchLimit \in Nat \ {0}
  /\ EmptySize \in Nat
  /\ MaxWrites \in Nat

VARIABLES
  updatedAt,    \* updated_at_ms of the row of a hash
  fileSize,     \* what fs::metadata says, in rows
  touched,      \* history: rows that other processes wrote
  batches       \* history: the size budget has deleted rows

maintenanceVars == <<storeVars, updatedAt, fileSize, touched, batches>>

MaintenanceTypeOK ==
  /\ StoreTypeOK
  /\ updatedAt \in [Hashes -> 0..Now]
  /\ fileSize \in Nat
  /\ touched \subseteq Hashes
  /\ batches \in BOOLEAN

-----------------------------------------------------------------------------
(* The retention periods are u64 hours, cast to i64 and multiplied and     *)
(* subtracted with saturation.                                             *)
Saturate(n) ==
  IF n > I64Max THEN I64Max ELSE IF n < -I64Max - 1 THEN -I64Max - 1 ELSE n

AsI64(n) == IF n > I64Max THEN n - 2 * (I64Max + 1) ELSE n

Cutoff(hours) == Saturate(Now - Saturate(AsI64(hours) * HourMs))

CompletedState == {"KaspaBroadcasted"}
FailedState == {"FailedRecoverable", "BlockedNonceGap", "BlockedLockTimeout"}

InState(states) == {h \in Hashes : txMap[h] # None /\ txMap[h].state \in states}

Stored == {h \in Hashes : txMap[h] # None}

DeleteRows(D) ==
  /\ txMap' = [h \in Hashes |-> IF h \in D THEN None ELSE txMap[h]]
  /\ UNCHANGED <<nextExpected, locks, storeProfile, base>>

(* reconcile_profile_cache *)
Reconcile(profile) ==
  /\ OpenHandle(profile, {})
  /\ UNCHANGED <<updatedAt, fileSize, touched, batches>>

(* The operators named Mut... are plausible bugs, each placed before the   *)
(* definition it could have been; nothing but a mutation test uses them.   *)

(* Mutant: every row that is old enough is deleted, finished or not. *)
MutPruneByAge(states, hours) ==
  /\ DeleteRows({h \in Stored : updatedAt[h] < Cutoff(hours)})
  /\ UNCHANGED <<updatedAt, fileSize, touched, batches>>

(* Mutant: the hours are compared with milliseconds. *)
MutPruneByAgeInHours(states, hours) ==
  /\ DeleteRows({h \in InState(states) : updatedAt[h] < Now - hours})
  /\ UNCHANGED <<updatedAt, fileSize, touched, batches>>

(* DELETE of the rows in these states that were last updated before the    *)
(* cutoff.  The pages become free, the file keeps its size.                *)
PruneByAge(states, hours) ==
  /\ DeleteRows({h \in InState(states) : updatedAt[h] < Cutoff(hours)})
  /\ UNCHANGED <<updatedAt, fileSize, touched, batches>>

(* One round of the size budget: the oldest finished rows, up to the       *)
(* limit.  The checkpoint comes before the VACUUM, whose result may stay   *)
(* in the write-ahead log: the file may shrink now or not yet.             *)
PruneBatch ==
  /\ Prunable # {}
  /\ \E D \in SUBSET Prunable :
       /\ D # {}
       /\ Cardinality(D) <= BatchLimit
       /\ Cardinality(D) = BatchLimit \/ D = Prunable
       /\ \A h \in D, g \in Prunable \ D : updatedAt[h] <= updatedAt[g]
       /\ DeleteRows(D)
  /\ fileSize' \in {fileSize, EmptySize + Cardinality(Stored')}
  /\ batches' = TRUE
  /\ UNCHANGED <<updatedAt, touched>>

(* A request of another process writes a row of its own. *)
WriteRow(h) ==
  /\ Cardinality(touched) < MaxWrites
  /\ h \notin touched
  /\ \E r \in Requests, state \in TxLifecycleState :
       PersistTransition(h, r, storeProfile, state, None, None, "none", 0)
  /\ updatedAt' = [updatedAt EXCEPT ![h] = Now]
  /\ fileSize' \in {fileSize, fileSize + 1}
  /\ touched' = touched \cup {h}
  /\ UNCHANGED <<nextExpected, locks, storeProfile, base, batches>>
=============================================================================
