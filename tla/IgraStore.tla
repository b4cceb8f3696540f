----------------------------- MODULE IgraStore -----------------------------
(***************************************************************************)
(* The SQLite store of crates/igra/src/store.rs.  Its three tables are     *)
(* functions from the key to the row, with None for "no such row":         *)
(*                                                                         *)
(*   txMap          tx_map, by L2 transaction hash                         *)
(*   nextExpected   sender_nonce_state.next_expected_nonce, by sender      *)
(*   locks          sender_locks, by sender                                *)
(*   storeProfile   the profile.* entries of schema_meta                   *)
(*                                                                         *)
(* Every operator below is one SQLite transaction.  The ones the raw-send  *)
(* path calls are BEGIN IMMEDIATE or a single statement, so each is one    *)
(* atomic step for every process that has the file open.  The module that  *)
(* models a caller says when they run.                                     *)
(***************************************************************************)
EXTENDS Integers

CONSTANTS
  Requests,    \* eth_sendRawTransaction calls; each has a fresh owner id and correlation id
  Hashes,      \* hashes of signed L2 transactions
  Senders,     \* recovered signers
  SenderOf,    \* hash -> the signer of that transaction
  NonceOf,     \* hash -> the nonce of that transaction
  Profiles,    \* chain id + Kaspa network + RPC fingerprints of a store handle
  MaxNonce,    \* u64::MAX
  LockTimeout, \* sender_lock_timeout_secs, in ticks of the clock
  None         \* no row, NULL

ASSUME StoreAssumption ==
  /\ MaxNonce \in Nat
  /\ LockTimeout \in Nat
  /\ SenderOf \in [Hashes -> Senders]
  /\ NonceOf \in [Hashes -> 0..MaxNonce]

VARIABLES txMap, nextExpected, locks, storeProfile,
          base  \* history: the first nonce recorded for a sender since the last wipe

storeVars == <<txMap, nextExpected, locks, storeProfile, base>>

-----------------------------------------------------------------------------
(* Rows. *)

TxLifecycleState ==
  { "ReceivedRawL2", "KaspaUnsignedCreated", "KaspaPrefixMined", "KaspaSigned",
    "KaspaBroadcasted", "FailedRecoverable", "BlockedNonceGap",
    "BlockedLockTimeout", "StaleReplacementCandidate" }

ErrorCode ==
  { "none", "IGRA_NONCE_001", "IGRA_NONCE_002", "IGRA_NONCE_004", "IGRA_MINING_001" }

(* submit_payload broadcasts at most twice.                                *)
Broadcasts == 0..1

(* A payload nonce and a Kaspa transaction id are named by the broadcast   *)
(* of the request (the row's correlation) that they belong to; None is     *)
(* NULL.  The sender and nonce columns are functions of the hash, the time *)
(* columns and the message text are left out.                              *)
KaspaRef == Broadcasts \cup {None}

TxMapRecord ==
  [ state : TxLifecycleState, correlation : Requests, profile : Profiles,
    payloadNonce : KaspaRef, kaspaTxId : KaspaRef,
    attempts : Nat, lastErrorCode : ErrorCode ]

SenderLock == [ owner : Requests, expiresAt : Nat, updatedAt : Nat ]

(* The operators named Mut... are plausible bugs, each placed before the   *)
(* definition it could have been; nothing but a mutation test uses them.   *)

(* Mutant: the lease is as short as the acquisition timeout. *)
MutLease == LockTimeout

Lease == 2 * LockTimeout

ASSUME NoneAssumption ==
  /\ None \notin TxMapRecord
  /\ None \notin SenderLock
  /\ None \notin Nat
  /\ None \notin Hashes
  /\ None \notin Profiles

StoreTypeOK ==
  /\ txMap \in [Hashes -> TxMapRecord \cup {None}]
  /\ nextExpected \in [Senders -> 0..MaxNonce \cup {None}]
  /\ locks \in [Senders -> SenderLock \cup {None}]
  /\ storeProfile \in Profiles
  /\ base \in [Senders -> 0..MaxNonce \cup {None}]

(* A database file just created by the first handle on it. *)
StoreInit ==
  /\ txMap = [h \in Hashes |-> None]
  /\ nextExpected = [s \in Senders |-> None]
  /\ locks = [s \in Senders |-> None]
  /\ storeProfile \in Profiles
  /\ base = [s \in Senders |-> None]

-----------------------------------------------------------------------------
(* tx_map *)

Attempts(h) == IF txMap[h] = None THEN 0 ELSE txMap[h].attempts

(* Mutant: INSERT OR REPLACE forgets the attempts of the old row. *)
MutPersistReplacing(h, r, profile, state, payloadNonce, kaspaTxId, code, increment) ==
  txMap' = [txMap EXCEPT ![h] =
    [ state |-> state, correlation |-> r, profile |-> profile,
      payloadNonce |-> payloadNonce, kaspaTxId |-> kaspaTxId,
      attempts |-> increment, lastErrorCode |-> code ]]

(* Mutant: COALESCE keeps the Kaspa id of an earlier broadcast. *)
MutPersistCoalescing(h, r, profile, state, payloadNonce, kaspaTxId, code, increment) ==
  LET old == IF txMap[h] = None THEN None ELSE txMap[h].kaspaTxId IN
  txMap' = [txMap EXCEPT ![h] =
    [ state |-> state, correlation |-> r, profile |-> profile,
      payloadNonce |-> payloadNonce,
      kaspaTxId |-> IF kaspaTxId = None THEN old ELSE kaspaTxId,
      attempts |-> Attempts(h) + increment, lastErrorCode |-> code ]]

PersistTransition(h, r, profile, state, payloadNonce, kaspaTxId, code, increment) ==
  txMap' = [txMap EXCEPT ![h] =
    [ state         |-> state,
      correlation   |-> r,
      profile       |-> profile,
      payloadNonce  |-> payloadNonce,
      kaspaTxId     |-> kaspaTxId,
      attempts      |-> Attempts(h) + increment,
      lastErrorCode |-> code ]]

IsStaleReplacementCandidate(h) ==
  \E g \in Hashes \ {h} :
    /\ txMap[g] # None
    /\ SenderOf[g] = SenderOf[h]
    /\ NonceOf[g] = NonceOf[h]

-----------------------------------------------------------------------------
(* sender_locks and sender_nonce_state *)

(* Mutant: a lease may be taken over at the instant it ends. *)
MutCanAcquireAtExpiry(s, owner, t) ==
  locks[s] # None => locks[s].owner = owner \/ locks[s].expiresAt <= t

(* Mutant: staleness is measured by the acquisition timeout. *)
MutCanAcquireAfterTimeout(s, owner, t) ==
  locks[s] # None =>
    locks[s].owner = owner \/ locks[s].updatedAt + LockTimeout < t

CanAcquire(s, owner, t) ==
  locks[s] # None => locks[s].owner = owner \/ locks[s].expiresAt < t

(* Mutant: a lower nonce rewinds the counter. *)
MutExpectedRewinding(h) ==
  LET e == nextExpected[SenderOf[h]] IN
  IF e = None \/ NonceOf[h] < e THEN NonceOf[h] ELSE e

(* A sender without a row adopts the nonce it presents. *)
ExpectedNonce(h) ==
  IF nextExpected[SenderOf[h]] = None THEN NonceOf[h] ELSE nextExpected[SenderOf[h]]

(* Mutant: off by one. *)
MutNonceGap(h) == NonceOf[h] > ExpectedNonce(h) + 1

NonceGap(h) == NonceOf[h] > ExpectedNonce(h)

ClassifyNonce(h) ==
  IF NonceOf[h] = ExpectedNonce(h) THEN "inOrder"
  ELSE IF IsStaleReplacementCandidate(h) THEN "replacement" ELSE "stale"

(* Mutant: the counter moves when the nonce is granted, not when it is sent. *)
MutAcquireAndReserve(h, owner, t) ==
  LET s == SenderOf[h]
      n == ExpectedNonce(h)
  IN
  /\ CanAcquire(s, owner, t)
  /\ ~NonceGap(h)
  /\ locks' = [locks EXCEPT ![s] =
       [owner |-> owner, expiresAt |-> t + Lease, updatedAt |-> t]]
  /\ nextExpected' = [nextExpected EXCEPT ![s] =
       IF NonceOf[h] = n /\ n < MaxNonce THEN n + 1 ELSE n]
  /\ base' = [base EXCEPT ![s] = IF nextExpected[s] = None THEN NonceOf[h] ELSE @]
  /\ UNCHANGED <<txMap, storeProfile>>

(* The transaction of try_acquire_sender_lock_and_classify_once when it    *)
(* commits.  t is the clock reading taken before the transaction began.  A *)
(* nonce gap returns early and drops the transaction: nothing is written.  *)
AcquireAndClassify(h, owner, t) ==
  LET s == SenderOf[h] IN
  /\ CanAcquire(s, owner, t)
  /\ ~NonceGap(h)
  /\ locks' = [locks EXCEPT ![s] =
       [owner |-> owner, expiresAt |-> t + Lease, updatedAt |-> t]]
  /\ nextExpected' = [nextExpected EXCEPT ![s] = ExpectedNonce(h)]
  /\ base' = [base EXCEPT ![s] = IF nextExpected[s] = None THEN NonceOf[h] ELSE @]
  /\ UNCHANGED <<txMap, storeProfile>>

ReleaseSenderLock(s, owner) ==
  /\ locks' = [locks EXCEPT ![s] =
       IF @ # None /\ @.owner = owner THEN None ELSE @]
  /\ UNCHANGED <<txMap, nextExpected, storeProfile, base>>

(* Mutant: an unchecked addition. *)
MutNonceOverflow(n) == FALSE

(* checked_add(1) fails on u64::MAX: the caller gets NonceOverflow. *)
NonceOverflow(n) == n = MaxNonce

(* Mutant: the update does not compare the counter with the nonce. *)
MutMarkUnconditionally(s, n) ==
  /\ ~NonceOverflow(n)
  /\ nextExpected' = [nextExpected EXCEPT ![s] = n + 1]
  /\ base' = [base EXCEPT ![s] = IF nextExpected[s] = None THEN n ELSE @]
  /\ UNCHANGED <<txMap, locks, storeProfile>>

MarkSubmittedInOrderNonce(s, n) ==
  /\ ~NonceOverflow(n)
  /\ nextExpected' = [nextExpected EXCEPT ![s] = IF @ \in {None, n} THEN n + 1 ELSE @]
  /\ base' = [base EXCEPT ![s] = IF nextExpected[s] = None THEN n ELSE @]
  /\ UNCHANGED <<txMap, locks, storeProfile>>

-----------------------------------------------------------------------------
(* Opening a handle. *)

(* The states the size budget may delete, oldest first; the retention      *)
(* periods delete all of them but the replacement candidates.              *)
FinalState ==
  { "FailedRecoverable", "BlockedNonceGap", "BlockedLockTimeout",
    "StaleReplacementCandidate", "KaspaBroadcasted" }

Prunable == {h \in Hashes : txMap[h] # None /\ txMap[h].state \in FinalState}

(* Mutant: the tables are emptied although the profile is the same. *)
MutOpenHandle(p, D) ==
  /\ D \subseteq Prunable
  /\ storeProfile' = p
  /\ txMap' = [h \in Hashes |-> None]
  /\ nextExpected' = [s \in Senders |-> None]
  /\ locks' = [s \in Senders |-> None]
  /\ base' = [s \in Senders |-> None]

(* reconcile_profile_cache, then prune_cache.  A changed profile empties   *)
(* the three tables.  Which rows are old enough, or in excess, is left     *)
(* open: D is any set of rows in a final state.  Doing both in one step    *)
(* loses nothing, since opening twice with the same profile prunes later.  *)
OpenHandle(p, D) ==
  LET wiped == p # storeProfile IN
  /\ D \subseteq Prunable
  /\ storeProfile' = p
  /\ txMap' = [h \in Hashes |-> IF wiped \/ h \in D THEN None ELSE txMap[h]]
  /\ nextExpected' = IF wiped THEN [s \in Senders |-> None] ELSE nextExpected
  /\ locks' = IF wiped THEN [s \in Senders |-> None] ELSE locks
  /\ base' = IF wiped THEN [s \in Senders |-> None] ELSE base
=============================================================================
