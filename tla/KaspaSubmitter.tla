--------------------------- MODULE KaspaSubmitter ---------------------------
(***************************************************************************)
(* InProcessKaspaPayloadSubmitter of crates/igra/src/submitter.rs: any     *)
(* number of submissions that share one UTXO cache slot, its epoch counter *)
(* and the Kaspa nodes.  A step is what runs between two awaits or one     *)
(* access to shared state.                                                 *)
(*                                                                         *)
(* A UTXO set is abstracted to whether it can pay the fee, and to when it  *)
(* was read: after which acceptances and which invalidations of the cache. *)
(* What the set shows of those acceptances is left open, since the UTXO    *)
(* index of a node follows the blocks and not what the node accepted.  The *)
(* time to live of the cache is abstracted too: a cached set may be found  *)
(* too old at any time.                                                    *)
(***************************************************************************)
EXTENDS Integers

CONSTANTS
  Submissions, \* calls of submit_payload
  Keys,        \* cache keys: RPC URL, network and source address
  None         \* no cached set, no entries

VARIABLES
  cache,     \* utxo_cache: the one cached set, or None
  epoch,     \* utxo_cache_epoch
  pc,        \* per submission: where it is
  key,       \* its cache_key
  attempt,   \* its iteration of the retry loop
  readEpoch, \* read_epoch of its load_utxos
  entries,   \* the UTXO set it works with, None before it has one
  broadcast, \* per submission and attempt: what became of the broadcast
  outcome,   \* the result it is going to answer
  bumped     \* history: the transactions whose sender has invalidated the cache
             \* ahead of the broadcast

shared == <<cache, epoch>>
vars == <<shared, pc, key, attempt, readEpoch, entries, broadcast, outcome, bumped>>

-----------------------------------------------------------------------------
Attempts == 0..1
Transactions == Submissions \X Attempts

(* Whether a set of UTXOs is empty, cannot pay the fee, or can. *)
Funds == {"none", "dust", "enough"}

CachedUtxoSet ==
  [ key : Keys, funds : Funds,
    seen : SUBSET Transactions,    \* history: what the node had accepted at the read
    bumped : SUBSET Transactions,  \* history: the value of bumped at the read
    forced : BOOLEAN ]             \* history: stored by a forced refresh

Control ==
  { "idle", "load", "lookup", "fetch", "store", "build", "bump", "clear",
    "send", "wait", "done", "gone" }

TypeOK ==
  /\ cache \in CachedUtxoSet \cup {None}
  /\ epoch \in Nat
  /\ pc \in [Submissions -> Control]
  /\ key \in [Submissions -> Keys]
  /\ attempt \in [Submissions -> Attempts]
  /\ readEpoch \in [Submissions -> Nat]
  /\ entries \in [Submissions -> CachedUtxoSet \cup {None}]
  /\ broadcast \in [Submissions -> [Attempts -> {"unsent", "sent", "accepted"}]]
  /\ outcome \in [Submissions -> {"pending", "ok", "error", "miningTimeout"}]
  /\ bumped \subseteq Transactions

ASSUME NoneAssumption == None \notin CachedUtxoSet

Init ==
  /\ cache = None
  /\ epoch = 1
  /\ pc = [s \in Submissions |-> "idle"]
  /\ key \in [Submissions -> Keys]
  /\ attempt = [s \in Submissions |-> 0]
  /\ readEpoch = [s \in Submissions |-> 0]
  /\ entries = [s \in Submissions |-> None]
  /\ broadcast = [s \in Submissions |-> [i \in Attempts |-> "unsent"]]
  /\ outcome = [s \in Submissions |-> "pending"]
  /\ bumped = {}

-----------------------------------------------------------------------------
Goto(s, from, to) ==
  /\ pc[s] = from
  /\ pc' = [pc EXCEPT ![s] = to]

(* The local variables of the future are gone when it ends.  Its key and   *)
(* the attempt it ended in are kept, to say which transaction is its own.  *)
Forget(s) ==
  /\ readEpoch' = [readEpoch EXCEPT ![s] = 0]
  /\ entries' = [entries EXCEPT ![s] = None]

Fail(s, from, error) ==
  /\ Goto(s, from, "done")
  /\ outcome' = [outcome EXCEPT ![s] = error]
  /\ Forget(s)
  /\ UNCHANGED <<shared, key, attempt, broadcast, bumped>>

(* What the node of a key has accepted by now. *)
AcceptedFor(k) ==
  {t \in Transactions : key[t[1]] = k /\ broadcast[t[1]][t[2]] = "accepted"}

(* The operators named Mut... are plausible bugs, each placed before the   *)
(* definition it could have been; nothing but a mutation test uses them.   *)

(* Mutant: retry without a bound. *)
MutRetry(s, from) ==
  /\ Goto(s, from, "load")
  /\ attempt' = [attempt EXCEPT ![s] = @ + 1]
  /\ UNCHANGED <<shared, key, readEpoch, entries, broadcast, outcome, bumped>>

(* The next iteration of the retry loop. *)
Retry(s, from) ==
  /\ attempt[s] = 0
  /\ Goto(s, from, "load")
  /\ attempt' = [attempt EXCEPT ![s] = 1]
  /\ UNCHANGED <<shared, key, readEpoch, entries, broadcast, outcome, bumped>>

-----------------------------------------------------------------------------
(* Payload, configuration, key and connection are ready. *)
Begin(s) ==
  /\ Goto(s, "idle", "load")
  /\ UNCHANGED <<shared, key, attempt, readEpoch, entries, broadcast, outcome, bumped>>

BeginError(s) == Fail(s, "idle", "error")

LoadEpoch(s) ==
  /\ Goto(s, "load", IF attempt[s] = 0 THEN "lookup" ELSE "fetch")
  /\ readEpoch' = [readEpoch EXCEPT ![s] = epoch]
  /\ UNCHANGED <<shared, key, attempt, entries, broadcast, outcome, bumped>>

(* Mutant: the key is not compared. *)
MutHit(s) ==
  /\ cache # None
  /\ Goto(s, "lookup", "build")
  /\ entries' = [entries EXCEPT ![s] = cache]
  /\ UNCHANGED <<shared, key, attempt, readEpoch, broadcast, outcome, bumped>>

Hit(s) ==
  /\ cache # None
  /\ cache.key = key[s]
  /\ Goto(s, "lookup", "build")
  /\ entries' = [entries EXCEPT ![s] = cache]
  /\ UNCHANGED <<shared, key, attempt, readEpoch, broadcast, outcome, bumped>>

(* No set, one of another key, or one past its time to live. *)
Miss(s) ==
  /\ Goto(s, "lookup", "fetch")
  /\ UNCHANGED <<shared, key, attempt, readEpoch, entries, broadcast, outcome, bumped>>

(* get_utxos_by_addresses *)
Fetch(s) ==
  /\ Goto(s, "fetch", "store")
  /\ \E f \in Funds :
       entries' = [entries EXCEPT ![s] =
         [key |-> key[s], funds |-> f, seen |-> AcceptedFor(key[s]),
          bumped |-> bumped, forced |-> attempt[s] = 1]]
  /\ UNCHANGED <<shared, key, attempt, readEpoch, broadcast, outcome, bumped>>

FetchError(s) == Fail(s, "fetch", "error")

(* Mutant: the epoch is not compared. *)
MutStore(s) ==
  /\ Goto(s, "store", "build")
  /\ cache' = entries[s]
  /\ UNCHANGED <<epoch, key, attempt, readEpoch, entries, broadcast, outcome, bumped>>

(* The epoch is compared under the lock of the slot. *)
Store(s) ==
  /\ Goto(s, "store", "build")
  /\ cache' = IF attempt[s] = 1 \/ epoch = readEpoch[s] THEN entries[s] ELSE cache
  /\ UNCHANGED <<epoch, key, attempt, readEpoch, entries, broadcast, outcome, bumped>>

(* An empty set is worth one forced refresh. *)
RetryEmpty(s) ==
  /\ pc[s] = "build"
  /\ entries[s].funds = "none"
  /\ Retry(s, "build")

(* Still empty, not enough to pay, or a transaction that cannot be signed, *)
(* verified or is too heavy.                                               *)
BuildError(s) ==
  /\ pc[s] = "build"
  /\ entries[s].funds = "none" => attempt[s] = 1
  /\ Fail(s, "build", "error")

MiningTimeout(s) ==
  /\ pc[s] = "build"
  /\ entries[s].funds = "enough"
  /\ Fail(s, "build", "miningTimeout")

Build(s) ==
  /\ pc[s] = "build"
  /\ entries[s].funds = "enough"
  /\ Goto(s, "build", "bump")
  /\ UNCHANGED <<shared, key, attempt, readEpoch, entries, broadcast, outcome, bumped>>

(* Mutant: the slot is cleared without a new epoch. *)
MutBump(s) ==
  /\ Goto(s, "bump", "clear")
  /\ bumped' = IF outcome[s] = "pending" THEN bumped \cup {<<s, attempt[s]>>} ELSE bumped
  /\ UNCHANGED <<shared, key, attempt, readEpoch, entries, broadcast, outcome>>

(* invalidate_utxo_cache, before the broadcast and after its acceptance. *)
Bump(s) ==
  /\ Goto(s, "bump", "clear")
  /\ epoch' = epoch + 1
  /\ bumped' = IF outcome[s] = "pending" THEN bumped \cup {<<s, attempt[s]>>} ELSE bumped
  /\ UNCHANGED <<cache, key, attempt, readEpoch, entries, broadcast, outcome>>

Clear(s) ==
  /\ cache' = None
  /\ \/ /\ outcome[s] = "pending"
        /\ Goto(s, "clear", "send")
        /\ UNCHANGED <<readEpoch, entries>>
     \/ /\ outcome[s] = "ok"
        /\ Goto(s, "clear", "done")
        /\ Forget(s)
  /\ UNCHANGED <<epoch, key, attempt, broadcast, outcome, bumped>>

Send(s) ==
  /\ Goto(s, "send", "wait")
  /\ broadcast' = [broadcast EXCEPT ![s][attempt[s]] = "sent"]
  /\ UNCHANGED <<shared, key, attempt, readEpoch, entries, outcome, bumped>>

(* The node accepts a transaction it was sent, at any later time or never. *)
Accept(s, i) ==
  /\ broadcast[s][i] = "sent"
  /\ broadcast' = [broadcast EXCEPT ![s][i] = "accepted"]
  /\ UNCHANGED <<shared, pc, key, attempt, readEpoch, entries, outcome, bumped>>

(* Mutant: a lost answer is taken for an acceptance. *)
MutSubmitOk(s) ==
  /\ Goto(s, "wait", "bump")
  /\ outcome' = [outcome EXCEPT ![s] = "ok"]
  /\ UNCHANGED <<shared, key, attempt, readEpoch, entries, broadcast, bumped>>

SubmitOk(s) ==
  /\ broadcast[s][attempt[s]] = "accepted"
  /\ Goto(s, "wait", "bump")
  /\ outcome' = [outcome EXCEPT ![s] = "ok"]
  /\ UNCHANGED <<shared, key, attempt, readEpoch, entries, broadcast, bumped>>

(* The node rejects the transaction, or its answer is lost. *)
RetrySubmit(s) == Retry(s, "wait")

SubmitError(s) ==
  /\ attempt[s] = 1
  /\ Fail(s, "wait", "error")

(* The caller drops the future. *)
Drop(s) ==
  /\ pc[s] \notin {"idle", "done", "gone"}
  /\ pc' = [pc EXCEPT ![s] = "gone"]
  /\ Forget(s)
  /\ UNCHANGED <<shared, key, attempt, broadcast, outcome, bumped>>

(* What the future of s does when it is polled. *)
Advance(s) ==
  \/ Begin(s) \/ BeginError(s) \/ LoadEpoch(s) \/ Hit(s) \/ Miss(s)
  \/ Fetch(s) \/ FetchError(s) \/ Store(s)
  \/ RetryEmpty(s) \/ BuildError(s) \/ MiningTimeout(s) \/ Build(s)
  \/ Bump(s) \/ Clear(s) \/ Send(s) \/ SubmitOk(s) \/ RetrySubmit(s)
  \/ SubmitError(s)

Next ==
  \E s \in Submissions :
    \/ Advance(s) \/ Drop(s)
    \/ \E i \in Attempts : Accept(s, i)

Spec == Init /\ [][Next]_vars

-----------------------------------------------------------------------------
(* Properties. *)

(* After a submission was answered Ok, the cache holds no set that was     *)
(* read before its transaction was accepted, unless a forced refresh       *)
(* stored it: readers that began before the invalidation cannot put what   *)
(* they read back.                                                         *)
AnsweredInCache ==
  cache # None /\ ~cache.forced =>
    \A q \in Submissions :
      pc[q] = "done" /\ outcome[q] = "ok" /\ key[q] = cache.key
        => <<q, attempt[q]>> \in cache.seen

(* A cached set was read after the invalidation that came before each      *)
(* broadcast so far: what a reader fetched earlier is not put back while   *)
(* the transaction is on its way, whether it is answered or not.  Only a   *)
(* forced refresh may do so.                                               *)
InvalidatedBeforeSend ==
  cache # None /\ ~cache.forced =>
    \A s \in Submissions, i \in Attempts :
      broadcast[s][i] # "unsent" => <<s, i>> \in cache.bumped

(* However wallets and networks take turns on the one cache slot, a        *)
(* submission builds from UTXOs of its own key.                            *)
OwnEntries ==
  \A s \in Submissions : entries[s] # None => entries[s].key = key[s]

(* The submitter keeps the contract of submit_payload. *)
BroadcastsThat(s, are) == {i \in Attempts : broadcast[s][i] = are}

Phase(s) ==
  IF pc[s] = "idle" THEN "none"
  ELSE IF pc[s] = "done" THEN outcome[s]
  ELSE IF pc[s] = "gone" THEN "gone" ELSE "open"

Late(s) == IF pc[s] \in {"done", "gone"} THEN BroadcastsThat(s, "sent") ELSE {}

Result(s) == IF pc[s] = "done" /\ outcome[s] = "ok" THEN attempt[s] ELSE None

Contract == INSTANCE PayloadSubmission WITH
  phase <- [s \in Submissions |-> Phase(s)],
  sent <- [s \in Submissions |-> BroadcastsThat(s, "accepted")],
  late <- [s \in Submissions |-> Late(s)],
  result <- [s \in Submissions |-> Result(s)]

ImplementsContract == Contract!Spec

-----------------------------------------------------------------------------
(* What a comment of submitter.rs says and the code does not keep: the     *)
(* cache is invalidated "so concurrent reads cannot reuse potentially      *)
(* spent entries from this submission attempt".                            *)
NoReuseAfterOk ==
  cache # None =>
    \A q \in Submissions :
      pc[q] = "done" /\ outcome[q] = "ok" /\ key[q] = cache.key
        => <<q, attempt[q]>> \in cache.seen
=============================================================================
