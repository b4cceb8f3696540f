--------------------------- MODULE IgraTransport ---------------------------
(***************************************************************************)
(* The eth_sendRawTransaction path of crates/igra/src/transport.rs, run by *)
(* any number of requests, in one process or in several that share the     *)
(* database file of IgraStore.  A request has a program counter; each      *)
(* action is one store transaction, one clock reading or one event of the  *)
(* submission to the Kaspa node, so requests interleave between any two.   *)
(***************************************************************************)
EXTENDS IgraStore, FiniteSets

CONSTANTS
  MaxTime,  \* bound on the clock
  Faults    \* what may go wrong, a subset of FaultKind

FaultKind ==
  { "retry",     \* the first broadcast is refused, or its answer lost: there is a second
    "late",      \* a broadcast whose answer was lost reaches L1 after the submission ended
    "mining",    \* no payload nonce is found in time: IGRA_MINING_001
    "config",    \* tx_id_prefix is not configured
    "untracked", \* the transport has no store: with_store_config only warned
    "busy",      \* SQLITE_BUSY after the busy timeout, retried by the poll loop
    "lock",      \* any other database error of the lock step: warned about, not fatal
    "persist",   \* persist_transition fails: warned about
    "mark",      \* mark_submitted_in_order_nonce fails: warned about
    "release",   \* release_sender_lock fails: warned about
    "prune",     \* rows outlive their retention, or the file its size budget
    "crash" }    \* the process dies, or the caller drops the request's future

ASSUME TransportAssumption ==
  /\ Faults \subseteq FaultKind
  /\ MaxTime \in Nat
  /\ LockTimeout <= MaxTime

VARIABLES
  now,       \* the wall clock the processes read
  opened,    \* profiles some running process holds a store handle for
  forgotten, \* history: requests whose grant a profile change has wiped
  pc,        \* per request: where it is
  hash,      \* its L2 transaction, None before it starts
  handle,    \* the profile of its store handle, None when it is not tracked
  deadline,  \* deadline_ms of its poll loop
  pollNow,   \* `now' of its current iteration of the poll loop
  ordering,  \* what the lock step told it
  sent,      \* its broadcasts that the node has accepted
  late,      \* those the node may still accept after the submission ended
  result,    \* the broadcast that the Ok of its submission names
  outcome,   \* the result it is going to answer
  orphaned,  \* requests whose future was dropped while the lock task goes on
  leaseUntil \* history: the expiry of the lease it holds

opening == <<opened, forgotten>>
control == <<pc, ordering, outcome, orphaned>>
submission == <<hash, handle, sent, late, result>>
timing == <<deadline, pollNow, leaseUntil>>
vars == <<storeVars, now, opening, control, submission, timing>>

-----------------------------------------------------------------------------
PollLoop == {"poll", "tryLock"}
BeforeLock == {"received", "begin"}
Ended == {"done", "gone"}

(* From the grant of the lock to the release. *)
Critical ==
  { "replacement", "unsigned", "submit", "mined", "signed", "broadcasted",
    "mark", "failed", "release" }

Control == {"idle", "lockTimeout", "nonceGap"} \cup PollLoop \cup BeforeLock
           \cup Ended \cup Critical

(* in_order_submit, lock_acquired and replacement_observation.  A request  *)
(* whose lock step failed goes on "unclassified", without the lock.        *)
Ordering == {"none", "inOrder", "stale", "replacement", "unclassified"}

Outcome == {"pending", "ok", "error", "miningTimeout"}

TypeOK ==
  /\ StoreTypeOK
  /\ now \in Nat
  /\ opened \subseteq Profiles
  /\ forgotten \subseteq Requests
  /\ pc \in [Requests -> Control]
  /\ hash \in [Requests -> Hashes \cup {None}]
  /\ handle \in [Requests -> Profiles \cup {None}]
  /\ deadline \in [Requests -> Nat]
  /\ pollNow \in [Requests -> Nat]
  /\ ordering \in [Requests -> Ordering]
  /\ sent \in [Requests -> SUBSET Broadcasts]
  /\ late \in [Requests -> SUBSET Broadcasts]
  /\ result \in [Requests -> Broadcasts \cup {None}]
  /\ outcome \in [Requests -> Outcome]
  /\ orphaned \subseteq Requests
  /\ leaseUntil \in [Requests -> Nat]

Init ==
  /\ StoreInit
  /\ now = 0
  /\ opened = {storeProfile}
  /\ forgotten = {}
  /\ pc = [r \in Requests |-> "idle"]
  /\ hash = [r \in Requests |-> None]
  /\ handle = [r \in Requests |-> None]
  /\ deadline = [r \in Requests |-> 0]
  /\ pollNow = [r \in Requests |-> 0]
  /\ ordering = [r \in Requests |-> "none"]
  /\ sent = [r \in Requests |-> {}]
  /\ late = [r \in Requests |-> {}]
  /\ result = [r \in Requests |-> None]
  /\ outcome = [r \in Requests |-> "pending"]
  /\ orphaned = {}
  /\ leaseUntil = [r \in Requests |-> 0]

-----------------------------------------------------------------------------
Sender(r) == SenderOf[hash[r]]
Nonce(r) == NonceOf[hash[r]]
LockAcquired(r) == ordering[r] \in {"inOrder", "stale", "replacement"}
Failing(r) == outcome[r] \in {"error", "miningTimeout"}

(* The loop's local variables are gone when the lock step returns. *)
LeaveLoop(r) ==
  /\ deadline' = [deadline EXCEPT ![r] = 0]
  /\ pollNow' = [pollNow EXCEPT ![r] = 0]

Goto(r, from, to) ==
  /\ pc[r] = from
  /\ pc' = [pc EXCEPT ![r] = to]

(* The spawn_blocking task of the lock step outlives a dropped future; its *)
(* result then has nobody to act on it.                                    *)
AfterLock(r, to) == IF r \in orphaned THEN "gone" ELSE to

(* persist_transition_safe: a database error is logged and ignored. *)
PersistSafe(r, state, ref, kaspaTxId, code, increment) ==
  /\ \/ PersistTransition(hash[r], r, handle[r], state, ref, kaspaTxId, code, increment)
     \/ "persist" \in Faults /\ UNCHANGED txMap
  /\ UNCHANGED <<nextExpected, locks, storeProfile, base>>

ReplacementCode(r) == IF ordering[r] = "replacement" THEN "IGRA_NONCE_004" ELSE "none"

-----------------------------------------------------------------------------
(* The request arrives; a missing tx_id_prefix fails it before any store   *)
(* access, and without a store there is nothing to track it in.  Starting  *)
(* is bounded so that the clock can still reach the deadline.              *)
Start(r, h, p) ==
  /\ now + LockTimeout <= MaxTime
  /\ hash' = [hash EXCEPT ![r] = h]
  /\ handle' = [handle EXCEPT ![r] = p]
  /\ \/ /\ Goto(r, "idle", IF p = None THEN "submit" ELSE "received")
        /\ UNCHANGED outcome
     \/ /\ "config" \in Faults
        /\ Goto(r, "idle", IF p = None THEN "done" ELSE "failed")
        /\ outcome' = [outcome EXCEPT ![r] = "error"]
  /\ UNCHANGED <<storeVars, now, opening, ordering, orphaned, sent, late, result, timing>>

PersistReceived(r) ==
  /\ Goto(r, "received", "begin")
  /\ PersistSafe(r, "ReceivedRawL2", None, None, "none", 0)
  /\ UNCHANGED <<now, opening, ordering, outcome, orphaned, submission, timing>>

(* acquire_sender_lock_and_classify_nonce fixes its deadline once. *)
BeginLock(r) ==
  /\ Goto(r, "begin", "poll")
  /\ deadline' = [deadline EXCEPT ![r] = now + LockTimeout]
  /\ UNCHANGED <<storeVars, now, opening, ordering, outcome, orphaned, submission,
                 pollNow, leaseUntil>>

(* An iteration of the poll loop reads the clock, then tries the lock. *)
Poll(r) ==
  /\ now < deadline[r]
  /\ Goto(r, "poll", "tryLock")
  /\ pollNow' = [pollNow EXCEPT ![r] = now]
  /\ UNCHANGED <<storeVars, now, opening, ordering, outcome, orphaned, submission,
                 deadline, leaseUntil>>

PollTimeout(r) ==
  /\ now >= deadline[r]
  /\ Goto(r, "poll", AfterLock(r, "lockTimeout"))
  /\ LeaveLoop(r)
  /\ UNCHANGED <<storeVars, now, opening, ordering, outcome, orphaned, submission,
                 leaseUntil>>

Grant(r) ==
  /\ pc[r] = "tryLock"
  /\ AcquireAndClassify(hash[r], r, pollNow[r])
  /\ pc' = [pc EXCEPT ![r] = AfterLock(r,
       IF ClassifyNonce(hash[r]) = "replacement" THEN "replacement" ELSE "unsigned")]
  /\ ordering' = [ordering EXCEPT ![r] = ClassifyNonce(hash[r])]
  /\ leaseUntil' = [leaseUntil EXCEPT ![r] = pollNow[r] + Lease]
  /\ LeaveLoop(r)
  /\ UNCHANGED <<now, opening, outcome, orphaned, submission>>

(* Mutant: the early return for a gap commits the lock row. *)
MutRefuseGap(r) ==
  /\ Goto(r, "tryLock", AfterLock(r, "nonceGap"))
  /\ CanAcquire(Sender(r), r, pollNow[r])
  /\ NonceGap(hash[r])
  /\ locks' = [locks EXCEPT ![Sender(r)] =
       [owner |-> r, expiresAt |-> pollNow[r] + Lease, updatedAt |-> pollNow[r]]]
  /\ LeaveLoop(r)
  /\ UNCHANGED <<txMap, nextExpected, storeProfile, base, now, opening, ordering,
                 outcome, orphaned, submission, leaseUntil>>

RefuseGap(r) ==
  /\ Goto(r, "tryLock", AfterLock(r, "nonceGap"))
  /\ CanAcquire(Sender(r), r, pollNow[r])
  /\ NonceGap(hash[r])
  /\ LeaveLoop(r)
  /\ UNCHANGED <<storeVars, now, opening, ordering, outcome, orphaned, submission,
                 leaseUntil>>

(* Mutant: the retry neither reads the clock again nor checks the deadline. *)
MutTryAgain(r) ==
  /\ Goto(r, "tryLock", "tryLock")
  /\ ~CanAcquire(Sender(r), r, pollNow[r]) \/ "busy" \in Faults
  /\ UNCHANGED <<storeVars, now, opening, ordering, outcome, orphaned, submission,
                 timing>>

(* Somebody else holds the lock, or the database stayed busy: sleep. *)
TryAgain(r) ==
  /\ Goto(r, "tryLock", "poll")
  /\ ~CanAcquire(Sender(r), r, pollNow[r]) \/ "busy" \in Faults
  /\ pollNow' = [pollNow EXCEPT ![r] = 0]
  /\ UNCHANGED <<storeVars, now, opening, ordering, outcome, orphaned, submission,
                 deadline, leaseUntil>>

(* The connection cannot be opened, or a statement fails. *)
LockError(r) ==
  /\ "lock" \in Faults
  /\ \E from \in {"begin", "tryLock"} : Goto(r, from, AfterLock(r, "unsigned"))
  /\ ordering' = [ordering EXCEPT ![r] = "unclassified"]
  /\ LeaveLoop(r)
  /\ UNCHANGED <<storeVars, now, opening, outcome, orphaned, submission,
                 leaseUntil>>

(* Mutant: a blocked request is recorded as such and submitted all the same. *)
MutPersistBlocked(r) ==
  /\ \/ /\ Goto(r, "lockTimeout", "submit")
        /\ PersistSafe(r, "BlockedLockTimeout", None, None, "IGRA_NONCE_002", 0)
     \/ /\ Goto(r, "nonceGap", "submit")
        /\ PersistSafe(r, "BlockedNonceGap", None, None, "IGRA_NONCE_001", 0)
  /\ outcome' = [outcome EXCEPT ![r] = "error"]
  /\ UNCHANGED <<now, opening, ordering, orphaned, submission, timing>>

PersistBlocked(r) ==
  /\ \/ /\ Goto(r, "lockTimeout", "failed")
        /\ PersistSafe(r, "BlockedLockTimeout", None, None, "IGRA_NONCE_002", 0)
     \/ /\ Goto(r, "nonceGap", "failed")
        /\ PersistSafe(r, "BlockedNonceGap", None, None, "IGRA_NONCE_001", 0)
  /\ outcome' = [outcome EXCEPT ![r] = "error"]
  /\ UNCHANGED <<now, opening, ordering, orphaned, submission, timing>>

PersistReplacement(r) ==
  /\ Goto(r, "replacement", "unsigned")
  /\ PersistSafe(r, "StaleReplacementCandidate", None, None, "IGRA_NONCE_004", 0)
  /\ UNCHANGED <<now, opening, ordering, outcome, orphaned, submission, timing>>

PersistUnsigned(r) ==
  /\ Goto(r, "unsigned", "submit")
  /\ PersistSafe(r, "KaspaUnsignedCreated", None, None, ReplacementCode(r), 0)
  /\ UNCHANGED <<now, opening, ordering, outcome, orphaned, submission, timing>>

-----------------------------------------------------------------------------
Sendable == IF "retry" \in Faults THEN Broadcasts ELSE {0}

(* submit_payload, as the transport sees it: at most two broadcasts, the   *)
(* second one after a lost or negative answer to the first, and an answer  *)
(* that may be an error although the node accepted a transaction, or is    *)
(* still going to.                                                         *)
Land(r) ==
  \E i \in Sendable \ sent[r] :
    /\ \/ pc[r] = "submit" /\ UNCHANGED late
       \/ i \in late[r] /\ late' = [late EXCEPT ![r] = @ \ {i}]
    /\ sent' = [sent EXCEPT ![r] = @ \cup {i}]
    /\ UNCHANGED <<storeVars, now, opening, control, hash, handle, result, timing>>

(* The submission ends when these broadcasts have gone out; some of those  *)
(* that the node did not accept yet may still be on their way.             *)
LeaveInFlight(r, gone) ==
  /\ sent[r] \subseteq gone
  /\ \E L \in SUBSET (IF "late" \in Faults THEN gone \ sent[r] ELSE {}) :
       late' = [late EXCEPT ![r] = L]

(* Ok carries the payload nonce and the Kaspa id of the broadcast that the *)
(* node confirmed, and there is no broadcast after that one.               *)
SubmitOk(r) ==
  /\ Goto(r, "submit", IF handle[r] = None THEN "done" ELSE "mined")
  /\ \E i \in sent[r] :
       /\ LeaveInFlight(r, 0..i)
       /\ result' = [result EXCEPT ![r] = i]
  /\ outcome' = [outcome EXCEPT ![r] = "ok"]
  /\ UNCHANGED <<storeVars, now, opening, ordering, orphaned, hash, handle, sent, timing>>

(* Mining comes before the broadcast of its attempt, so a mining timeout   *)
(* is answered only while the second broadcast has not happened.           *)
SubmitErr(r) ==
  /\ Goto(r, "submit", IF handle[r] = None THEN "done" ELSE "failed")
  /\ \/ /\ LeaveInFlight(r, Sendable)
        /\ outcome' = [outcome EXCEPT ![r] = "error"]
     \/ /\ "mining" \in Faults
        /\ LeaveInFlight(r, {0})
        /\ outcome' = [outcome EXCEPT ![r] = "miningTimeout"]
  /\ UNCHANGED <<storeVars, now, opening, ordering, orphaned, hash, handle, sent, result,
                 timing>>

PersistMined(r) ==
  /\ Goto(r, "mined", "signed")
  /\ PersistSafe(r, "KaspaPrefixMined", result[r], None, ReplacementCode(r), 0)
  /\ UNCHANGED <<now, opening, ordering, outcome, orphaned, submission, timing>>

PersistSigned(r) ==
  /\ Goto(r, "signed", "broadcasted")
  /\ PersistSafe(r, "KaspaSigned", result[r], None, ReplacementCode(r), 0)
  /\ UNCHANGED <<now, opening, ordering, outcome, orphaned, submission, timing>>

PersistBroadcasted(r) ==
  /\ Goto(r, "broadcasted",
       IF ordering[r] = "inOrder" THEN "mark"
       ELSE IF LockAcquired(r) THEN "release" ELSE "done")
  /\ PersistSafe(r, "KaspaBroadcasted", result[r], result[r], ReplacementCode(r), 0)
  /\ UNCHANGED <<now, opening, ordering, outcome, orphaned, submission, timing>>

(* Mutant: only the request that still holds the lock may mark. *)
MutMarkSubmitted(r) ==
  LET holder == locks[Sender(r)] # None /\ locks[Sender(r)].owner = r IN
  /\ Goto(r, "mark", "release")
  /\ \/ holder /\ MarkSubmittedInOrderNonce(Sender(r), Nonce(r))
     \/ /\ ~holder \/ NonceOverflow(Nonce(r)) \/ "mark" \in Faults
        /\ UNCHANGED storeVars
  /\ UNCHANGED <<now, opening, ordering, outcome, orphaned, submission, timing>>

(* A failure to advance the counter, overflow included, is only logged. *)
MarkSubmitted(r) ==
  /\ Goto(r, "mark", "release")
  /\ \/ MarkSubmittedInOrderNonce(Sender(r), Nonce(r))
     \/ /\ NonceOverflow(Nonce(r)) \/ "mark" \in Faults
        /\ UNCHANGED storeVars
  /\ UNCHANGED <<now, opening, ordering, outcome, orphaned, submission, timing>>

PersistFailed(r) ==
  /\ Goto(r, "failed", IF LockAcquired(r) THEN "release" ELSE "done")
  /\ PersistSafe(r, "FailedRecoverable", None, None,
       IF outcome[r] = "miningTimeout" THEN "IGRA_MINING_001" ELSE "none", 1)
  /\ UNCHANGED <<now, opening, ordering, outcome, orphaned, submission, timing>>

Release(r) ==
  /\ Goto(r, "release", "done")
  /\ \/ ReleaseSenderLock(Sender(r), r)
     \/ "release" \in Faults /\ UNCHANGED storeVars
  /\ leaseUntil' = [leaseUntil EXCEPT ![r] = 0]
  /\ UNCHANGED <<now, opening, ordering, outcome, orphaned, submission, deadline, pollNow>>

-----------------------------------------------------------------------------
(* The process dies.  A future dropped at another await than the lock step *)
(* ends the request in the same way.                                       *)
Crash(r) ==
  /\ "crash" \in Faults
  /\ pc[r] \notin Ended \cup {"idle"}
  /\ pc' = [pc EXCEPT ![r] = "gone"]
  /\ LeaveLoop(r)
  /\ leaseUntil' = [leaseUntil EXCEPT ![r] = 0]
  /\ orphaned' = orphaned \ {r}
  /\ IF pc[r] = "submit" THEN LeaveInFlight(r, Sendable) ELSE UNCHANGED late
  /\ UNCHANGED <<storeVars, now, opening, ordering, outcome, hash, handle, sent, result>>

(* A future dropped during the lock step leaves the lock task running. *)
Abandon(r) ==
  /\ "crash" \in Faults
  /\ pc[r] \in PollLoop \cup {"begin"}
  /\ r \notin orphaned
  /\ orphaned' = orphaned \cup {r}
  /\ UNCHANGED <<storeVars, now, opening, pc, ordering, outcome, submission, timing>>

(* Another process opens the store; it may have another profile. *)
OpenStore(p) ==
  /\ \E D \in SUBSET Prunable : (D # {} => "prune" \in Faults) /\ OpenHandle(p, D)
  /\ opened' = opened \cup {p}
  /\ forgotten' = forgotten \cup
       (IF p # storeProfile THEN {r \in Requests : LockAcquired(r)} ELSE {})
  /\ UNCHANGED <<now, control, submission, timing>>

(* The clock leaves room for the lock step of every request that began. *)
Tick ==
  /\ now < MaxTime
  /\ now + LockTimeout < MaxTime \/ \A r \in Requests : pc[r] \notin BeforeLock
  /\ now' = now + 1
  /\ UNCHANGED <<storeVars, opening, control, submission, timing>>

Advance(r) ==
  \/ PersistReceived(r) \/ BeginLock(r) \/ Poll(r) \/ PollTimeout(r)
  \/ Grant(r) \/ RefuseGap(r) \/ TryAgain(r) \/ LockError(r)
  \/ PersistBlocked(r) \/ PersistReplacement(r) \/ PersistUnsigned(r)
  \/ SubmitOk(r) \/ SubmitErr(r)
  \/ PersistMined(r) \/ PersistSigned(r) \/ PersistBroadcasted(r)
  \/ MarkSubmitted(r) \/ PersistFailed(r) \/ Release(r)

Handles == opened \cup (IF "untracked" \in Faults THEN {None} ELSE {})

Next ==
  \/ \E r \in Requests :
       \/ \E h \in Hashes, p \in Handles : Start(r, h, p)
       \/ Advance(r)
       \/ Land(r)
       \/ Crash(r)
       \/ Abandon(r)
  \/ \E p \in Profiles : OpenStore(p)
  \/ Tick

Spec == Init /\ [][Next]_vars

(* The runtime schedules every request, the node answers or the connection *)
(* breaks, and time passes.                                                *)
Fairness ==
  /\ \A r \in Requests : WF_vars(Advance(r))
  /\ WF_vars(Tick)

FairSpec == Spec /\ Fairness

-----------------------------------------------------------------------------
(* Properties. *)

Holding(r) == LockAcquired(r) /\ pc[r] \in Critical

LandedNonce(s, n) ==
  \E r \in Requests : sent[r] # {} /\ Sender(r) = s /\ Nonce(r) = n

OneProfile == \A p, q \in Profiles : p = q

(* The counter never runs ahead of L1: every nonce between the first one a *)
(* sender used and next_expected_nonce was accepted by the Kaspa node, in  *)
(* spite of overrun leases, crashes, failed writes and wiped tables.       *)
NoSkippedNonce ==
  \A s \in Senders : nextExpected[s] # None =>
    \A n \in base[s]..(nextExpected[s] - 1) : LandedNonce(s, n)

(* A request the store classified reaches L1 only after every lower nonce  *)
(* of its sender (from the first one recorded) did: what the classification *)
(* saw still holds when the submission, much later and perhaps after the   *)
(* lease is gone, goes out.  A profile change forgets what was recorded:   *)
(* this is about requests classified since the last one.                   *)
BroadcastInOrder ==
  \A r \in Requests \ forgotten : LockAcquired(r) /\ sent[r] # {} =>
    \A n \in base[Sender(r)]..(Nonce(r) - 1) : LandedNonce(Sender(r), n)

(* Of two requests of one sender between grant and release, at most one is *)
(* inside its lease: the lock is never taken from a holder in time, even   *)
(* by a contender whose clock reading is old when its transaction runs.  A *)
(* request whose row a profile change wiped is out of it.                  *)
LeaseExclusion ==
  \A r, q \in Requests \ forgotten :
    r # q /\ Holding(r) /\ Holding(q) /\ Sender(r) = Sender(q)
      => leaseUntil[r] < now \/ leaseUntil[q] < now

(* The request path implements the abstract nonce ledger: whatever happens *)
(* to locks, rows and requests, the counter moves by one, over nonces that *)
(* the node accepted, or is wiped for all senders.                         *)
Ledger == INSTANCE NonceLedger WITH
  accepted <- [s \in Senders |-> {n \in 0..MaxNonce : LandedNonce(s, n)}],
  first <- base,
  next <- nextExpected

ImplementsLedger == Ledger!Spec

(* The request path uses submit_payload within its contract: it calls it   *)
(* once, refuses without calling, and keeps to its answer.                 *)
Phase(r) ==
  IF outcome[r] # "pending" THEN outcome[r]
  ELSE IF pc[r] = "submit" THEN "open"
  ELSE IF pc[r] = "gone" THEN "gone" ELSE "none"

Contract == INSTANCE PayloadSubmission WITH
  Submissions <- Requests,
  phase <- [r \in Requests |-> Phase(r)]

ImplementsContract == Contract!Spec

(* Unless a release fails or a request is cut short, no exit of the        *)
(* request path leaves a lock row behind: each row belongs to a request    *)
(* that is going to release it.  In particular a nonce gap, found after    *)
(* the row was written, undoes it.                                         *)
NoOrphanLock ==
  \A s \in Senders : locks[s] # None =>
    Holding(locks[s].owner) /\ Sender(locks[s].owner) = s

(* A client that was answered Ok for its in-order nonce may send the next  *)
(* one: the counter is past it, whoever held the lock meanwhile.  Only     *)
(* u64::MAX, which has no successor, stays where it is; and a profile      *)
(* change wipes the counters of the requests granted before it.            *)
AnsweredAdvances ==
  \A r \in Requests \ forgotten :
    pc[r] = "done" /\ outcome[r] = "ok" /\ ordering[r] = "inOrder" /\ Nonce(r) < MaxNonce
      => nextExpected[Sender(r)] # None /\ nextExpected[Sender(r)] > Nonce(r)

(* The row of a transaction counts every failed request for its hash, also *)
(* when requests for the same hash overwrite each other's row.             *)
AttemptsCountFailures ==
  \A h \in Hashes :
    Attempts(h) = Cardinality({r \in Requests :
      hash[r] = h /\ Failing(r) /\ pc[r] \in {"release", "done"}})

(* What the store says of a transaction is what the last request for it    *)
(* answered: a row that an answered request wrote last shows the accepted  *)
(* Kaspa transaction after Ok, and a failure with no Kaspa id after Err.   *)
RecordMatchesAnswer ==
  \A r \in Requests : pc[r] = "done" /\ handle[r] # None =>
    LET row == txMap[hash[r]] IN
    /\ row # None
    /\ row.correlation = r =>
         IF outcome[r] = "ok"
         THEN row.state = "KaspaBroadcasted" /\ row.kaspaTxId \in sent[r]
         ELSE row.state = "FailedRecoverable" /\ row.kaspaTxId = None

(* The payload nonce of a row is that of a transaction which the node      *)
(* accepted for the recorded request.  When it accepted, or is still going *)
(* to accept, another one too, the recorded one is the later: the other is *)
(* the first broadcast, whose answer was lost.  Exactly the broadcast rows *)
(* have a Kaspa id, and it is the id of that transaction.                  *)
RecordedOnL1 ==
  \A h \in Hashes : txMap[h] # None =>
    LET row == txMap[h]
        r == row.correlation
    IN
    /\ row.payloadNonce # None =>
         /\ row.payloadNonce \in sent[r]
         /\ sent[r] \cup late[r] \subseteq 0..row.payloadNonce
    /\ row.kaspaTxId # None <=> row.state = "KaspaBroadcasted"
    /\ row.kaspaTxId # None => row.kaspaTxId = row.payloadNonce

(* next_expected_nonce never goes back, except to "no row" when a profile  *)
(* change wipes it: a late request whose lease was taken over cannot undo  *)
(* the progress of its successors.                                         *)
NonceMonotone ==
  [][\A s \in Senders :
       nextExpected[s] # None /\ nextExpected'[s] # nextExpected[s] =>
         \/ storeProfile' # storeProfile
         \/ nextExpected'[s] # None /\ nextExpected'[s] > nextExpected[s]]_vars

(* An expired lease is taken over only by a request whose lock step began  *)
(* more than LockTimeout after the lease was granted: whoever was already  *)
(* waiting by then times out first.  This is what the factor two buys.     *)
NoEarlyTakeover ==
  [][\A s \in Senders :
       locks[s] # None /\ locks'[s] # None /\ locks'[s].owner # locks[s].owner =>
         deadline[locks'[s].owner] - LockTimeout > locks[s].updatedAt + LockTimeout]_vars

(* Every request that starts is answered, or ended by a crash, whatever    *)
(* the other requests do with the sender's lock.                           *)
RequestsEnd ==
  \A r \in Requests : (pc[r] # "idle") ~> (pc[r] \in Ended)

-----------------------------------------------------------------------------
(* What the repository says and the code does not keep. *)

(* transport.rs, test igra_transport_serializes_concurrent_same_sender_    *)
(* requests: "same-sender requests should be serialized behind sender      *)
(* lock", that is, one submission in flight per sender.                    *)
OneSubmissionPerSender ==
  \A r, q \in Requests :
    r # q /\ pc[r] = "submit" /\ pc[q] = "submit" => Sender(r) # Sender(q)

(* store.rs, on the lease: it should outlive the acquisition timeout,      *)
(* otherwise a contender "could 'wait out' the lease and succeed within    *)
(* the same call": a taken-over lease was already over when the call began.*)
LeaseNotWaitedOut ==
  [][\A s \in Senders :
       locks[s] # None /\ locks'[s] # None /\ locks'[s].owner # locks[s].owner =>
         deadline[locks'[s].owner] - LockTimeout > locks[s].expiresAt]_vars
=============================================================================
