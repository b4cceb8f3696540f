------------------------ MODULE IgraTransportProofs ------------------------
(***************************************************************************)
(* Theorems about IgraTransport, for every number of requests, hashes and  *)
(* senders, every nonce, lock timeout and clock bound, and every set of    *)
(* faults unless the theorem names the ones it excludes.                   *)
(***************************************************************************)
EXTENDS IgraTransport, TLAPS, FiniteSetTheorems

-----------------------------------------------------------------------------
(* The inductive strengthening of TypeOK: how the program counter of a     *)
(* request relates to its other variables.                                 *)

Submitted(r) ==
  pc[r] \in { "mined", "signed", "broadcasted", "mark", "failed", "release",
             "done", "gone" }

ControlFlow ==
  \A r \in Requests :
    /\ pc[r] # "idle" => hash[r] \in Hashes
    /\ pc[r] = "idle" => sent[r] = {}
    /\ late[r] # {} \/ outcome[r] # "pending" => Submitted(r)
    /\ outcome[r] = "ok" =>
         result[r] \in sent[r] /\ sent[r] \cup late[r] \subseteq 0..result[r]
    /\ pc[r] \in {"idle", "lockTimeout", "nonceGap"} \cup BeforeLock \cup PollLoop
         => ordering[r] = "none"
    /\ handle[r] = None =>
         pc[r] \in {"idle", "submit", "done", "gone"} /\ ordering[r] = "none"
    /\ pc[r] \in {"mined", "signed", "broadcasted", "mark"}
         => outcome[r] = "ok"
    /\ pc[r] = "mark" => ordering[r] = "inOrder"
    /\ pc[r] = "failed" => Failing(r)
    /\ pc[r] = "tryLock" => pollNow[r] <= now /\ pollNow[r] < deadline[r]

TypeInv == TypeOK /\ ControlFlow

(* The type invariant holds at the start. *)
LEMMA InitTypeInv == Init => TypeInv
<1> SUFFICES ASSUME Init PROVE TypeInv
  OBVIOUS
<1>1. StoreTypeOK
  BY StoreAssumption DEF Init, StoreInit, StoreTypeOK
<1>2. TypeOK
  BY <1>1, StoreAssumption DEF Init, StoreInit, TypeOK, Control, Ordering, Outcome
<1>3. ASSUME NEW r \in Requests
     PROVE  /\ pc[r] = "idle" /\ sent[r] = {} /\ late[r] = {}
            /\ ordering[r] = "none" /\ handle[r] = None /\ outcome[r] = "pending"
  BY DEF Init
<1>4. ControlFlow
  <2> SUFFICES ASSUME NEW r \in Requests
      PROVE  ControlFlow!(r)
    BY DEF ControlFlow
  <2> QED
    BY <1>3 DEF Submitted, BeforeLock, PollLoop, Failing
<1> QED
  BY <1>2, <1>4 DEF TypeInv

(* A row written by persist_transition_safe has the type of a row. *)
LEMMA PersistSafeType ==
  ASSUME NEW r \in Requests, StoreTypeOK, hash[r] \in Hashes, handle[r] \in Profiles,
         NEW state \in TxLifecycleState, NEW ref \in KaspaRef, NEW id \in KaspaRef,
         NEW code \in ErrorCode, NEW inc \in {0, 1},
         PersistSafe(r, state, ref, id, code, inc)
  PROVE  StoreTypeOK'
<1>1. Attempts(hash[r]) \in Nat
  BY NoneAssumption DEF Attempts, StoreTypeOK, TxMapRecord
<1>2. Attempts(hash[r]) + inc \in Nat
  BY <1>1
<1>3. txMap' \in [Hashes -> TxMapRecord \cup {None}]
  BY <1>2 DEF PersistSafe, PersistTransition, StoreTypeOK, TxMapRecord
<1> QED
  BY <1>3 DEF PersistSafe, StoreTypeOK

(* A request that writes a row knows its hash and its handle. *)
LEMMA TrackedHandle ==
  ASSUME NEW r \in Requests, TypeInv, pc[r] \notin {"idle", "submit", "done", "gone"}
  PROVE  /\ hash[r] \in Hashes
         /\ handle[r] \in Profiles
         /\ result[r] \in KaspaRef
         /\ ReplacementCode(r) \in ErrorCode
  BY DEF TypeInv, TypeOK, ControlFlow, KaspaRef, ReplacementCode, ErrorCode

(* The hash of a started request determines its sender and nonce. *)
LEMMA StartedHash ==
  ASSUME NEW r \in Requests, TypeInv, pc[r] # "idle"
  PROVE  /\ hash[r] \in Hashes
         /\ Sender(r) \in Senders
         /\ Nonce(r) \in 0..MaxNonce
  BY StoreAssumption DEF TypeInv, TypeOK, ControlFlow, Sender, Nonce

(* Nothing lands for a request that has not started. *)
LEMMA LandStarted ==
  ASSUME NEW r \in Requests, TypeInv, Land(r)
  PROVE  pc[r] # "idle"
  BY DEF Land, TypeInv, ControlFlow, Submitted

(* What the end of a submission leaves in flight are broadcasts. *)
LEMMA FlightRange ==
  ASSUME NEW r \in Requests, NEW gone \in SUBSET Broadcasts, LeaveInFlight(r, gone)
  PROVE  /\ sent[r] \subseteq gone
         /\ \E L \in SUBSET (gone \ sent[r]) : late' = [late EXCEPT ![r] = L]
  BY DEF LeaveInFlight

(* Broadcasts up to one of them, and those that a run may reach. *)
LEMMA BroadcastSets ==
  /\ \A i \in Broadcasts : 0..i \subseteq Broadcasts
  /\ Sendable \subseteq Broadcasts
  /\ {0} \subseteq Broadcasts
  BY DEF Broadcasts, Sendable

(* The lock transaction keeps the tables well typed. *)
LEMMA AcquireType ==
  ASSUME NEW h \in Hashes, NEW r \in Requests, NEW t \in Nat, StoreTypeOK,
         AcquireAndClassify(h, r, t)
  PROVE  StoreTypeOK'
<1> DEFINE s == SenderOf[h]
<1>1. s \in Senders /\ NonceOf[h] \in 0..MaxNonce
  BY StoreAssumption
<1>2. ExpectedNonce(h) \in 0..MaxNonce
  BY <1>1 DEF ExpectedNonce, StoreTypeOK
<1>3. [owner |-> r, expiresAt |-> t + Lease, updatedAt |-> t] \in SenderLock
  BY StoreAssumption DEF Lease, SenderLock
<1>4. locks' \in [Senders -> SenderLock \cup {None}]
  BY <1>1, <1>3 DEF AcquireAndClassify, StoreTypeOK
<1>5. nextExpected' \in [Senders -> 0..MaxNonce \cup {None}]
  BY <1>1, <1>2 DEF AcquireAndClassify, StoreTypeOK
<1>6. base' \in [Senders -> 0..MaxNonce \cup {None}]
  BY <1>1 DEF AcquireAndClassify, StoreTypeOK
<1> QED
  BY <1>4, <1>5, <1>6 DEF AcquireAndClassify, StoreTypeOK

(* Marking a nonce keeps the tables well typed, up to u64::MAX. *)
LEMMA MarkType ==
  ASSUME NEW s \in Senders, NEW n \in 0..MaxNonce, StoreTypeOK,
         MarkSubmittedInOrderNonce(s, n)
  PROVE  StoreTypeOK'
<1>1. n + 1 \in 0..MaxNonce
  BY StoreAssumption DEF MarkSubmittedInOrderNonce, NonceOverflow
<1>2. nextExpected' \in [Senders -> 0..MaxNonce \cup {None}]
  BY <1>1 DEF MarkSubmittedInOrderNonce, StoreTypeOK
<1>3. base' \in [Senders -> 0..MaxNonce \cup {None}]
  BY DEF MarkSubmittedInOrderNonce, StoreTypeOK
<1> QED
  BY <1>2, <1>3 DEF MarkSubmittedInOrderNonce, StoreTypeOK

(* The store keeps its type in every step. *)
LEMMA StoreTypeStep == TypeInv /\ [Next]_vars => StoreTypeOK'
<1> SUFFICES ASSUME TypeInv, [Next]_vars PROVE StoreTypeOK'
  OBVIOUS
<1>0. StoreTypeOK
  BY DEF TypeInv, TypeOK
<1>1. CASE UNCHANGED storeVars
  BY <1>0, <1>1 DEF StoreTypeOK, storeVars
<1>2. ASSUME NEW r \in Requests, PersistReceived(r)
     PROVE  StoreTypeOK'
  <2>1. /\ hash[r] \in Hashes
        /\ handle[r] \in Profiles
        /\ result[r] \in KaspaRef
        /\ ReplacementCode(r) \in ErrorCode
    BY <1>2, TrackedHandle DEF PersistReceived, Goto
  <2> QED
    BY <1>0, <1>2, <2>1, PersistSafeType
    DEF PersistReceived, TxLifecycleState, KaspaRef, ErrorCode
<1>3. ASSUME NEW r \in Requests, PersistBlocked(r)
     PROVE  StoreTypeOK'
  <2>1. /\ hash[r] \in Hashes
        /\ handle[r] \in Profiles
        /\ result[r] \in KaspaRef
        /\ ReplacementCode(r) \in ErrorCode
    BY <1>3, TrackedHandle DEF PersistBlocked, Goto
  <2> QED
    BY <1>0, <1>3, <2>1, PersistSafeType
    DEF PersistBlocked, TxLifecycleState, KaspaRef, ErrorCode
<1>4. ASSUME NEW r \in Requests, PersistReplacement(r)
     PROVE  StoreTypeOK'
  <2>1. /\ hash[r] \in Hashes
        /\ handle[r] \in Profiles
        /\ result[r] \in KaspaRef
        /\ ReplacementCode(r) \in ErrorCode
    BY <1>4, TrackedHandle DEF PersistReplacement, Goto
  <2> QED
    BY <1>0, <1>4, <2>1, PersistSafeType
    DEF PersistReplacement, TxLifecycleState, KaspaRef, ErrorCode
<1>5. ASSUME NEW r \in Requests, PersistUnsigned(r)
     PROVE  StoreTypeOK'
  <2>1. /\ hash[r] \in Hashes
        /\ handle[r] \in Profiles
        /\ result[r] \in KaspaRef
        /\ ReplacementCode(r) \in ErrorCode
    BY <1>5, TrackedHandle DEF PersistUnsigned, Goto
  <2> QED
    BY <1>0, <1>5, <2>1, PersistSafeType
    DEF PersistUnsigned, TxLifecycleState, KaspaRef, ErrorCode
<1>6. ASSUME NEW r \in Requests, PersistMined(r)
     PROVE  StoreTypeOK'
  <2>1. /\ hash[r] \in Hashes
        /\ handle[r] \in Profiles
        /\ result[r] \in KaspaRef
        /\ ReplacementCode(r) \in ErrorCode
    BY <1>6, TrackedHandle DEF PersistMined, Goto
  <2> QED
    BY <1>0, <1>6, <2>1, PersistSafeType
    DEF PersistMined, TxLifecycleState, KaspaRef, ErrorCode
<1>7. ASSUME NEW r \in Requests, PersistSigned(r)
     PROVE  StoreTypeOK'
  <2>1. /\ hash[r] \in Hashes
        /\ handle[r] \in Profiles
        /\ result[r] \in KaspaRef
        /\ ReplacementCode(r) \in ErrorCode
    BY <1>7, TrackedHandle DEF PersistSigned, Goto
  <2> QED
    BY <1>0, <1>7, <2>1, PersistSafeType
    DEF PersistSigned, TxLifecycleState, KaspaRef, ErrorCode
<1>8. ASSUME NEW r \in Requests, PersistBroadcasted(r)
     PROVE  StoreTypeOK'
  <2>1. /\ hash[r] \in Hashes
        /\ handle[r] \in Profiles
        /\ result[r] \in KaspaRef
        /\ ReplacementCode(r) \in ErrorCode
    BY <1>8, TrackedHandle DEF PersistBroadcasted, Goto
  <2> QED
    BY <1>0, <1>8, <2>1, PersistSafeType
    DEF PersistBroadcasted, TxLifecycleState, KaspaRef, ErrorCode
<1>9. ASSUME NEW r \in Requests, PersistFailed(r)
     PROVE  StoreTypeOK'
  <2>1. /\ hash[r] \in Hashes
        /\ handle[r] \in Profiles
        /\ result[r] \in KaspaRef
        /\ ReplacementCode(r) \in ErrorCode
    BY <1>9, TrackedHandle DEF PersistFailed, Goto
  <2> QED
    BY <1>0, <1>9, <2>1, PersistSafeType
    DEF PersistFailed, TxLifecycleState, KaspaRef, ErrorCode
<1>10. ASSUME NEW r \in Requests, Grant(r)
      PROVE  StoreTypeOK'
  <2>1. hash[r] \in Hashes /\ pollNow[r] \in Nat
    BY <1>10, StartedHash DEF Grant, TypeInv, TypeOK
  <2> QED
    BY <1>0, <1>10, <2>1, AcquireType DEF Grant
<1>11. ASSUME NEW r \in Requests, MarkSubmitted(r)
      PROVE  StoreTypeOK'
  BY <1>0, <1>1, <1>11, StartedHash, MarkType DEF MarkSubmitted, Goto
<1>12. ASSUME NEW r \in Requests, Release(r)
      PROVE  StoreTypeOK'
  <2>1. Sender(r) \in Senders
    BY <1>12, StartedHash DEF Release, Goto
  <2>2. CASE ReleaseSenderLock(Sender(r), r)
    BY <1>0, <2>1, <2>2 DEF ReleaseSenderLock, StoreTypeOK
  <2> QED
    BY <1>1, <1>12, <2>2 DEF Release
<1>13. ASSUME NEW p \in Profiles, OpenStore(p)
      PROVE  StoreTypeOK'
  BY <1>0, <1>13 DEF OpenStore, OpenHandle, StoreTypeOK
<1> QED
  BY <1>1, <1>2, <1>3, <1>4, <1>5, <1>6, <1>7, <1>8, <1>9, <1>10, <1>11, <1>12, <1>13
  DEF Next, Advance, vars, Start, BeginLock, Poll, PollTimeout, RefuseGap, TryAgain,
      LockError, Land, SubmitOk, SubmitErr, Crash, Abandon, Tick

(* Every action keeps the type and the control flow of the requests. *)
LEMMA TypeInvStep == TypeInv /\ [Next]_vars => TypeInv'
<1> SUFFICES ASSUME TypeInv, [Next]_vars PROVE TypeInv'
  OBVIOUS
<1>0. StoreTypeOK'
  BY StoreTypeStep
<1> USE <1>0, StoreAssumption DEF TypeInv, TypeOK, ControlFlow, Goto, Control, BeforeLock,
      PollLoop, Ended, Critical, Ordering, Outcome, LockAcquired, Failing, AfterLock,
      LeaveLoop, Submitted, opening, control, submission, timing
<1>1. ASSUME NEW r \in Requests, NEW h \in Hashes, NEW p \in Handles, Start(r, h, p)
     PROVE  TypeInv'
  BY <1>1 DEF Start, Handles
<1>2. ASSUME NEW r \in Requests, PersistReceived(r)
     PROVE  TypeInv'
  BY <1>2 DEF PersistReceived
<1>3. ASSUME NEW r \in Requests, BeginLock(r)
     PROVE  TypeInv'
  <2>1. now + LockTimeout \in Nat
    OBVIOUS
  <2>2. TypeOK'
    BY <1>3, <2>1 DEF BeginLock
  <2>3. ControlFlow'
    BY <1>3, <2>1 DEF BeginLock
  <2> QED
    BY <2>2, <2>3
<1>4. ASSUME NEW r \in Requests, Poll(r)
     PROVE  TypeInv'
  BY <1>4 DEF Poll
<1>5. ASSUME NEW r \in Requests, PollTimeout(r)
     PROVE  TypeInv'
  BY <1>5 DEF PollTimeout
<1>6. ASSUME NEW r \in Requests, Grant(r)
     PROVE  TypeInv'
  <2>1. ClassifyNonce(hash[r]) \in {"inOrder", "stale", "replacement"}
    BY DEF ClassifyNonce
  <2>2. pollNow[r] + Lease \in Nat
    BY DEF Lease
  <2>3. TypeOK'
    BY <1>6, <2>1, <2>2 DEF Grant
  <2>4. handle[r] # None
    BY <1>6 DEF Grant
  <2>5. ControlFlow'
    BY <1>6, <2>1, <2>4 DEF Grant
  <2> QED
    BY <2>3, <2>5
<1>7. ASSUME NEW r \in Requests, RefuseGap(r)
     PROVE  TypeInv'
  BY <1>7 DEF RefuseGap
<1>8. ASSUME NEW r \in Requests, TryAgain(r)
     PROVE  TypeInv'
  BY <1>8 DEF TryAgain
<1>9. ASSUME NEW r \in Requests, LockError(r)
     PROVE  TypeInv'
  BY <1>9 DEF LockError
<1>10. ASSUME NEW r \in Requests, PersistBlocked(r)
     PROVE  TypeInv'
  BY <1>10 DEF PersistBlocked
<1>11. ASSUME NEW r \in Requests, PersistReplacement(r)
     PROVE  TypeInv'
  BY <1>11 DEF PersistReplacement
<1>12. ASSUME NEW r \in Requests, PersistUnsigned(r)
     PROVE  TypeInv'
  BY <1>12 DEF PersistUnsigned
<1>13. ASSUME NEW r \in Requests, Land(r)
     PROVE  TypeInv'
  <2>1. PICK i \in Broadcasts :
          /\ \/ pc[r] = "submit" /\ UNCHANGED late
             \/ i \in late[r] /\ late' = [late EXCEPT ![r] = @ \ {i}]
          /\ sent' = [sent EXCEPT ![r] = @ \cup {i}]
    BY <1>13, BroadcastSets DEF Land
  <2>2. TypeOK'
    BY <1>13, <2>1 DEF Land
  <2>3. pc[r] # "idle"
    BY <1>13, LandStarted
  <2>4. /\ sent'[r] = sent[r] \cup {i}
        /\ late'[r] \subseteq late[r]
        /\ outcome[r] = "ok" => i \in late[r]
        /\ \A q \in Requests : q # r => sent'[q] = sent[q] /\ late'[q] = late[q]
    BY <2>1
  <2>5. ControlFlow'
    BY <1>13, <2>3, <2>4 DEF Land
  <2> QED
    BY <2>2, <2>5
<1>14. ASSUME NEW r \in Requests, SubmitOk(r)
     PROVE  TypeInv'
  <2>1. PICK i \in sent[r] : LeaveInFlight(r, 0..i) /\ result' = [result EXCEPT ![r] = i]
    BY <1>14 DEF SubmitOk
  <2>2. i \in Broadcasts /\ 0..i \subseteq Broadcasts
    BY <2>1, BroadcastSets
  <2>3. PICK L \in SUBSET ((0..i) \ sent[r]) : late' = [late EXCEPT ![r] = L]
    BY <2>1, <2>2, FlightRange
  <2>4. sent[r] \subseteq 0..i
    BY <2>1, <2>2, FlightRange
  <2>5. TypeOK'
    BY <1>14, <2>1, <2>2, <2>3 DEF SubmitOk
  <2>6. /\ result'[r] \in sent'[r]
        /\ sent'[r] \cup late'[r] \subseteq 0..result'[r]
        /\ \A q \in Requests : q # r => late'[q] = late[q] /\ result'[q] = result[q]
    BY <1>14, <2>1, <2>3, <2>4 DEF SubmitOk
  <2>7. ControlFlow'
    BY <1>14, <2>6 DEF SubmitOk
  <2> QED
    BY <2>5, <2>7
<1>15. ASSUME NEW r \in Requests, SubmitErr(r)
     PROVE  TypeInv'
  <2>2. PICK L \in SUBSET Broadcasts : late' = [late EXCEPT ![r] = L]
    BY <1>15, FlightRange, BroadcastSets DEF SubmitErr
  <2>3. TypeOK'
    BY <1>15, <2>2 DEF SubmitErr
  <2>4. ControlFlow'
    BY <1>15, <2>2 DEF SubmitErr
  <2> QED
    BY <2>3, <2>4
<1>16. ASSUME NEW r \in Requests, PersistMined(r)
     PROVE  TypeInv'
  BY <1>16 DEF PersistMined
<1>17. ASSUME NEW r \in Requests, PersistSigned(r)
     PROVE  TypeInv'
  BY <1>17 DEF PersistSigned
<1>18. ASSUME NEW r \in Requests, PersistBroadcasted(r)
     PROVE  TypeInv'
  BY <1>18 DEF PersistBroadcasted
<1>19. ASSUME NEW r \in Requests, MarkSubmitted(r)
     PROVE  TypeInv'
  BY <1>19 DEF MarkSubmitted
<1>20. ASSUME NEW r \in Requests, PersistFailed(r)
     PROVE  TypeInv'
  BY <1>20 DEF PersistFailed
<1>21. ASSUME NEW r \in Requests, Release(r)
     PROVE  TypeInv'
  BY <1>21 DEF Release
<1>22. ASSUME NEW r \in Requests, Crash(r)
     PROVE  TypeInv'
  <2>2. PICK L \in SUBSET Broadcasts :
          /\ late' = [late EXCEPT ![r] = L]
          /\ L = late[r] \/ pc[r] = "submit"
    BY <1>22, FlightRange, BroadcastSets DEF Crash
  <2>3. TypeOK'
    BY <1>22, <2>2 DEF Crash
  <2>4. ControlFlow'
    BY <1>22, <2>2 DEF Crash
  <2> QED
    BY <2>3, <2>4
<1>23. ASSUME NEW r \in Requests, Abandon(r)
     PROVE  TypeInv'
  BY <1>23 DEF Abandon
<1>24. ASSUME NEW p \in Profiles, OpenStore(p)
      PROVE  TypeInv'
  BY <1>24 DEF OpenStore
<1>25. CASE Tick
  BY <1>25 DEF Tick
<1>26. CASE UNCHANGED vars
  BY <1>26 DEF vars
<1> QED
  BY <1>1, <1>2, <1>3, <1>4, <1>5, <1>6, <1>7, <1>8, <1>9, <1>10, <1>11, <1>12, <1>13, <1>14, <1>15, <1>16, <1>17, <1>18, <1>19, <1>20, <1>21, <1>22, <1>23, <1>24, <1>25, <1>26 DEF Next, Advance

(* Type correctness of the request path and the store, with the control    *)
(* flow facts it rests on: in every reachable state.                       *)
THEOREM TypeCorrect == Spec => []TypeInv
<1> QED
  BY InitTypeInv, TypeInvStep, PTL DEF Spec

THEOREM SpecTypeOK == Spec => []TypeOK
<1>1. TypeInv => TypeOK
  BY DEF TypeInv
<1> QED
  BY <1>1, TypeCorrect, PTL

-----------------------------------------------------------------------------
(* Which actions write which variables. *)

(* Only a start and an acceptance change hashes or acceptances. *)
LEMMA SubmissionFrame ==
  ASSUME [Next]_vars
  PROVE  \/ UNCHANGED <<hash, sent>>
         \/ \E r \in Requests, h \in Hashes, p \in Handles : Start(r, h, p)
         \/ \E r \in Requests : Land(r) /\ UNCHANGED storeVars
  BY DEF Next, Advance, vars, storeVars, control, submission, timing, Start, PersistReceived,
     BeginLock, Poll, PollTimeout, Grant, RefuseGap, TryAgain, LockError, PersistBlocked,
     PersistReplacement, PersistUnsigned, Land, SubmitOk, SubmitErr, PersistMined,
     PersistSigned, PersistBroadcasted, MarkSubmitted, PersistFailed, Release, Crash,
     Abandon, OpenStore, Tick

(* What writes the counter, the locks and their history. *)
LEMMA StoreFrame ==
  ASSUME [Next]_vars
  PROVE  \/ UNCHANGED <<nextExpected, locks, base, storeProfile>>
         \/ \E r \in Requests : Grant(r)
         \/ \E r \in Requests : Release(r) /\ UNCHANGED <<nextExpected, base, storeProfile>>
         \/ \E r \in Requests : MarkSubmitted(r)
                                /\ MarkSubmittedInOrderNonce(Sender(r), Nonce(r))
         \/ \E p \in Profiles : OpenStore(p)
  BY DEF Next, Advance, vars, storeVars, control, submission, timing, Start, PersistReceived,
     BeginLock, Poll, PollTimeout, RefuseGap, TryAgain, LockError, PersistBlocked,
     PersistReplacement, PersistUnsigned, Land, SubmitOk, SubmitErr, PersistMined,
     PersistSigned, PersistBroadcasted, MarkSubmitted, PersistFailed, Release, Crash,
     Abandon, Tick, PersistSafe, ReleaseSenderLock

(* An acceptance by the node is never undone. *)
LEMMA LandedStable ==
  ASSUME TypeInv, [Next]_vars, NEW s, NEW n, LandedNonce(s, n)
  PROVE  LandedNonce(s, n)'
<1>1. PICK q \in Requests : sent[q] # {} /\ Sender(q) = s /\ Nonce(q) = n
  BY DEF LandedNonce
<1>2. sent'[q] # {} /\ hash'[q] = hash[q]
  <2>1. CASE UNCHANGED <<hash, sent>>
    BY <1>1, <2>1
  <2>2. ASSUME NEW r \in Requests, NEW h \in Hashes, NEW p \in Handles, Start(r, h, p)
        PROVE  sent'[q] # {} /\ hash'[q] = hash[q]
    BY <1>1, <2>2 DEF Start, Goto, TypeInv, TypeOK, ControlFlow
  <2>3. ASSUME NEW r \in Requests, Land(r)
        PROVE  sent'[q] # {} /\ hash'[q] = hash[q]
    BY <1>1, <2>3 DEF Land, TypeInv, TypeOK
  <2> QED
    BY <2>1, <2>2, <2>3, SubmissionFrame
<1> QED
  BY <1>1, <1>2 DEF LandedNonce, Sender, Nonce

-----------------------------------------------------------------------------
(* The nonce counter.  NoSkippedNonce needs to know that a counter and its *)
(* first nonce are recorded together.                                      *)

NonceInv ==
  /\ NoSkippedNonce
  /\ \A s \in Senders : base[s] = None <=> nextExpected[s] = None

(* Every step keeps the counter behind L1. *)
LEMMA NonceInvStep ==
  ASSUME TypeInv, [Next]_vars, NonceInv
  PROVE  NonceInv'
<1> USE DEF NonceInv, NoSkippedNonce
<1>0. StoreTypeOK
  BY DEF TypeInv, TypeOK
<1>1. CASE UNCHANGED <<nextExpected, base>>
  BY <1>1, LandedStable
<1>2. ASSUME NEW r \in Requests, Grant(r)
      PROVE  NonceInv'
  <2>1. hash[r] \in Hashes /\ Sender(r) \in Senders /\ Nonce(r) \in 0..MaxNonce
    BY <1>2, StartedHash DEF Grant
  <2>2. \A s \in Senders : s # Sender(r) =>
          nextExpected'[s] = nextExpected[s] /\ base'[s] = base[s]
    BY <1>0, <1>2, <2>1 DEF Grant, AcquireAndClassify, StoreTypeOK, Sender
  <2>3. CASE nextExpected[Sender(r)] = None
    <3>1. nextExpected'[Sender(r)] = Nonce(r) /\ base'[Sender(r)] = Nonce(r)
      BY <1>0, <1>2, <2>1, <2>3
      DEF Grant, AcquireAndClassify, ExpectedNonce, StoreTypeOK, Sender, Nonce
    <3>2. Nonce(r)..(Nonce(r) - 1) = {}
      BY <2>1
    <3>3. Nonce(r) # None
      BY <2>1, NoneAssumption
    <3> QED
      BY <2>1, <2>2, <3>1, <3>2, <3>3, LandedStable
  <2>4. CASE nextExpected[Sender(r)] # None
    <3>1. nextExpected' = nextExpected /\ base' = base
      BY <1>0, <1>2, <2>1, <2>4
      DEF Grant, AcquireAndClassify, ExpectedNonce, StoreTypeOK, Sender, Nonce
    <3> QED
      BY <3>1, LandedStable
  <2> QED
    BY <2>3, <2>4
<1>3. ASSUME NEW r \in Requests, MarkSubmitted(r),
             MarkSubmittedInOrderNonce(Sender(r), Nonce(r))
      PROVE  NonceInv'
  <2> DEFINE s == Sender(r)
             n == Nonce(r)
  <2>1. s \in Senders /\ n \in 0..MaxNonce
    BY <1>3, StartedHash DEF MarkSubmitted, Goto
  <2>2. LandedNonce(s, n)
    BY <1>3 DEF MarkSubmitted, Goto, LandedNonce, TypeInv, ControlFlow
  <2>3. \A t \in Senders : t # s =>
          nextExpected'[t] = nextExpected[t] /\ base'[t] = base[t]
    BY <1>0, <1>3 DEF MarkSubmittedInOrderNonce, StoreTypeOK
  <2>4. CASE nextExpected[s] = None
    <3>1. nextExpected'[s] = n + 1 /\ base'[s] = n
      BY <1>0, <1>3, <2>1, <2>4 DEF MarkSubmittedInOrderNonce, StoreTypeOK
    <3>2. n..(n + 1 - 1) = {n}
      BY <2>1
    <3>3. n # None /\ n + 1 # None
      BY <2>1, NoneAssumption
    <3> HIDE DEF s, n
    <3> QED
      BY <2>2, <2>3, <3>1, <3>2, <3>3, LandedStable
  <2>5. CASE nextExpected[s] = n
    <3>1. nextExpected'[s] = n + 1 /\ base'[s] = base[s]
      BY <1>0, <1>3, <2>1, <2>5, NoneAssumption DEF MarkSubmittedInOrderNonce, StoreTypeOK
    <3>2. n # None /\ n + 1 # None
      BY <2>1, NoneAssumption
    <3>3. base[s] \in 0..MaxNonce
      BY <1>0, <2>1, <2>5, <3>2 DEF StoreTypeOK
    <3>4. \A k \in base[s]..(n + 1 - 1) : k = n \/ k \in base[s]..(n - 1)
      BY <2>1, <3>3
    <3> HIDE DEF s, n
    <3> QED
      BY <2>1, <2>2, <2>3, <2>5, <3>1, <3>2, <3>4, LandedStable
  <2>6. CASE nextExpected[s] \notin {None, n}
    <3>1. nextExpected' = nextExpected /\ base' = base
      BY <1>0, <1>3, <2>1, <2>6 DEF MarkSubmittedInOrderNonce, StoreTypeOK
    <3> QED
      BY <3>1, LandedStable
  <2> QED
    BY <2>4, <2>5, <2>6
<1>4. ASSUME NEW p \in Profiles, OpenStore(p)
      PROVE  NonceInv'
  <2>1. CASE p = storeProfile
    BY <1>1, <1>4, <2>1 DEF OpenStore, OpenHandle
  <2>2. CASE p # storeProfile
    BY <1>4, <2>2 DEF OpenStore, OpenHandle
  <2> QED
    BY <2>1, <2>2
<1> QED
  BY <1>1, <1>2, <1>3, <1>4, StoreFrame

(* The counter never runs ahead of L1, whatever faults happen and however  *)
(* often the tables are wiped.                                             *)
THEOREM SpecNoSkippedNonce == Spec => []NoSkippedNonce
<1>1. Init => NonceInv
  BY DEF Init, StoreInit, NonceInv, NoSkippedNonce
<1>2. TypeInv /\ [Next]_vars /\ NonceInv => NonceInv'
  BY NonceInvStep
<1>3. NonceInv => NoSkippedNonce
  BY DEF NonceInv
<1> QED
  BY <1>1, <1>2, <1>3, TypeCorrect, PTL DEF Spec

(* One step of NonceMonotone. *)
LEMMA CounterForward ==
  ASSUME TypeInv, [Next]_vars, NEW s \in Senders,
         nextExpected[s] # None, nextExpected'[s] # nextExpected[s]
  PROVE  \/ storeProfile' # storeProfile
         \/ nextExpected'[s] # None /\ nextExpected'[s] > nextExpected[s]
<1>0. StoreTypeOK
  BY DEF TypeInv, TypeOK
<1>1. ASSUME NEW r \in Requests, Grant(r)
      PROVE  FALSE
  BY <1>0, <1>1 DEF Grant, AcquireAndClassify, ExpectedNonce, StoreTypeOK
<1>2. ASSUME NEW r \in Requests, MarkSubmitted(r),
             MarkSubmittedInOrderNonce(Sender(r), Nonce(r))
      PROVE  nextExpected'[s] # None /\ nextExpected'[s] > nextExpected[s]
  <2>1. Nonce(r) \in 0..MaxNonce
    BY <1>2, StartedHash DEF MarkSubmitted, Goto
  <2> QED
    BY <1>0, <1>2, <2>1, NoneAssumption DEF MarkSubmittedInOrderNonce, StoreTypeOK
<1>3. ASSUME NEW p \in Profiles, OpenStore(p)
      PROVE  storeProfile' # storeProfile
  BY <1>3 DEF OpenStore, OpenHandle
<1> QED
  BY <1>1, <1>2, <1>3, StoreFrame

(* The counter goes back only when a profile change wipes it. *)
THEOREM SpecNonceMonotone == Spec => NonceMonotone
<1>1. TypeInv /\ [Next]_vars =>
        \A s \in Senders :
          nextExpected[s] # None /\ nextExpected'[s] # nextExpected[s] =>
            \/ storeProfile' # storeProfile
            \/ nextExpected'[s] # None /\ nextExpected'[s] > nextExpected[s]
  BY CounterForward
<1> QED
  BY <1>1, TypeCorrect, PTL DEF Spec, NonceMonotone

-----------------------------------------------------------------------------
(* The lease. *)

(* A request holds the lock after a step only if it was granted in it, or  *)
(* held it before, with the same lease and for the same transaction.       *)
LEMMA HoldingFrame ==
  ASSUME TypeInv, [Next]_vars, NEW q \in Requests, Holding(q)'
  PROVE  \/ Grant(q)
         \/ /\ Holding(q)
            /\ leaseUntil'[q] = leaseUntil[q]
            /\ hash'[q] = hash[q]
<1> DEFINE Kept == Holding(q) /\ leaseUntil'[q] = leaseUntil[q] /\ hash'[q] = hash[q]
<1> USE DEF TypeInv, TypeOK, ControlFlow, Goto, BeforeLock, PollLoop, Ended, Critical,
      Holding, LockAcquired, AfterLock, control, submission, timing
<1>1. ASSUME NEW r \in Requests, NEW h \in Hashes, NEW p \in Handles, Start(r, h, p)
      PROVE  Kept
  BY <1>1 DEF Start
<1>2. ASSUME NEW r \in Requests, PersistReceived(r)
      PROVE  Kept
  BY <1>2 DEF PersistReceived
<1>3. ASSUME NEW r \in Requests, BeginLock(r)
      PROVE  Kept
  BY <1>3 DEF BeginLock
<1>4. ASSUME NEW r \in Requests, Poll(r)
      PROVE  Kept
  BY <1>4 DEF Poll
<1>5. ASSUME NEW r \in Requests, PollTimeout(r)
      PROVE  Kept
  BY <1>5 DEF PollTimeout
<1>6. ASSUME NEW r \in Requests, Grant(r), r # q
      PROVE  Kept
  BY <1>6 DEF Grant
<1>7. ASSUME NEW r \in Requests, RefuseGap(r)
      PROVE  Kept
  BY <1>7 DEF RefuseGap
<1>8. ASSUME NEW r \in Requests, TryAgain(r)
      PROVE  Kept
  BY <1>8 DEF TryAgain
<1>9. ASSUME NEW r \in Requests, LockError(r)
      PROVE  Kept
  BY <1>9 DEF LockError
<1>10. ASSUME NEW r \in Requests, PersistBlocked(r)
      PROVE  Kept
  BY <1>10 DEF PersistBlocked
<1>11. ASSUME NEW r \in Requests, PersistReplacement(r)
      PROVE  Kept
  BY <1>11 DEF PersistReplacement
<1>12. ASSUME NEW r \in Requests, PersistUnsigned(r)
      PROVE  Kept
  BY <1>12 DEF PersistUnsigned
<1>13. ASSUME NEW r \in Requests, Land(r)
      PROVE  Kept
  BY <1>13 DEF Land
<1>14. ASSUME NEW r \in Requests, SubmitOk(r)
      PROVE  Kept
  BY <1>14 DEF SubmitOk
<1>15. ASSUME NEW r \in Requests, SubmitErr(r)
      PROVE  Kept
  BY <1>15 DEF SubmitErr
<1>16. ASSUME NEW r \in Requests, PersistMined(r)
      PROVE  Kept
  BY <1>16 DEF PersistMined
<1>17. ASSUME NEW r \in Requests, PersistSigned(r)
      PROVE  Kept
  BY <1>17 DEF PersistSigned
<1>18. ASSUME NEW r \in Requests, PersistBroadcasted(r)
      PROVE  Kept
  BY <1>18 DEF PersistBroadcasted
<1>19. ASSUME NEW r \in Requests, MarkSubmitted(r)
      PROVE  Kept
  BY <1>19 DEF MarkSubmitted
<1>20. ASSUME NEW r \in Requests, PersistFailed(r)
      PROVE  Kept
  BY <1>20 DEF PersistFailed
<1>21. ASSUME NEW r \in Requests, Release(r)
      PROVE  Kept
  BY <1>21 DEF Release
<1>22. ASSUME NEW r \in Requests, Crash(r)
      PROVE  Kept
  BY <1>22 DEF Crash
<1>23. ASSUME NEW r \in Requests, Abandon(r)
      PROVE  Kept
  BY <1>23 DEF Abandon
<1>24. ASSUME NEW p \in Profiles, OpenStore(p)
      PROVE  Kept
  BY <1>24 DEF OpenStore
<1>25. CASE Tick \/ UNCHANGED vars
  BY <1>25 DEF Tick, vars
<1> HIDE DEF Kept
<1> QED
  BY <1>1, <1>2, <1>3, <1>4, <1>5, <1>6, <1>7, <1>8, <1>9, <1>10, <1>11, <1>12, <1>13, <1>14, <1>15, <1>16, <1>17, <1>18, <1>19, <1>20, <1>21, <1>22, <1>23, <1>24, <1>25 DEF Next, Advance, Kept

(* Only a profile change forgets, and it forgets whoever was granted. *)
LEMMA ForgottenFrame ==
  ASSUME [Next]_vars
  PROVE  forgotten' = forgotten \/ \E p \in Profiles : OpenStore(p)
  BY DEF Next, Advance, vars, opening, Start, PersistReceived, BeginLock, Poll, PollTimeout,
     Grant, RefuseGap, TryAgain, LockError, PersistBlocked, PersistReplacement,
     PersistUnsigned, Land, SubmitOk, SubmitErr, PersistMined, PersistSigned,
     PersistBroadcasted, MarkSubmitted, PersistFailed, Release, Crash, Abandon, Tick

(* A request that is still remembered after the step was so before, and if *)
(* it had been granted, the step did not change the profile: opening the   *)
(* store left the counters and the locks alone.                            *)
LEMMA Remembered ==
  ASSUME TypeInv, [Next]_vars, NEW q \in Requests \ forgotten'
  PROVE  /\ q \notin forgotten
         /\ LockAcquired(q) =>
              /\ storeProfile' = storeProfile
              /\ \A p \in Profiles :
                   OpenStore(p) => UNCHANGED <<nextExpected, locks, base>>
<1>1. q \notin forgotten
  BY ForgottenFrame DEF OpenStore
<1>2. ASSUME NEW p \in Profiles, OpenStore(p), LockAcquired(q)
      PROVE  UNCHANGED <<storeProfile, nextExpected, locks, base>>
  <2>1. p = storeProfile
    BY <1>2 DEF OpenStore
  <2> QED
    BY <1>2, <2>1 DEF OpenStore, OpenHandle
<1>3. \/ storeProfile' = storeProfile
      \/ \E p \in Profiles : OpenStore(p)
  BY StoreFrame DEF Grant, AcquireAndClassify, MarkSubmittedInOrderNonce
<1> QED
  BY <1>1, <1>2, <1>3

(* While a lease runs, the lock row is the holder's. *)
LeaseInv ==
  \A r \in Requests \ forgotten : Holding(r) =>
    \/ leaseUntil[r] < now
    \/ /\ locks[Sender(r)] # None
       /\ locks[Sender(r)].owner = r
       /\ locks[Sender(r)].expiresAt = leaseUntil[r]

(* The clock never goes back. *)
LEMMA ClockForward ==
  ASSUME TypeInv, [Next]_vars
  PROVE  now' \in Nat /\ now' >= now
  BY DEF TypeInv, TypeOK, Next, Advance, vars, storeVars, control, submission, timing, Start,
     PersistReceived, BeginLock, Poll, PollTimeout, Grant, RefuseGap, TryAgain, LockError,
     PersistBlocked, PersistReplacement, PersistUnsigned, Land, SubmitOk, SubmitErr,
     PersistMined, PersistSigned, PersistBroadcasted, MarkSubmitted, PersistFailed,
     Release, Crash, Abandon, OpenStore, Tick

(* A holder inside its lease keeps its row. *)
LEMMA LeaseInvStep ==
  ASSUME TypeInv, [Next]_vars, LeaseInv
  PROVE  LeaseInv'
<1> DEFINE Owns(q) ==
      /\ locks[Sender(q)] # None
      /\ locks[Sender(q)].owner = q
      /\ locks[Sender(q)].expiresAt = leaseUntil[q]
<1>0. StoreTypeOK /\ now \in Nat /\ leaseUntil \in [Requests -> Nat]
  BY DEF TypeInv, TypeOK
<1> SUFFICES ASSUME NEW q \in Requests \ forgotten', Holding(q)'
             PROVE  leaseUntil'[q] < now' \/ Owns(q)'
  BY DEF LeaseInv
<1>1. CASE Grant(q)
  <2>1. Sender(q) \in Senders
    BY <1>1, StartedHash DEF Grant
  <2>2. locks'[Sender(q)] =
          [owner |-> q, expiresAt |-> pollNow[q] + Lease, updatedAt |-> pollNow[q]]
    BY <1>0, <1>1, <2>1 DEF Grant, AcquireAndClassify, StoreTypeOK, Sender
  <2>3. locks'[Sender(q)] # None
    BY <1>1, <2>1, StoreTypeStep, StoreAssumption, <2>2, NoneAssumption
    DEF TypeInv, TypeOK, SenderLock, Lease
  <2>4. leaseUntil'[q] = pollNow[q] + Lease /\ hash' = hash
    BY <1>0, <1>1 DEF Grant, submission
  <2> QED
    BY <2>2, <2>3, <2>4 DEF Sender
<1>2. CASE /\ Holding(q)
           /\ leaseUntil'[q] = leaseUntil[q]
           /\ hash'[q] = hash[q]
  <2>0. pc[q] \in Critical /\ Sender(q) \in Senders /\ Sender(q)' = Sender(q)
    BY <1>2, StartedHash DEF Holding, Critical, Sender
  <2>1. leaseUntil[q] < now \/ Owns(q)
    BY <1>2, Remembered DEF LeaseInv
  <2>2. CASE leaseUntil[q] < now
    BY <1>0, <1>2, <2>2, ClockForward
  <2>3. CASE Owns(q) /\ locks'[Sender(q)] = locks[Sender(q)]
    BY <1>2, <2>0, <2>3
  <2>4. ASSUME NEW r \in Requests, Grant(r), Owns(q)
        PROVE  leaseUntil[q] < now \/ locks'[Sender(q)] = locks[Sender(q)]
    <3>1. r # q
      BY <2>0, <2>4 DEF Grant, Critical
    <3>2. pollNow[r] \in Nat /\ pollNow[r] <= now
      BY <2>4 DEF Grant, TypeInv, TypeOK, ControlFlow
    <3>3. CASE Sender(r) = Sender(q)
      <4>1. locks[Sender(q)].expiresAt < pollNow[r]
        BY <2>4, <3>1, <3>3 DEF Grant, AcquireAndClassify, CanAcquire, Sender
      <4> QED
        BY <1>0, <2>4, <3>2, <4>1
    <3>4. CASE Sender(r) # Sender(q)
      BY <1>0, <2>0, <2>4, <3>4 DEF Grant, AcquireAndClassify, StoreTypeOK, Sender
    <3> QED
      BY <3>3, <3>4
  <2>5. ASSUME NEW r \in Requests, Release(r), Owns(q)
        PROVE  locks'[Sender(q)] = locks[Sender(q)]
    <3>1. r # q
      BY <2>5 DEF Release, Goto, Holding, Critical, TypeInv, TypeOK
    <3> QED
      BY <1>0, <2>0, <2>5, <3>1 DEF Release, ReleaseSenderLock, StoreTypeOK, storeVars
  <2>6. ASSUME NEW r \in Requests, MarkSubmittedInOrderNonce(Sender(r), Nonce(r))
        PROVE  locks'[Sender(q)] = locks[Sender(q)]
    BY <2>6 DEF MarkSubmittedInOrderNonce
  <2>7. ASSUME NEW p \in Profiles, OpenStore(p)
        PROVE  locks'[Sender(q)] = locks[Sender(q)]
    BY <1>2, <2>7, Remembered DEF Holding
  <2> QED
    BY <2>1, <2>2, <2>3, <2>4, <2>5, <2>6, <2>7, StoreFrame
<1> QED
  BY <1>1, <1>2, HoldingFrame

(* Two requests of one sender, granted since the last profile change, are  *)
(* never both inside their leases, with any faults: the lock excludes for  *)
(* as long as it says.                                                     *)
THEOREM SpecLeaseExclusion == Spec => []LeaseExclusion
<1>1. Init => LeaseInv
  BY DEF Init, LeaseInv, Holding, LockAcquired
<1>2. TypeInv /\ [Next]_vars /\ LeaseInv => LeaseInv'
  BY LeaseInvStep
<1>3. LeaseInv => LeaseExclusion
  BY DEF LeaseInv, LeaseExclusion
<1> QED
  BY <1>1, <1>2, <1>3, TypeCorrect, PTL DEF Spec

(* The two time columns of a lock row. *)
LockRowInv ==
  \A s \in Senders : locks[s] # None => locks[s].expiresAt = locks[s].updatedAt + Lease

(* Every row keeps the distance from grant to expiry. *)
LEMMA LockRowInvStep ==
  ASSUME TypeInv, [Next]_vars, LockRowInv
  PROVE  LockRowInv'
<1>0. StoreTypeOK
  BY DEF TypeInv, TypeOK
<1>1. ASSUME NEW r \in Requests, Grant(r)
      PROVE  LockRowInv'
  BY <1>0, <1>1 DEF Grant, AcquireAndClassify, StoreTypeOK, LockRowInv
<1>2. ASSUME NEW r \in Requests, Release(r)
      PROVE  LockRowInv'
  BY <1>0, <1>2 DEF Release, ReleaseSenderLock, StoreTypeOK, storeVars, LockRowInv
<1>3. ASSUME NEW p \in Profiles, OpenStore(p)
      PROVE  LockRowInv'
  BY <1>0, <1>3 DEF OpenStore, OpenHandle, LockRowInv
<1> QED
  BY <1>1, <1>2, <1>3, StoreFrame DEF LockRowInv, MarkSubmittedInOrderNonce

(* Only a request that began more than LockTimeout after the grant takes   *)
(* over an expired lease.                                                  *)
THEOREM SpecNoEarlyTakeover == Spec => NoEarlyTakeover
<1>1. Init => LockRowInv
  BY DEF Init, StoreInit, LockRowInv
<1>2. TypeInv /\ [Next]_vars /\ LockRowInv => LockRowInv'
  BY LockRowInvStep
<1>3. TypeInv /\ LockRowInv /\ [Next]_vars =>
        \A s \in Senders :
          locks[s] # None /\ locks'[s] # None /\ locks'[s].owner # locks[s].owner =>
            deadline[locks'[s].owner] - LockTimeout > locks[s].updatedAt + LockTimeout
  <2> SUFFICES ASSUME TypeInv, LockRowInv, [Next]_vars, NEW s \in Senders,
                      locks[s] # None, locks'[s] # None, locks'[s].owner # locks[s].owner
               PROVE  deadline[locks'[s].owner] - LockTimeout
                        > locks[s].updatedAt + LockTimeout
    OBVIOUS
  <2>0. StoreTypeOK
    BY DEF TypeInv, TypeOK
  <2>1. ASSUME NEW r \in Requests, Grant(r)
        PROVE  deadline[locks'[s].owner] - LockTimeout > locks[s].updatedAt + LockTimeout
    <3>1. pollNow[r] \in Nat /\ deadline[r] \in Nat /\ pollNow[r] < deadline[r]
      BY <2>1 DEF Grant, TypeInv, TypeOK, ControlFlow
    <3>2. s = SenderOf[hash[r]] /\ locks'[s].owner = r
      BY <2>0, <2>1 DEF Grant, AcquireAndClassify, StoreTypeOK
    <3>3. locks[s].expiresAt < pollNow[r]
      BY <2>1, <3>2 DEF Grant, AcquireAndClassify, CanAcquire
    <3>4. locks[s].updatedAt \in Nat
      BY <2>0 DEF StoreTypeOK, SenderLock
    <3>5. locks[s].expiresAt = locks[s].updatedAt + 2 * LockTimeout
      BY DEF LockRowInv, Lease
    <3> QED
      BY <3>1, <3>2, <3>3, <3>4, <3>5, StoreAssumption
  <2>2. ASSUME NEW r \in Requests, Release(r)
        PROVE  FALSE
    BY <2>0, <2>2 DEF Release, ReleaseSenderLock, StoreTypeOK, storeVars
  <2>3. ASSUME NEW p \in Profiles, OpenStore(p)
        PROVE  FALSE
    BY <2>3 DEF OpenStore, OpenHandle
  <2> QED
    BY <2>1, <2>2, <2>3, StoreFrame DEF MarkSubmittedInOrderNonce
<1> QED
  BY <1>1, <1>2, <1>3, TypeCorrect, PTL DEF Spec, NoEarlyTakeover

-----------------------------------------------------------------------------
(* The order of the broadcasts. *)

(* Who is classified after a step was so before, or is granted by it. *)
LEMMA OrderingFrame ==
  ASSUME TypeInv, [Next]_vars, NEW q \in Requests, LockAcquired(q)'
  PROVE  Grant(q) \/ (LockAcquired(q) /\ ordering'[q] = ordering[q] /\ hash'[q] = hash[q])
<1> DEFINE Kept == LockAcquired(q) /\ ordering'[q] = ordering[q] /\ hash'[q] = hash[q]
<1> USE DEF TypeInv, TypeOK, ControlFlow, Goto, BeforeLock, PollLoop, LockAcquired,
      control, submission
<1>1. ASSUME NEW r \in Requests, NEW h \in Hashes, NEW p \in Handles, Start(r, h, p)
      PROVE  Kept
  BY <1>1 DEF Start
<1>2. ASSUME NEW r \in Requests, PersistReceived(r)
      PROVE  Kept
  BY <1>2 DEF PersistReceived
<1>3. ASSUME NEW r \in Requests, BeginLock(r)
      PROVE  Kept
  BY <1>3 DEF BeginLock
<1>4. ASSUME NEW r \in Requests, Poll(r)
      PROVE  Kept
  BY <1>4 DEF Poll
<1>5. ASSUME NEW r \in Requests, PollTimeout(r)
      PROVE  Kept
  BY <1>5 DEF PollTimeout
<1>6. ASSUME NEW r \in Requests, Grant(r), r # q
      PROVE  Kept
  BY <1>6 DEF Grant
<1>7. ASSUME NEW r \in Requests, RefuseGap(r)
      PROVE  Kept
  BY <1>7 DEF RefuseGap
<1>8. ASSUME NEW r \in Requests, TryAgain(r)
      PROVE  Kept
  BY <1>8 DEF TryAgain
<1>9. ASSUME NEW r \in Requests, LockError(r)
      PROVE  Kept
  BY <1>9 DEF LockError
<1>10. ASSUME NEW r \in Requests, PersistBlocked(r)
      PROVE  Kept
  BY <1>10 DEF PersistBlocked
<1>11. ASSUME NEW r \in Requests, PersistReplacement(r)
      PROVE  Kept
  BY <1>11 DEF PersistReplacement
<1>12. ASSUME NEW r \in Requests, PersistUnsigned(r)
      PROVE  Kept
  BY <1>12 DEF PersistUnsigned
<1>13. ASSUME NEW r \in Requests, Land(r)
      PROVE  Kept
  BY <1>13 DEF Land
<1>14. ASSUME NEW r \in Requests, SubmitOk(r)
      PROVE  Kept
  BY <1>14 DEF SubmitOk
<1>15. ASSUME NEW r \in Requests, SubmitErr(r)
      PROVE  Kept
  BY <1>15 DEF SubmitErr
<1>16. ASSUME NEW r \in Requests, PersistMined(r)
      PROVE  Kept
  BY <1>16 DEF PersistMined
<1>17. ASSUME NEW r \in Requests, PersistSigned(r)
      PROVE  Kept
  BY <1>17 DEF PersistSigned
<1>18. ASSUME NEW r \in Requests, PersistBroadcasted(r)
      PROVE  Kept
  BY <1>18 DEF PersistBroadcasted
<1>19. ASSUME NEW r \in Requests, MarkSubmitted(r)
      PROVE  Kept
  BY <1>19 DEF MarkSubmitted
<1>20. ASSUME NEW r \in Requests, PersistFailed(r)
      PROVE  Kept
  BY <1>20 DEF PersistFailed
<1>21. ASSUME NEW r \in Requests, Release(r)
      PROVE  Kept
  BY <1>21 DEF Release
<1>22. ASSUME NEW r \in Requests, Crash(r)
      PROVE  Kept
  BY <1>22 DEF Crash
<1>23. ASSUME NEW r \in Requests, Abandon(r)
      PROVE  Kept
  BY <1>23 DEF Abandon
<1>24. ASSUME NEW p \in Profiles, OpenStore(p)
      PROVE  Kept
  BY <1>24 DEF OpenStore
<1>25. CASE Tick \/ UNCHANGED vars
  BY <1>25 DEF Tick, vars
<1> HIDE DEF Kept
<1> QED
  BY <1>1, <1>2, <1>3, <1>4, <1>5, <1>6, <1>7, <1>8, <1>9, <1>10, <1>11, <1>12, <1>13, <1>14, <1>15, <1>16, <1>17, <1>18, <1>19, <1>20, <1>21, <1>22, <1>23, <1>24, <1>25 DEF Next, Advance, Kept

(* What the classification of a request saw of the counter stays true.     *)
OrderInv ==
  \A r \in Requests \ forgotten : LockAcquired(r) =>
    /\ base[Sender(r)] # None
    /\ \A n \in base[Sender(r)]..(Nonce(r) - 1) : LandedNonce(Sender(r), n)

(* What a classification saw stays true. *)
LEMMA OrderInvStep ==
  ASSUME TypeInv, [Next]_vars, NonceInv, OrderInv
  PROVE  OrderInv'
<1>0. StoreTypeOK /\ StoreTypeOK'
  BY StoreTypeStep DEF TypeInv, TypeOK
<1> SUFFICES ASSUME NEW q \in Requests \ forgotten', LockAcquired(q)'
             PROVE  /\ base'[Sender(q)'] # None
                    /\ \A n \in base'[Sender(q)']..(Nonce(q)' - 1) :
                         LandedNonce(Sender(q), n)'
  BY DEF OrderInv
<1>1. CASE Grant(q)
  <2>1. /\ hash' = hash /\ hash[q] \in Hashes
        /\ Sender(q) \in Senders /\ Nonce(q) \in 0..MaxNonce
    BY <1>1, StartedHash DEF Grant, submission
  <2>2. Sender(q)' = Sender(q) /\ Nonce(q)' = Nonce(q)
    BY <2>1 DEF Sender, Nonce
  <2>3. ~NonceGap(hash[q]) /\ nextExpected'[Sender(q)] = ExpectedNonce(hash[q])
    BY <1>0, <1>1, <2>1 DEF Grant, AcquireAndClassify, StoreTypeOK, Sender
  <2>4. ExpectedNonce(hash[q]) \in 0..MaxNonce
    BY <1>0, <2>1 DEF ExpectedNonce, StoreTypeOK, Sender, Nonce
  <2>5. Nonce(q) <= nextExpected'[Sender(q)] /\ nextExpected'[Sender(q)] # None
    BY <2>1, <2>3, <2>4, NoneAssumption DEF NonceGap, Nonce
  <2>6. base'[Sender(q)] # None
        /\ \A n \in base'[Sender(q)]..(nextExpected'[Sender(q)] - 1) :
             LandedNonce(Sender(q), n)'
    BY <2>1, <2>2, <2>5, NonceInvStep DEF NonceInv, NoSkippedNonce, LandedNonce
  <2>7. base'[Sender(q)] \in 0..MaxNonce
    BY <1>0, <2>1, <2>6 DEF StoreTypeOK
  <2>8. \A n \in base'[Sender(q)]..(Nonce(q) - 1) :
          n \in base'[Sender(q)]..(nextExpected'[Sender(q)] - 1)
    BY <2>1, <2>3, <2>4, <2>5, <2>7
  <2> QED
    BY <2>2, <2>6, <2>8
<1>2. CASE LockAcquired(q) /\ hash'[q] = hash[q]
  <2>1. Sender(q)' = Sender(q) /\ Nonce(q)' = Nonce(q) /\ Sender(q) \in Senders
    BY <1>2, StartedHash DEF Sender, Nonce, LockAcquired, TypeInv, ControlFlow
  <2>2. base[Sender(q)] # None /\ base'[Sender(q)] = base[Sender(q)]
    <3>1. base[Sender(q)] # None /\ nextExpected[Sender(q)] # None
      BY <1>2, <2>1, Remembered DEF OrderInv, NonceInv
    <3>2. ASSUME NEW r \in Requests, Grant(r)
          PROVE  base'[Sender(q)] = base[Sender(q)]
      BY <1>0, <2>1, <3>1, <3>2 DEF Grant, AcquireAndClassify, StoreTypeOK
    <3>3. ASSUME NEW r \in Requests, MarkSubmittedInOrderNonce(Sender(r), Nonce(r))
          PROVE  base'[Sender(q)] = base[Sender(q)]
      BY <1>0, <2>1, <3>1, <3>3 DEF MarkSubmittedInOrderNonce, StoreTypeOK
    <3>4. ASSUME NEW p \in Profiles, OpenStore(p)
          PROVE  base'[Sender(q)] = base[Sender(q)]
      BY <1>2, <3>4, Remembered
    <3> QED
      BY <3>1, <3>2, <3>3, <3>4, StoreFrame
  <2>3. \A n \in base[Sender(q)]..(Nonce(q) - 1) : LandedNonce(Sender(q), n)
    BY <1>2, Remembered DEF OrderInv
  <2> QED
    BY <2>1, <2>2, <2>3, LandedStable
<1> QED
  BY <1>1, <1>2, OrderingFrame

(* A request classified since the last profile change reaches L1 after all *)
(* the lower nonces of its sender, however late it is and whatever fails.  *)
THEOREM SpecBroadcastInOrder == Spec => []BroadcastInOrder
<1>1. Init => NonceInv /\ OrderInv
  BY DEF Init, StoreInit, NonceInv, NoSkippedNonce, OrderInv, LockAcquired
<1>2. TypeInv /\ [Next]_vars /\ NonceInv /\ OrderInv => NonceInv' /\ OrderInv'
  BY NonceInvStep, OrderInvStep
<1>3. OrderInv => BroadcastInOrder
  BY DEF OrderInv, BroadcastInOrder
<1> QED
  BY <1>1, <1>2, <1>3, TypeCorrect, PTL DEF Spec

-----------------------------------------------------------------------------
(* The answer of an in-order request and the counter. *)

Answering(r) ==
  pc[r] \in {"release", "done"} /\ outcome[r] = "ok" /\ ordering[r] = "inOrder"

AnswerInv ==
  \A r \in Requests \ forgotten :
    /\ ordering[r] = "inOrder" =>
         nextExpected[Sender(r)] # None /\ nextExpected[Sender(r)] >= Nonce(r)
    /\ Answering(r) /\ Nonce(r) < MaxNonce =>
         nextExpected[Sender(r)] > Nonce(r)

(* Who is past the mark after a step was so before, or has just marked. *)
LEMMA AnsweringFrame ==
  ASSUME TypeInv, [Next]_vars, NEW q \in Requests, Answering(q)'
  PROVE  MarkSubmitted(q) \/ Answering(q)
<1> DEFINE Kept == Answering(q)
<1> USE DEF TypeInv, TypeOK, ControlFlow, Goto, BeforeLock, PollLoop, LockAcquired, Failing,
      Answering, AfterLock, control, submission
<1>1. ASSUME NEW r \in Requests, NEW h \in Hashes, NEW p \in Handles, Start(r, h, p)
      PROVE  Kept
  BY <1>1 DEF Start
<1>2. ASSUME NEW r \in Requests, PersistReceived(r)
      PROVE  Kept
  BY <1>2 DEF PersistReceived
<1>3. ASSUME NEW r \in Requests, BeginLock(r)
      PROVE  Kept
  BY <1>3 DEF BeginLock
<1>4. ASSUME NEW r \in Requests, Poll(r)
      PROVE  Kept
  BY <1>4 DEF Poll
<1>5. ASSUME NEW r \in Requests, PollTimeout(r)
      PROVE  Kept
  BY <1>5 DEF PollTimeout
<1>6. ASSUME NEW r \in Requests, Grant(r)
      PROVE  Kept
  BY <1>6 DEF Grant
<1>7. ASSUME NEW r \in Requests, RefuseGap(r)
      PROVE  Kept
  BY <1>7 DEF RefuseGap
<1>8. ASSUME NEW r \in Requests, TryAgain(r)
      PROVE  Kept
  BY <1>8 DEF TryAgain
<1>9. ASSUME NEW r \in Requests, LockError(r)
      PROVE  Kept
  BY <1>9 DEF LockError
<1>10. ASSUME NEW r \in Requests, PersistBlocked(r)
      PROVE  Kept
  BY <1>10 DEF PersistBlocked
<1>11. ASSUME NEW r \in Requests, PersistReplacement(r)
      PROVE  Kept
  BY <1>11 DEF PersistReplacement
<1>12. ASSUME NEW r \in Requests, PersistUnsigned(r)
      PROVE  Kept
  BY <1>12 DEF PersistUnsigned
<1>13. ASSUME NEW r \in Requests, Land(r)
      PROVE  Kept
  BY <1>13 DEF Land
<1>14. ASSUME NEW r \in Requests, SubmitOk(r)
      PROVE  Kept
  BY <1>14 DEF SubmitOk
<1>15. ASSUME NEW r \in Requests, SubmitErr(r)
      PROVE  Kept
  BY <1>15 DEF SubmitErr
<1>16. ASSUME NEW r \in Requests, PersistMined(r)
      PROVE  Kept
  BY <1>16 DEF PersistMined
<1>17. ASSUME NEW r \in Requests, PersistSigned(r)
      PROVE  Kept
  BY <1>17 DEF PersistSigned
<1>18. ASSUME NEW r \in Requests, PersistBroadcasted(r)
      PROVE  Kept
  BY <1>18 DEF PersistBroadcasted
<1>19. ASSUME NEW r \in Requests, MarkSubmitted(r), r # q
      PROVE  Kept
  BY <1>19 DEF MarkSubmitted
<1>20. ASSUME NEW r \in Requests, PersistFailed(r)
      PROVE  Kept
  BY <1>20 DEF PersistFailed
<1>21. ASSUME NEW r \in Requests, Release(r)
      PROVE  Kept
  BY <1>21 DEF Release
<1>22. ASSUME NEW r \in Requests, Crash(r)
      PROVE  Kept
  BY <1>22 DEF Crash
<1>23. ASSUME NEW r \in Requests, Abandon(r)
      PROVE  Kept
  BY <1>23 DEF Abandon
<1>24. ASSUME NEW p \in Profiles, OpenStore(p)
      PROVE  Kept
  BY <1>24 DEF OpenStore
<1>25. CASE Tick \/ UNCHANGED vars
  BY <1>25 DEF Tick, vars
<1> HIDE DEF Kept
<1> QED
  BY <1>1, <1>2, <1>3, <1>4, <1>5, <1>6, <1>7, <1>8, <1>9, <1>10, <1>11, <1>12, <1>13, <1>14, <1>15, <1>16, <1>17, <1>18, <1>19, <1>20, <1>21, <1>22, <1>23, <1>24, <1>25 DEF Next, Advance, Kept

(* The counter stays at or past the nonce of a granted request. *)
LEMMA AnswerInvStep ==
  ASSUME "mark" \notin Faults, TypeInv, [Next]_vars, AnswerInv
  PROVE  AnswerInv'
<1>0. StoreTypeOK /\ StoreTypeOK'
  BY StoreTypeStep DEF TypeInv, TypeOK
<1> SUFFICES ASSUME NEW q \in Requests \ forgotten', (ordering[q] = "inOrder")'
             PROVE  /\ nextExpected'[Sender(q)'] # None
                    /\ nextExpected'[Sender(q)'] >= Nonce(q)'
                    /\ Answering(q)' /\ Nonce(q)' < MaxNonce =>
                         nextExpected'[Sender(q)'] > Nonce(q)'
  BY DEF AnswerInv, Answering
<1>1. CASE Grant(q)
  <2>1. /\ hash' = hash /\ hash[q] \in Hashes
        /\ Sender(q) \in Senders /\ Nonce(q) \in 0..MaxNonce
    BY <1>1, StartedHash DEF Grant, submission
  <2>2. Sender(q)' = Sender(q) /\ Nonce(q)' = Nonce(q)
    BY <2>1 DEF Sender, Nonce
  <2>3. nextExpected'[Sender(q)] = ExpectedNonce(hash[q])
    BY <1>0, <1>1, <2>1 DEF Grant, AcquireAndClassify, StoreTypeOK, Sender
  <2>4. ExpectedNonce(hash[q]) \in 0..MaxNonce /\ ~NonceGap(hash[q])
    BY <1>0, <1>1, <2>1 DEF ExpectedNonce, StoreTypeOK, Sender, Nonce, Grant,
       AcquireAndClassify
  <2>5. nextExpected'[Sender(q)] >= Nonce(q) /\ nextExpected'[Sender(q)] # None
    BY <2>1, <2>3, <2>4, NoneAssumption DEF NonceGap, Nonce
  <2>6. ~Answering(q)'
    BY <1>1 DEF Grant, AfterLock, Answering, TypeInv, TypeOK
  <2> QED
    BY <2>2, <2>5, <2>6
<1>2. CASE ordering[q] = "inOrder" /\ hash'[q] = hash[q]
  <2>1. /\ Sender(q)' = Sender(q) /\ Nonce(q)' = Nonce(q)
        /\ Sender(q) \in Senders /\ Nonce(q) \in 0..MaxNonce
    BY <1>2, StartedHash DEF Sender, Nonce, TypeInv, ControlFlow
  <2>2. nextExpected[Sender(q)] \in 0..MaxNonce /\ nextExpected[Sender(q)] >= Nonce(q)
    BY <1>0, <1>2, <2>1, Remembered DEF AnswerInv, StoreTypeOK
  <2>3. nextExpected'[Sender(q)] \in 0..MaxNonce
        /\ nextExpected'[Sender(q)] >= nextExpected[Sender(q)]
    <3>1. nextExpected[Sender(q)] # None
      BY <2>2, NoneAssumption
    <3>2. storeProfile' = storeProfile
      BY <1>2, Remembered DEF LockAcquired
    <3> QED
      BY <1>0, <2>1, <2>2, <3>1, <3>2, CounterForward DEF StoreTypeOK
  <2>4. CASE Answering(q)
    BY <1>2, <2>1, <2>2, <2>3, <2>4, Remembered, NoneAssumption, StoreAssumption
    DEF AnswerInv
  <2>5. CASE MarkSubmitted(q)
    <3>1. CASE Nonce(q) < MaxNonce
      <4>1. MarkSubmittedInOrderNonce(Sender(q), Nonce(q))
        BY <2>1, <2>5, <3>1, StoreAssumption DEF MarkSubmitted, NonceOverflow
      <4>2. nextExpected'[Sender(q)] > Nonce(q)
        BY <1>0, <2>1, <2>2, <2>3, <4>1, NoneAssumption DEF MarkSubmittedInOrderNonce, StoreTypeOK
      <4> QED
        BY <2>1, <2>2, <2>3, <4>2, NoneAssumption
    <3>2. CASE ~(Nonce(q) < MaxNonce)
      BY <2>1, <2>2, <2>3, <3>2, NoneAssumption
    <3> QED
      BY <3>1, <3>2
  <2>6. CASE ~Answering(q)'
    BY <2>1, <2>2, <2>3, <2>6, NoneAssumption
  <2> QED
    BY <2>4, <2>5, <2>6, AnsweringFrame
<1> QED
  BY <1>1, <1>2, OrderingFrame DEF LockAcquired

(* With working counter updates, an in-order request that was answered Ok  *)
(* has moved the counter past its nonce, unless a profile change came in   *)
(* between its grant and now.                                              *)
THEOREM SpecAnsweredAdvances ==
  ASSUME "mark" \notin Faults
  PROVE  Spec => []AnsweredAdvances
<1>1. Init => AnswerInv
  BY DEF Init, AnswerInv, Answering
<1>2. TypeInv /\ [Next]_vars /\ AnswerInv => AnswerInv'
  BY AnswerInvStep
<1>3. AnswerInv => AnsweredAdvances
  BY DEF AnswerInv, Answering, AnsweredAdvances
<1> QED
  BY <1>1, <1>2, <1>3, TypeCorrect, PTL DEF Spec

-----------------------------------------------------------------------------
(* Lock rows without faults. *)

NotOrphanedInv == NoOrphanLock /\ orphaned = {}

(* Without faults a holder keeps the lock until its release. *)
LEMMA HolderStays ==
  ASSUME {"release", "crash"} \cap Faults = {}, TypeInv, orphaned = {}, [Next]_vars, NEW q \in Requests, Holding(q)
  PROVE  Release(q) \/ (Holding(q)' /\ hash'[q] = hash[q])
<1> DEFINE Kept == Holding(q)' /\ hash'[q] = hash[q]
<1> USE DEF TypeInv, TypeOK, ControlFlow, Goto, BeforeLock, PollLoop, Ended, Critical,
      Holding, LockAcquired, AfterLock, control, submission
<1>1. ASSUME NEW r \in Requests, NEW h \in Hashes, NEW p \in Handles, Start(r, h, p)
      PROVE  Kept
  BY <1>1 DEF Start
<1>2. ASSUME NEW r \in Requests, PersistReceived(r)
      PROVE  Kept
  BY <1>2 DEF PersistReceived
<1>3. ASSUME NEW r \in Requests, BeginLock(r)
      PROVE  Kept
  BY <1>3 DEF BeginLock
<1>4. ASSUME NEW r \in Requests, Poll(r)
      PROVE  Kept
  BY <1>4 DEF Poll
<1>5. ASSUME NEW r \in Requests, PollTimeout(r)
      PROVE  Kept
  BY <1>5 DEF PollTimeout
<1>6. ASSUME NEW r \in Requests, Grant(r)
      PROVE  Kept
  BY <1>6 DEF Grant
<1>7. ASSUME NEW r \in Requests, RefuseGap(r)
      PROVE  Kept
  BY <1>7 DEF RefuseGap
<1>8. ASSUME NEW r \in Requests, TryAgain(r)
      PROVE  Kept
  BY <1>8 DEF TryAgain
<1>9. ASSUME NEW r \in Requests, LockError(r)
      PROVE  Kept
  BY <1>9 DEF LockError
<1>10. ASSUME NEW r \in Requests, PersistBlocked(r)
      PROVE  Kept
  BY <1>10 DEF PersistBlocked
<1>11. ASSUME NEW r \in Requests, PersistReplacement(r)
      PROVE  Kept
  BY <1>11 DEF PersistReplacement
<1>12. ASSUME NEW r \in Requests, PersistUnsigned(r)
      PROVE  Kept
  BY <1>12 DEF PersistUnsigned
<1>13. ASSUME NEW r \in Requests, Land(r)
      PROVE  Kept
  BY <1>13 DEF Land
<1>14. ASSUME NEW r \in Requests, SubmitOk(r)
      PROVE  Kept
  BY <1>14 DEF SubmitOk
<1>15. ASSUME NEW r \in Requests, SubmitErr(r)
      PROVE  Kept
  BY <1>15 DEF SubmitErr
<1>16. ASSUME NEW r \in Requests, PersistMined(r)
      PROVE  Kept
  BY <1>16 DEF PersistMined
<1>17. ASSUME NEW r \in Requests, PersistSigned(r)
      PROVE  Kept
  BY <1>17 DEF PersistSigned
<1>18. ASSUME NEW r \in Requests, PersistBroadcasted(r)
      PROVE  Kept
  BY <1>18 DEF PersistBroadcasted
<1>19. ASSUME NEW r \in Requests, MarkSubmitted(r)
      PROVE  Kept
  BY <1>19 DEF MarkSubmitted
<1>20. ASSUME NEW r \in Requests, PersistFailed(r)
      PROVE  Kept
  BY <1>20 DEF PersistFailed
<1>21. ASSUME NEW r \in Requests, Release(r), r # q
      PROVE  Kept
  BY <1>21 DEF Release
<1>22. ASSUME NEW r \in Requests, Crash(r)
      PROVE  Kept
  BY <1>22 DEF Crash
<1>23. ASSUME NEW r \in Requests, Abandon(r)
      PROVE  Kept
  BY <1>23 DEF Abandon
<1>24. ASSUME NEW p \in Profiles, OpenStore(p)
      PROVE  Kept
  BY <1>24 DEF OpenStore
<1>25. CASE Tick \/ UNCHANGED vars
  BY <1>25 DEF Tick, vars
<1> HIDE DEF Kept
<1> QED
  BY <1>1, <1>2, <1>3, <1>4, <1>5, <1>6, <1>7, <1>8, <1>9, <1>10, <1>11, <1>12, <1>13, <1>14, <1>15, <1>16, <1>17, <1>18, <1>19, <1>20, <1>21, <1>22, <1>23, <1>24, <1>25 DEF Next, Advance, Kept

(* Without faults a row keeps an owner that is going to release it. *)
LEMMA NoOrphanStep ==
  ASSUME {"release", "crash"} \cap Faults = {}, TypeInv, [Next]_vars, NotOrphanedInv
  PROVE  NotOrphanedInv'
<1>0. StoreTypeOK /\ StoreTypeOK' /\ orphaned = {}
  BY StoreTypeStep DEF TypeInv, TypeOK, NotOrphanedInv
<1>1. orphaned' = {}
  BY <1>0 DEF Next, Advance, vars, storeVars, control, submission, timing, Start,
     PersistReceived, BeginLock, Poll, PollTimeout, Grant, RefuseGap, TryAgain, LockError,
     PersistBlocked, PersistReplacement, PersistUnsigned, Land, SubmitOk, SubmitErr,
     PersistMined, PersistSigned, PersistBroadcasted, MarkSubmitted, PersistFailed,
     Release, Crash, Abandon, OpenStore, Tick
<1>2. ASSUME NEW s \in Senders, locks'[s] # None
      PROVE  Holding(locks[s].owner)' /\ Sender(locks[s].owner)' = s
  <2>1. ASSUME locks'[s] = locks[s],
               \A r \in Requests : Release(r) => s # Sender(r) \/ locks[s].owner # r
        PROVE  Holding(locks[s].owner)' /\ Sender(locks[s].owner)' = s
    <3> DEFINE q == locks[s].owner
    <3>1. q \in Requests /\ Holding(q) /\ Sender(q) = s
      BY <1>0, <1>2, <2>1 DEF NotOrphanedInv, NoOrphanLock, StoreTypeOK, SenderLock
    <3>2. Holding(q)' /\ hash'[q] = hash[q]
      BY <1>0, <2>1, <3>1, HolderStays
    <3> QED
      BY <2>1, <3>1, <3>2 DEF Sender
  <2>2. ASSUME NEW r \in Requests, Grant(r)
        PROVE  Holding(locks[s].owner)' /\ Sender(locks[s].owner)' = s
    <3>1. hash[r] \in Hashes /\ Sender(r) \in Senders /\ pc[r] = "tryLock" /\ hash' = hash
      BY <2>2, StartedHash DEF Grant, submission
    <3>2. CASE s = Sender(r)
      <4>1. locks'[s].owner = r
        BY <1>0, <2>2, <3>1, <3>2 DEF Grant, AcquireAndClassify, StoreTypeOK, Sender
      <4>2. Holding(r)'
        BY <1>0, <2>2, <3>1
        DEF Grant, Holding, LockAcquired, AfterLock, Critical, ClassifyNonce, TypeInv, TypeOK
      <4> QED
        BY <3>1, <3>2, <4>1, <4>2 DEF Sender
    <3>3. CASE s # Sender(r)
      <4>1. locks'[s] = locks[s]
        BY <1>0, <2>2, <3>1, <3>3 DEF Grant, AcquireAndClassify, StoreTypeOK, Sender
      <4>2. \A q \in Requests : ~Release(q)
        BY <2>2, <3>1 DEF Grant, Release, Goto, AfterLock, TypeInv, TypeOK
      <4> QED
        BY <2>1, <4>1, <4>2
    <3> QED
      BY <3>2, <3>3
  <2>3. ASSUME NEW r \in Requests, Release(r)
        PROVE  Holding(locks[s].owner)' /\ Sender(locks[s].owner)' = s
    <3>1. Sender(r) \in Senders /\ ReleaseSenderLock(Sender(r), r)
      BY <2>3, StartedHash DEF Release, Goto
    <3>2. locks'[s] = locks[s] /\ (s = Sender(r) => locks[s].owner # r)
      BY <1>0, <1>2, <3>1 DEF ReleaseSenderLock, StoreTypeOK
    <3>3. \A q \in Requests : Release(q) => q = r
      BY <2>3 DEF Release, Goto, TypeInv, TypeOK
    <3> QED
      BY <2>1, <3>2, <3>3
  <2>4. CASE ~(\E r \in Requests : Release(r)) /\ locks' = locks
    BY <2>1, <2>4
  <2>5. ASSUME NEW p \in Profiles, OpenStore(p), ~(\E r \in Requests : Release(r))
        PROVE  Holding(locks[s].owner)' /\ Sender(locks[s].owner)' = s
    <3>1. locks' = locks
      BY <1>0, <1>2, <2>5 DEF OpenStore, OpenHandle
    <3> QED
      BY <2>4, <2>5, <3>1
  <2> QED
    BY <2>2, <2>3, <2>4, <2>5, StoreFrame DEF MarkSubmittedInOrderNonce
<1> QED
  BY <1>1, <1>2 DEF NotOrphanedInv, NoOrphanLock

(* Unless a release fails or a request is cut short, every lock row        *)
(* belongs to a request on its way to the release, for any number of       *)
(* profiles, under every other fault and whatever the node answers.        *)
THEOREM SpecNoOrphanLock ==
  ASSUME {"release", "crash"} \cap Faults = {}
  PROVE  Spec => []NoOrphanLock
<1>1. Init => NotOrphanedInv
  BY DEF Init, StoreInit, NotOrphanedInv, NoOrphanLock
<1>2. TypeInv /\ [Next]_vars /\ NotOrphanedInv => NotOrphanedInv'
  BY NoOrphanStep
<1>3. NotOrphanedInv => NoOrphanLock
  BY DEF NotOrphanedInv
<1> QED
  BY <1>1, <1>2, <1>3, TypeCorrect, PTL DEF Spec

-----------------------------------------------------------------------------
(* Refinement of the nonce ledger. *)

Accepted(s) == {n \in 0..MaxNonce : LandedNonce(s, n)}

(* The accepted nonces depend on hashes and acceptances alone. *)
LEMMA AcceptedFrame ==
  ASSUME TypeInv, [Next]_vars, UNCHANGED <<hash, sent>>, NEW s
  PROVE  Accepted(s)' = Accepted(s)
  BY DEF Accepted, LandedNonce, Sender, Nonce

(* Starting a request accepts nothing. *)
LEMMA AcceptedStart ==
  ASSUME TypeInv, NEW r \in Requests, NEW h \in Hashes, NEW p \in Handles, Start(r, h, p),
         NEW s
  PROVE  Accepted(s)' = Accepted(s)
<1>1. sent[r] = {} /\ sent' = sent
  BY DEF Start, Goto, TypeInv, ControlFlow
<1>2. \A q \in Requests : q # r => hash'[q] = hash[q]
  BY DEF Start, TypeInv, TypeOK
<1> QED
  BY <1>1, <1>2 DEF Accepted, LandedNonce, Sender, Nonce

(* An acceptance adds the nonce of the request, for its sender only. *)
LEMMA AcceptedLand ==
  ASSUME TypeInv, NEW r \in Requests, Land(r), NEW s
  PROVE  Accepted(s)' = IF s = Sender(r) THEN Accepted(s) \cup {Nonce(r)} ELSE Accepted(s)
<1>1. hash' = hash /\ sent'[r] # {} /\ \A q \in Requests : q # r => sent'[q] = sent[q]
  BY DEF Land, TypeInv, TypeOK
<1>2. Nonce(r) \in 0..MaxNonce
  BY StartedHash, LandStarted
<1>3. \A n \in 0..MaxNonce : LandedNonce(s, n)' <=>
        LandedNonce(s, n) \/ (s = Sender(r) /\ n = Nonce(r))
  BY <1>1 DEF LandedNonce, Sender, Nonce
<1> QED
  BY <1>2, <1>3 DEF Accepted

(* Every step is one of the ledger or leaves it alone. *)
LEMMA LedgerStep ==
  ASSUME TypeInv, [Next]_vars
  PROVE  [Ledger!Next]_(Ledger!ledgerVars)
<1> DEFINE ledger == [s \in Senders |-> Accepted(s)]
<1>0. StoreTypeOK
  BY DEF TypeInv, TypeOK
<1>1. ASSUME NEW r \in Requests, Land(r), UNCHANGED storeVars
      PROVE  Ledger!Next
  <2>1. Sender(r) \in Senders /\ Nonce(r) \in 0..MaxNonce
    BY <1>1, StartedHash, LandStarted
  <2>2. ledger' = [ledger EXCEPT ![Sender(r)] = @ \cup {Nonce(r)}]
    BY <1>1, AcceptedLand
  <2>3. Ledger!Accept(Sender(r), Nonce(r))
    BY <1>1, <2>2 DEF Ledger!Accept, storeVars, Accepted
  <2> QED
    BY <2>1, <2>3 DEF Ledger!Next, Ledger!Nonces
<1>2. CASE ledger' = ledger
  <2>1. CASE UNCHANGED <<nextExpected, base>>
    BY <1>2, <2>1 DEF Ledger!ledgerVars, Accepted
  <2>2. ASSUME NEW r \in Requests, Grant(r)
        PROVE  [Ledger!Next]_(Ledger!ledgerVars)
    <3>1. Sender(r) \in Senders /\ Nonce(r) \in 0..MaxNonce
      BY <2>2, StartedHash DEF Grant
    <3>2. CASE nextExpected[Sender(r)] = None
      <4>1. Ledger!Adopt(Sender(r), Nonce(r))
        BY <1>0, <1>2, <2>2, <3>1, <3>2
        DEF Ledger!Adopt, Grant, AcquireAndClassify, ExpectedNonce, Sender, Nonce,
            StoreTypeOK, Accepted
      <4> QED
        BY <3>1, <4>1 DEF Ledger!Next, Ledger!Nonces
    <3>3. CASE nextExpected[Sender(r)] # None
      <4>1. UNCHANGED <<nextExpected, base>>
        BY <1>0, <2>2, <3>1, <3>3
        DEF Grant, AcquireAndClassify, ExpectedNonce, Sender, Nonce, StoreTypeOK
      <4> QED
        BY <2>1, <4>1
    <3> QED
      BY <3>2, <3>3
  <2>3. ASSUME NEW r \in Requests, MarkSubmitted(r),
               MarkSubmittedInOrderNonce(Sender(r), Nonce(r))
        PROVE  [Ledger!Next]_(Ledger!ledgerVars)
    <3> DEFINE s == Sender(r)
               n == Nonce(r)
    <3>1. s \in Senders /\ n \in 0..MaxNonce
      BY <2>3, StartedHash DEF MarkSubmitted, Goto
    <3>2. n \in Accepted(s)
      BY <2>3, <3>1 DEF MarkSubmitted, Goto, LandedNonce, TypeInv, ControlFlow, Accepted
    <3>3. n < MaxNonce
      BY <2>3, <3>1, StoreAssumption DEF MarkSubmittedInOrderNonce, NonceOverflow
    <3>4. CASE nextExpected[s] = None
      <4>1. Ledger!Resume(s, n)
        BY <1>0, <1>2, <2>3, <3>1, <3>2, <3>3, <3>4
        DEF Ledger!Resume, MarkSubmittedInOrderNonce, StoreTypeOK, Accepted
      <4> QED
        BY <3>1, <4>1 DEF Ledger!Next, Ledger!Nonces
    <3>5. CASE nextExpected[s] = n
      <4>1. base' = base
        BY <1>0, <2>3, <3>1, <3>5, NoneAssumption DEF MarkSubmittedInOrderNonce, StoreTypeOK
      <4>2. Ledger!Advance(s, n)
        BY <1>0, <1>2, <2>3, <3>1, <3>2, <3>3, <3>5, <4>1
        DEF Ledger!Advance, MarkSubmittedInOrderNonce, StoreTypeOK, Accepted
      <4> QED
        BY <3>1, <4>2 DEF Ledger!Next, Ledger!Nonces
    <3>6. CASE nextExpected[s] \notin {None, n}
      <4>1. UNCHANGED <<nextExpected, base>>
        BY <1>0, <2>3, <3>1, <3>6 DEF MarkSubmittedInOrderNonce, StoreTypeOK
      <4> QED
        BY <2>1, <4>1
    <3> QED
      BY <3>4, <3>5, <3>6
  <2>4. ASSUME NEW p \in Profiles, OpenStore(p)
        PROVE  [Ledger!Next]_(Ledger!ledgerVars)
    <3>1. CASE p = storeProfile
      BY <2>1, <2>4, <3>1 DEF OpenStore, OpenHandle
    <3>2. CASE p # storeProfile
      <4>1. Ledger!Forget
        BY <1>2, <2>4, <3>2 DEF Ledger!Forget, OpenStore, OpenHandle, Accepted
      <4> QED
        BY <4>1 DEF Ledger!Next
    <3> QED
      BY <3>1, <3>2
  <2> QED
    BY <2>1, <2>2, <2>3, <2>4, StoreFrame
<1>3. ASSUME UNCHANGED <<hash, sent>>
      PROVE  ledger' = ledger
  BY <1>3, AcceptedFrame
<1>4. ASSUME NEW r \in Requests, NEW h \in Hashes, NEW p \in Handles, Start(r, h, p)
      PROVE  ledger' = ledger
  BY <1>4, AcceptedStart
<1> HIDE DEF ledger
<1> QED
  BY <1>1, <1>2, <1>3, <1>4, SubmissionFrame

(* The request path with its store implements the nonce ledger, with any   *)
(* faults and any profile changes.                                         *)
THEOREM SpecImplementsLedger == Spec => ImplementsLedger
<1>1. Init => Ledger!Init
  BY DEF Init, StoreInit, Ledger!Init, LandedNonce
<1>2. TypeInv /\ [Next]_vars => [Ledger!Next]_(Ledger!ledgerVars)
  BY LedgerStep
<1> QED
  BY <1>1, <1>2, TypeCorrect, PTL DEF Spec, ImplementsLedger, Ledger!Spec

-----------------------------------------------------------------------------
(* The refinement of PayloadSubmission.                                    *)

(* A change of one phase leaves those of the other requests. *)
LEMMA PhaseOthers ==
  ASSUME NEW r \in Requests, \A q \in Requests : q # r => Phase(q)' = Phase(q)
  PROVE  [q \in Requests |-> Phase(q)]'
           = [[q \in Requests |-> Phase(q)] EXCEPT ![r] = Phase(r)']
  OBVIOUS

(* A step from a pc to another one that the contract does not see. *)
LEMMA PhaseFrame ==
  ASSUME TypeInv, NEW r \in Requests, NEW to \in Control,
         pc' = [pc EXCEPT ![r] = to],
         UNCHANGED <<outcome, sent, late, result>>,
         outcome[r] # "pending" \/ {pc[r], to} \cap {"submit", "gone"} = {}
  PROVE  UNCHANGED Contract!submissionVars
<1>1. \A q \in Requests : Phase(q)' = Phase(q)
  BY DEF Phase, TypeInv, TypeOK
<1> QED
  BY <1>1 DEF Contract!submissionVars

LEMMA ContractStep ==
  TypeInv /\ [Next]_vars => [Contract!Next]_(Contract!submissionVars)
<1> SUFFICES ASSUME TypeInv, [Next]_vars
             PROVE  [Contract!Next]_(Contract!submissionVars)
  OBVIOUS
<1> USE DEF Goto
<1>1. ASSUME NEW r \in Requests, NEW h \in Hashes, NEW p \in Handles, Start(r, h, p)
      PROVE  [Contract!Next]_(Contract!submissionVars)
  <2>1. \A q \in Requests : q # r => Phase(q)' = Phase(q)
    BY <1>1 DEF Start, Phase, TypeInv, TypeOK
  <2>2. Phase(r) = "none"
    BY <1>1 DEF Start, Phase, TypeInv, ControlFlow, Submitted
  <2>3. Phase(r)' \in {"none", "open", "error"}
    BY <1>1, <2>2 DEF Start, Phase, TypeInv, TypeOK
  <2>4. UNCHANGED <<sent, late, result>>
    BY <1>1 DEF Start
  <2>5. CASE Phase(r)' = "none"
    BY <2>1, <2>2, <2>4, <2>5 DEF Contract!submissionVars
  <2>6. CASE Phase(r)' = "open"
    <3>1. Contract!Open(r)
      BY <2>1, <2>2, <2>4, <2>6, PhaseOthers DEF Contract!Open, Contract!Enter
    <3> QED
      BY <3>1 DEF Contract!Next
  <2>7. CASE Phase(r)' = "error"
    <3>1. Contract!Refuse(r)
      BY <2>1, <2>2, <2>4, <2>7, PhaseOthers DEF Contract!Refuse, Contract!Enter
    <3> QED
      BY <3>1 DEF Contract!Next
  <2> QED
    BY <2>3, <2>5, <2>6, <2>7
<1>2. ASSUME NEW r \in Requests,
             \/ PersistReceived(r) \/ BeginLock(r) \/ Poll(r) \/ TryAgain(r)
             \/ PersistReplacement(r) \/ PersistMined(r) \/ PersistSigned(r)
             \/ PersistBroadcasted(r) \/ MarkSubmitted(r) \/ PersistFailed(r) \/ Release(r)
      PROVE  UNCHANGED Contract!submissionVars
  <2>1. PICK to \in Control : pc' = [pc EXCEPT ![r] = to] /\ to \notin {"submit", "gone"}
    BY <1>2 DEF PersistReceived, BeginLock, Poll, TryAgain, PersistReplacement, PersistMined,
                PersistSigned, PersistBroadcasted, MarkSubmitted, PersistFailed, Release,
                Control, PollLoop, BeforeLock, Ended, Critical
  <2>2. UNCHANGED <<outcome, sent, late, result>> /\ pc[r] \notin {"submit", "gone"}
    BY <1>2 DEF PersistReceived, BeginLock, Poll, TryAgain, PersistReplacement, PersistMined,
                PersistSigned, PersistBroadcasted, MarkSubmitted, PersistFailed, Release,
                submission
  <2> QED
    BY <2>1, <2>2, PhaseFrame
<1>3. ASSUME NEW r \in Requests,
             PollTimeout(r) \/ Grant(r) \/ RefuseGap(r) \/ LockError(r)
      PROVE  [Contract!Next]_(Contract!submissionVars)
  <2>1. PICK to \in {"gone", "lockTimeout", "nonceGap", "replacement", "unsigned"} :
          pc' = [pc EXCEPT ![r] = to]
    BY <1>3 DEF PollTimeout, Grant, RefuseGap, LockError, AfterLock
  <2>2. /\ pc[r] \in {"begin", "poll", "tryLock"}
        /\ UNCHANGED <<outcome, sent, late, result>>
    BY <1>3 DEF PollTimeout, Grant, RefuseGap, LockError, submission
  <2>3. CASE to # "gone"
    BY <2>1, <2>2, <2>3, PhaseFrame DEF Control, Critical
  <2>4. CASE to = "gone"
    <3>1. \A q \in Requests : q # r => Phase(q)' = Phase(q)
      BY <2>1, <2>2 DEF Phase, TypeInv, TypeOK
    <3>2. Phase(r) = "none" /\ Phase(r)' = "gone"
      BY <2>1, <2>2, <2>4 DEF Phase, TypeInv, TypeOK, ControlFlow, Submitted
    <3>3. Contract!Drop(r)
      BY <2>2, <3>1, <3>2, PhaseOthers DEF Contract!Drop, Contract!Enter
    <3> QED
      BY <3>3 DEF Contract!Next
  <2> QED
    BY <2>3, <2>4
<1>4. ASSUME NEW r \in Requests, PersistBlocked(r)
      PROVE  Contract!Next
  <2>1. \A q \in Requests : q # r => Phase(q)' = Phase(q)
    BY <1>4 DEF PersistBlocked, Phase, TypeInv, TypeOK
  <2>2. Phase(r) = "none" /\ Phase(r)' = "error" /\ UNCHANGED <<sent, late, result>>
    BY <1>4 DEF PersistBlocked, Phase, TypeInv, TypeOK, ControlFlow, Submitted, submission
  <2>3. Contract!Refuse(r)
    BY <2>1, <2>2, PhaseOthers DEF Contract!Refuse, Contract!Enter
  <2> QED
    BY <2>3 DEF Contract!Next
<1>5. ASSUME NEW r \in Requests, PersistUnsigned(r)
      PROVE  Contract!Next
  <2>1. \A q \in Requests : q # r => Phase(q)' = Phase(q)
    BY <1>5 DEF PersistUnsigned, Phase, TypeInv, TypeOK
  <2>2. Phase(r) = "none" /\ Phase(r)' = "open" /\ UNCHANGED <<sent, late, result>>
    BY <1>5 DEF PersistUnsigned, Phase, TypeInv, TypeOK, ControlFlow, Submitted, submission
  <2>3. Contract!Open(r)
    BY <2>1, <2>2, PhaseOthers DEF Contract!Open, Contract!Enter
  <2> QED
    BY <2>3 DEF Contract!Next
<1>6. ASSUME NEW r \in Requests, Land(r)
      PROVE  Contract!Next
  <2>1. UNCHANGED <<pc, outcome>>
    BY <1>6 DEF Land, control
  <2>2. pc[r] = "submit" => Phase(r) = "open"
    BY DEF Phase, TypeInv, ControlFlow, Submitted
  <2>3. [q \in Requests |-> Phase(q)]' = [q \in Requests |-> Phase(q)]
    BY <2>1 DEF Phase
  <2>4. PICK i \in Sendable \ sent[r] :
          /\ \/ pc[r] = "submit" /\ UNCHANGED late
             \/ i \in late[r] /\ late' = [late EXCEPT ![r] = @ \ {i}]
          /\ sent' = [sent EXCEPT ![r] = @ \cup {i}]
          /\ UNCHANGED result
    BY <1>6 DEF Land
  <2>5. i \in Contract!Attempts \ sent[r]
    BY <2>4, BroadcastSets DEF Broadcasts, Contract!Attempts
  <2>6. Contract!Accept(r)
    BY <2>2, <2>3, <2>4, <2>5 DEF Contract!Accept
  <2> QED
    BY <2>6 DEF Contract!Next
<1>7. ASSUME NEW r \in Requests, SubmitOk(r)
      PROVE  Contract!Next
  <2>1. \A q \in Requests : q # r => Phase(q)' = Phase(q)
    BY <1>7 DEF SubmitOk, Phase, TypeInv, TypeOK
  <2>2. Phase(r) = "open" /\ Phase(r)' = "ok"
    BY <1>7 DEF SubmitOk, Phase, TypeInv, TypeOK, ControlFlow, Submitted
  <2>3. PICK i \in sent[r] : LeaveInFlight(r, 0..i) /\ result' = [result EXCEPT ![r] = i]
    BY <1>7 DEF SubmitOk
  <2>4. 0..i \in SUBSET Broadcasts /\ UNCHANGED sent
    BY <1>7, <2>3, BroadcastSets DEF TypeInv, TypeOK, SubmitOk
  <2>5. Contract!LeaveWithin(r, 0..i)
    BY <2>3, <2>4, FlightRange DEF Contract!LeaveWithin
  <2>6. Contract!AnswerOk(r)
    BY <2>1, <2>2, <2>3, <2>5, PhaseOthers DEF Contract!AnswerOk, Contract!Enter
  <2> QED
    BY <2>6 DEF Contract!Next
<1>8. ASSUME NEW r \in Requests, SubmitErr(r)
      PROVE  Contract!Next
  <2>1. \A q \in Requests : q # r => Phase(q)' = Phase(q)
    BY <1>8 DEF SubmitErr, Phase, TypeInv, TypeOK
  <2>2. Phase(r) = "open"
    BY <1>8 DEF SubmitErr, Phase, TypeInv, ControlFlow, Submitted
  <2>3. UNCHANGED <<sent, result>>
    BY <1>8 DEF SubmitErr
  <2>4. CASE LeaveInFlight(r, Sendable) /\ outcome' = [outcome EXCEPT ![r] = "error"]
    <3>1. Phase(r)' = "error"
      BY <2>4 DEF Phase, TypeInv, TypeOK
    <3>2. Contract!LeaveWithin(r, Contract!Attempts)
      BY <2>3, <2>4, FlightRange, BroadcastSets
         DEF Contract!LeaveWithin, Contract!Attempts, Broadcasts
    <3>3. Contract!AnswerError(r)
      BY <2>1, <2>2, <2>3, <3>1, <3>2, PhaseOthers DEF Contract!AnswerError, Contract!Enter
    <3> QED
      BY <3>3 DEF Contract!Next
  <2>5. CASE /\ LeaveInFlight(r, {0})
             /\ outcome' = [outcome EXCEPT ![r] = "miningTimeout"]
    <3>1. Phase(r)' = "miningTimeout"
      BY <2>5 DEF Phase, TypeInv, TypeOK
    <3>2. Contract!LeaveWithin(r, {0})
      BY <2>3, <2>5, FlightRange, BroadcastSets DEF Contract!LeaveWithin
    <3>3. Contract!AnswerMiningTimeout(r)
      BY <2>1, <2>2, <2>3, <3>1, <3>2, PhaseOthers
         DEF Contract!AnswerMiningTimeout, Contract!Enter
    <3> QED
      BY <3>3 DEF Contract!Next
  <2> QED
    BY <1>8, <2>4, <2>5 DEF SubmitErr
<1>9. ASSUME NEW r \in Requests, Crash(r)
      PROVE  [Contract!Next]_(Contract!submissionVars)
  <2>1. \A q \in Requests : q # r => Phase(q)' = Phase(q)
    BY <1>9 DEF Crash, Phase, TypeInv, TypeOK
  <2>2. UNCHANGED <<outcome, sent, result>> /\ pc'[r] = "gone"
    BY <1>9 DEF Crash, TypeInv, TypeOK
  <2>3. CASE pc[r] = "submit"
    <3>1. Phase(r) = "open" /\ Phase(r)' = "gone"
      BY <2>2, <2>3 DEF Phase, TypeInv, ControlFlow, Submitted
    <3>2. Contract!LeaveWithin(r, Contract!Attempts)
      BY <1>9, <2>2, <2>3, FlightRange, BroadcastSets
         DEF Crash, Contract!LeaveWithin, Contract!Attempts, Broadcasts
    <3>3. Contract!Drop(r)
      BY <2>1, <2>2, <3>1, <3>2, PhaseOthers DEF Contract!Drop, Contract!Enter
    <3> QED
      BY <3>3 DEF Contract!Next
  <2>4. CASE pc[r] # "submit" /\ outcome[r] # "pending"
    <3>1. Phase(r)' = Phase(r) /\ UNCHANGED late
      BY <1>9, <2>2, <2>4 DEF Crash, Phase
    <3> QED
      BY <2>1, <2>2, <3>1 DEF Contract!submissionVars
  <2>5. CASE pc[r] # "submit" /\ outcome[r] = "pending"
    <3>1. Phase(r) = "none" /\ Phase(r)' = "gone" /\ UNCHANGED late
      BY <1>9, <2>2, <2>5 DEF Crash, Phase, Ended
    <3>2. Contract!Drop(r)
      BY <2>1, <2>2, <3>1, PhaseOthers DEF Contract!Drop, Contract!Enter
    <3> QED
      BY <3>2 DEF Contract!Next
  <2> QED
    BY <2>3, <2>4, <2>5
<1>10. CASE \/ \E r \in Requests : Abandon(r)
            \/ \E p \in Profiles : OpenStore(p)
            \/ Tick
            \/ UNCHANGED vars
  <2>1. UNCHANGED <<pc, outcome, sent, late, result>>
    BY <1>10 DEF Abandon, OpenStore, Tick, vars, control, submission
  <2> QED
    BY <2>1 DEF Phase, Contract!submissionVars
<1> QED
  BY <1>1, <1>2, <1>3, <1>4, <1>5, <1>6, <1>7, <1>8, <1>9, <1>10 DEF Next, Advance

(* The request path uses submit_payload within its contract, under every   *)
(* fault: one call at most, refused or answered once.                      *)
THEOREM SpecImplementsContract == Spec => ImplementsContract
<1>1. Init => Contract!Init
  BY DEF Init, Contract!Init, Phase
<1> QED
  BY <1>1, TypeCorrect, ContractStep, PTL DEF Spec, ImplementsContract, Contract!Spec
-----------------------------------------------------------------------------
(* The rows of tx_map.                                                     *)

(* A row names no broadcast but the one in the Ok of its request. *)
RowOfAnswer(row) ==
  /\ row.payloadNonce # None =>
       outcome[row.correlation] = "ok" /\ row.payloadNonce = result[row.correlation]
  /\ row.kaspaTxId # None <=> row.state = "KaspaBroadcasted"
  /\ row.kaspaTxId # None => row.kaspaTxId = row.payloadNonce

RowsInv == \A h \in Hashes : txMap[h] # None => RowOfAnswer(txMap[h])

(* The row that persist_transition_safe writes for r. *)
Row(r, state, ref, kaspaTxId, code, increment) ==
  [ state |-> state, correlation |-> r, profile |-> handle[r], payloadNonce |-> ref,
    kaspaTxId |-> kaspaTxId, attempts |-> Attempts(hash[r]) + increment,
    lastErrorCode |-> code ]

Writes(r, row) == txMap' = [txMap EXCEPT ![hash[r]] = row]

(* Where a request may write a row, and from where on it writes no more. *)
Writing(r) == pc[r] \notin {"idle", "submit", "mark", "release", "done", "gone"}
LastRowWritten(r) == pc[r] \in {"mark", "release", "done"}

(* persist_transition_safe writes its row, or fails and writes nothing. *)
LEMMA PersistWrites ==
  ASSUME NEW r, NEW state, NEW ref, NEW id, NEW code, NEW inc,
         PersistSafe(r, state, ref, id, code, inc)
  PROVE  \/ txMap' = txMap /\ "persist" \in Faults
         \/ Writes(r, Row(r, state, ref, id, code, inc))
  BY DEF PersistSafe, PersistTransition, Writes, Row

(* The actions that write a row, with its reference and Kaspa id. *)
LEMMA RowFrame ==
  ASSUME TypeInv, [Next]_vars
  PROVE  \/ txMap' = txMap
         \/ \E r \in Requests :
              /\ Writing(r)
              /\ \E state \in TxLifecycleState, ref \in {None, result[r]},
                 code \in ErrorCode, inc \in {0, 1} :
                   /\ state # "KaspaBroadcasted"
                   /\ ref = None \/ outcome[r] = "ok"
                   /\ inc = 0 \/ PersistFailed(r)
                   /\ Writes(r, Row(r, state, ref, None, code, inc))
         \/ \E r \in Requests :
              /\ Writing(r)
              /\ outcome[r] = "ok"
              /\ \E code \in ErrorCode : Writes(r, Row(r, "KaspaBroadcasted", result[r], result[r], code, 0))
         \/ \E p \in Profiles : OpenStore(p)
<1>1. ASSUME NEW r \in Requests,
             \/ PersistReceived(r) \/ PersistBlocked(r) \/ PersistReplacement(r)
             \/ PersistUnsigned(r) \/ PersistMined(r) \/ PersistSigned(r) \/ PersistFailed(r)
      PROVE  \/ txMap' = txMap
             \/ /\ Writing(r)
                /\ \E state \in TxLifecycleState, ref \in {None, result[r]},
                 code \in ErrorCode, inc \in {0, 1} :
                     /\ state # "KaspaBroadcasted"
                     /\ ref = None \/ outcome[r] = "ok"
                     /\ inc = 0 \/ PersistFailed(r)
                     /\ Writes(r, Row(r, state, ref, None, code, inc))
  <2>1. Writing(r)
    BY <1>1 DEF Goto, Writing, PersistReceived, PersistBlocked, PersistReplacement,
                PersistUnsigned, PersistMined, PersistSigned, PersistFailed
  <2>2. PersistMined(r) \/ PersistSigned(r) => outcome[r] = "ok"
    BY DEF PersistMined, PersistSigned, Goto, TypeInv, ControlFlow
  <2>3. \E state \in TxLifecycleState \ {"KaspaBroadcasted"}, ref \in {None, result[r]},
                 code \in ErrorCode, inc \in {0, 1} :
          /\ ref = None \/ outcome[r] = "ok"
          /\ inc = 0 \/ PersistFailed(r)
          /\ PersistSafe(r, state, ref, None, code, inc)
    BY <1>1, <2>2
       DEF PersistReceived, PersistBlocked, PersistReplacement, PersistUnsigned,
           PersistMined, PersistSigned, PersistFailed, TxLifecycleState, ErrorCode,
           ReplacementCode
  <2> QED
    BY <2>1, <2>3, PersistWrites
<1>2. ASSUME NEW r \in Requests, PersistBroadcasted(r)
      PROVE  \/ txMap' = txMap
             \/ /\ Writing(r)
                /\ outcome[r] = "ok"
                /\ \E code \in ErrorCode : Writes(r, Row(r, "KaspaBroadcasted", result[r], result[r], code, 0))
  <2>1. Writing(r) /\ outcome[r] = "ok"
    BY <1>2 DEF PersistBroadcasted, Goto, Writing, submission, TypeInv, ControlFlow
  <2>2. PersistSafe(r, "KaspaBroadcasted", result[r], result[r], ReplacementCode(r), 0)
    BY <1>2 DEF PersistBroadcasted
  <2>3. ReplacementCode(r) \in ErrorCode
    BY DEF ReplacementCode, ErrorCode
  <2> QED
    BY <2>1, <2>2, <2>3, PersistWrites
<1>3. ASSUME NEW r \in Requests,
             \/ Grant(r) \/ MarkSubmitted(r) \/ Release(r) \/ BeginLock(r) \/ Poll(r)
             \/ PollTimeout(r) \/ RefuseGap(r) \/ TryAgain(r) \/ LockError(r)
             \/ SubmitOk(r) \/ SubmitErr(r) \/ Land(r) \/ Crash(r) \/ Abandon(r)
             \/ \E h \in Hashes, p \in Handles : Start(r, h, p)
      PROVE  txMap' = txMap
  BY <1>3 DEF Grant, AcquireAndClassify, MarkSubmitted, MarkSubmittedInOrderNonce, Release,
     ReleaseSenderLock, BeginLock, Poll, PollTimeout, RefuseGap, TryAgain, LockError,
     SubmitOk, SubmitErr, Land, Crash, Abandon, Start, storeVars
<1>4. CASE Tick \/ UNCHANGED vars
  BY <1>4 DEF Tick, vars, storeVars
<1> QED
  BY <1>1, <1>2, <1>3, <1>4 DEF Next, Advance

(* A row is not None. *)
LEMMA RowIsSome ==
  ASSUME TypeInv, NEW r \in Requests, Writing(r),
         NEW state \in TxLifecycleState, NEW ref \in {None, result[r]}, NEW id \in {None, result[r]},
         NEW code \in ErrorCode, NEW inc \in {0, 1}
  PROVE  Row(r, state, ref, id, code, inc) # None
<1>1. /\ hash[r] \in Hashes
      /\ handle[r] \in Profiles
      /\ ref \in KaspaRef /\ id \in KaspaRef
  BY TrackedHandle DEF Writing, KaspaRef
<1>2. Attempts(hash[r]) + inc \in Nat
  <2>1. Attempts(hash[r]) \in Nat
    BY <1>1 DEF Attempts, TypeInv, TypeOK, StoreTypeOK, TxMapRecord
  <2> QED
    BY <2>1
<1>3. Row(r, state, ref, id, code, inc) \in TxMapRecord
  BY <1>1, <1>2 DEF Row, TxMapRecord
<1> QED
  BY <1>3, NoneAssumption

(* The node takes nothing back. *)
LEMMA SentGrows ==
  ASSUME TypeInv, [Next]_vars, NEW r \in Requests
  PROVE  sent[r] \subseteq sent'[r]
<1>1. sent \in [Requests -> SUBSET Broadcasts]
  BY DEF TypeInv, TypeOK
<1>2. ASSUME NEW q \in Requests, Land(q)
      PROVE  sent[r] \subseteq sent'[r]
  BY <1>1, <1>2 DEF Land
<1>3. ASSUME NEW q \in Requests, NEW h \in Hashes, NEW p \in Handles, Start(q, h, p)
      PROVE  sent' = sent
  BY <1>3 DEF Start
<1> QED
  BY <1>1, <1>2, <1>3, SubmissionFrame

(* An answer is final. *)
LEMMA OutcomeFinal ==
  ASSUME TypeInv, [Next]_vars, NEW r \in Requests, outcome[r] # "pending"
  PROVE  outcome'[r] = outcome[r]
<1>1. Submitted(r) /\ outcome \in [Requests -> Outcome]
  BY DEF TypeInv, TypeOK, ControlFlow
<1>2. ASSUME NEW q \in Requests,
             \/ \E h \in Hashes, p \in Handles : Start(q, h, p)
             \/ PersistBlocked(q) \/ SubmitOk(q) \/ SubmitErr(q)
      PROVE  outcome'[r] = outcome[r]
  <2>1. /\ ~Submitted(q)
        /\ outcome' = outcome \/ \E o \in Outcome : outcome' = [outcome EXCEPT ![q] = o]
    BY <1>2 DEF Start, PersistBlocked, SubmitOk, SubmitErr, Goto, Submitted, Outcome
  <2> QED
    BY <1>1, <2>1
<1>3. ASSUME NEW q \in Requests,
             \/ PersistReceived(q) \/ BeginLock(q) \/ Poll(q) \/ PollTimeout(q)
             \/ Grant(q) \/ RefuseGap(q) \/ TryAgain(q) \/ LockError(q)
             \/ PersistReplacement(q) \/ PersistUnsigned(q) \/ PersistMined(q)
             \/ PersistSigned(q) \/ PersistBroadcasted(q) \/ MarkSubmitted(q)
             \/ PersistFailed(q) \/ Release(q) \/ Land(q) \/ Crash(q) \/ Abandon(q)
      PROVE  outcome' = outcome
  BY <1>3 DEF PersistReceived, BeginLock, Poll, PollTimeout, Grant, RefuseGap, TryAgain,
     LockError, PersistReplacement, PersistUnsigned, PersistMined, PersistSigned,
     PersistBroadcasted, MarkSubmitted, PersistFailed, Release, Land, Crash, Abandon, control
<1>4. CASE Tick \/ (\E p \in Profiles : OpenStore(p)) \/ UNCHANGED vars
  BY <1>4 DEF Tick, OpenStore, vars, control
<1> QED
  BY <1>2, <1>3, <1>4 DEF Next, Advance

(* The broadcast that an Ok names is final, too. *)
LEMMA AnswerFinal ==
  ASSUME TypeInv, [Next]_vars, NEW r \in Requests, outcome[r] = "ok"
  PROVE  outcome'[r] = "ok" /\ result'[r] = result[r]
<1>1. outcome'[r] = "ok"
  BY OutcomeFinal
<1>2. ASSUME NEW q \in Requests, SubmitOk(q)
      PROVE  result'[r] = result[r]
  <2>1. q # r
    BY <1>2 DEF SubmitOk, Goto, TypeInv, ControlFlow, Submitted
  <2>2. \E i \in sent[q] : result' = [result EXCEPT ![q] = i]
    BY <1>2 DEF SubmitOk
  <2> QED
    BY <2>1, <2>2 DEF TypeInv, TypeOK
<1>3. ASSUME \A q \in Requests : ~SubmitOk(q)
      PROVE  result' = result
  BY <1>3 DEF Next, Advance, vars, submission, Start, PersistReceived, BeginLock, Poll,
     PollTimeout, Grant, RefuseGap, TryAgain, LockError, PersistBlocked, PersistReplacement,
     PersistUnsigned, PersistMined, PersistSigned, PersistBroadcasted, MarkSubmitted,
     SubmitErr, PersistFailed, Release, Land, Crash, Abandon, OpenStore, Tick
<1> QED
  BY <1>1, <1>2, <1>3

(* A row that names a broadcast is written by a request that was answered, *)
(* with what the answer named.                                             *)
LEMMA RowsInvStep ==
  ASSUME TypeInv, RowsInv, [Next]_vars
  PROVE  RowsInv'
<1> SUFFICES ASSUME NEW h \in Hashes, txMap'[h] # None
             PROVE  RowOfAnswer(txMap[h])'
  BY DEF RowsInv
<1>0. txMap \in [Hashes -> TxMapRecord \cup {None}]
  BY DEF TypeInv, TypeOK, StoreTypeOK
<1>1. CASE txMap'[h] = txMap[h]
  <2>1. txMap[h].correlation \in Requests /\ RowOfAnswer(txMap[h])
    BY <1>0, <1>1 DEF RowsInv, TxMapRecord
  <2> QED
    BY <1>1, <2>1, AnswerFinal DEF RowOfAnswer
<1>2. ASSUME NEW r \in Requests, NEW state \in TxLifecycleState,
             NEW ref \in {None, result[r]}, NEW code, NEW inc,
             state # "KaspaBroadcasted", ref = None \/ outcome[r] = "ok",
             Writes(r, Row(r, state, ref, None, code, inc)), h = hash[r]
      PROVE  RowOfAnswer(txMap[h])'
  <2>1. txMap'[h] = Row(r, state, ref, None, code, inc)
    BY <1>0, <1>2 DEF Writes
  <2> QED
    BY <1>2, <2>1, AnswerFinal DEF RowOfAnswer, Row
<1>3. ASSUME NEW r \in Requests, outcome[r] = "ok", NEW code,
             Writes(r, Row(r, "KaspaBroadcasted", result[r], result[r], code, 0)),
             h = hash[r]
      PROVE  RowOfAnswer(txMap[h])'
  <2>1. txMap'[h] = Row(r, "KaspaBroadcasted", result[r], result[r], code, 0)
    BY <1>0, <1>3 DEF Writes
  <2>2. result[r] # None
    BY <1>3, NoneAssumption DEF TypeInv, TypeOK, ControlFlow, Broadcasts
  <2> QED
    BY <1>3, <2>1, <2>2, AnswerFinal DEF RowOfAnswer, Row
<1>4. ASSUME NEW p \in Profiles, OpenStore(p)
      PROVE  txMap'[h] = txMap[h]
  BY <1>4 DEF OpenStore, OpenHandle
<1>5. ASSUME NEW r, NEW row, Writes(r, row), h # hash[r]
      PROVE  txMap'[h] = txMap[h]
  BY <1>0, <1>5 DEF Writes
<1> QED
  BY <1>1, <1>2, <1>3, <1>4, <1>5, RowFrame

(* What an Ok names is on L1, and no broadcast came after it. *)
LEMMA RowsOnL1 ==
  ASSUME TypeInv, RowsInv
  PROVE  RecordedOnL1
<1>1. ASSUME NEW h \in Hashes, txMap[h] # None
      PROVE  /\ RowOfAnswer(txMap[h])
             /\ txMap[h].correlation \in Requests
  BY <1>1 DEF RowsInv, TypeInv, TypeOK, StoreTypeOK, TxMapRecord
<1>2. \A r \in Requests : outcome[r] = "ok" =>
        result[r] \in sent[r] /\ sent[r] \cup late[r] \subseteq 0..result[r]
  BY DEF TypeInv, ControlFlow
<1> QED
  BY <1>1, <1>2 DEF RowOfAnswer, RecordedOnL1

(* A Kaspa id or payload nonce in the table is that of the broadcast the   *)
(* recorded request was answered with: the node accepted it and no         *)
(* broadcast came after it, under any faults and profiles.                 *)
THEOREM SpecRecordedOnL1 == Spec => []RecordedOnL1
<1>1. Init => RowsInv
  BY DEF Init, StoreInit, RowsInv
<1>2. TypeInv /\ RowsInv /\ [Next]_vars => RowsInv'
  BY RowsInvStep
<1>3. TypeInv /\ RowsInv => RecordedOnL1
  BY RowsOnL1
<1> QED
  BY <1>1, <1>2, <1>3, TypeCorrect, PTL DEF Spec

(* From a request's last write on there is a row, and if it is still that  *)
(* request's it agrees with the answer.                                    *)
RowPresent(r) ==
  handle[r] # None /\ LastRowWritten(r) => txMap[hash[r]] # None

RowAgrees(r) ==
  handle[r] # None /\ LastRowWritten(r) =>
    LET row == txMap[hash[r]] IN
    row # None /\ row.correlation = r =>
      IF outcome[r] = "ok"
      THEN row.state = "KaspaBroadcasted" /\ row.kaspaTxId \in sent[r]
      ELSE row.state = "FailedRecoverable" /\ row.kaspaTxId = None

RowPresentInv == \A r \in Requests : RowPresent(r)
RowAgreesInv == \A r \in Requests : RowAgrees(r)

(* Who has written its last row had done so before, or has just done it. *)
LEMMA LastRowFrame ==
  ASSUME TypeInv, [Next]_vars, NEW r \in Requests, handle'[r] # None, LastRowWritten(r)'
  PROVE  \/ PersistBroadcasted(r)
         \/ PersistFailed(r)
         \/ LastRowWritten(r) /\ UNCHANGED <<handle[r], hash[r], outcome[r]>>
<1> USE DEF LastRowWritten, Goto, control, submission, TypeInv, TypeOK
<1>1. ASSUME NEW q \in Requests, NEW h \in Hashes, NEW p \in Handles, Start(q, h, p)
      PROVE  q # r /\ LastRowWritten(r) /\ UNCHANGED <<handle[r], hash[r], outcome[r]>>
  BY <1>1 DEF Start
<1>2. ASSUME NEW q \in Requests,
             \/ PersistReceived(q) \/ BeginLock(q) \/ Poll(q) \/ PollTimeout(q)
             \/ Grant(q) \/ RefuseGap(q) \/ TryAgain(q) \/ LockError(q)
             \/ PersistBlocked(q) \/ PersistReplacement(q) \/ PersistUnsigned(q)
             \/ PersistMined(q) \/ PersistSigned(q)
      PROVE  q # r /\ LastRowWritten(r) /\ UNCHANGED <<handle[r], hash[r], outcome[r]>>
  BY <1>2 DEF PersistReceived, BeginLock, Poll, PollTimeout, Grant, RefuseGap, TryAgain,
              LockError, AfterLock, PersistBlocked, PersistReplacement, PersistUnsigned,
              PersistMined, PersistSigned
<1>3. ASSUME NEW q \in Requests, SubmitOk(q) \/ SubmitErr(q)
      PROVE  q # r /\ LastRowWritten(r) /\ UNCHANGED <<handle[r], hash[r], outcome[r]>>
  BY <1>3 DEF SubmitOk, SubmitErr
<1>4. ASSUME NEW q \in Requests, PersistBroadcasted(q) \/ PersistFailed(q), q # r
      PROVE  LastRowWritten(r) /\ UNCHANGED <<handle[r], hash[r], outcome[r]>>
  BY <1>4 DEF PersistBroadcasted, PersistFailed
<1>5. ASSUME NEW q \in Requests, MarkSubmitted(q) \/ Release(q)
      PROVE  LastRowWritten(r) /\ UNCHANGED <<handle[r], hash[r], outcome[r]>>
  BY <1>5 DEF MarkSubmitted, Release
<1>6. ASSUME NEW q \in Requests, Land(q) \/ Crash(q) \/ Abandon(q)
      PROVE  LastRowWritten(r) /\ UNCHANGED <<handle[r], hash[r], outcome[r]>>
  BY <1>6 DEF Land, Crash, Abandon
<1>7. CASE \/ \E p \in Profiles : OpenStore(p)
           \/ Tick
           \/ UNCHANGED vars
  BY <1>7 DEF OpenStore, Tick, vars
<1> QED
  BY <1>1, <1>2, <1>3, <1>4, <1>5, <1>6, <1>7 DEF Next, Advance

(* The row of the last write is what the answer says. *)
LEMMA LastRow ==
  ASSUME TypeInv, "persist" \notin Faults, NEW r \in Requests,
         PersistBroadcasted(r) \/ PersistFailed(r)
  PROVE  RowPresent(r)' /\ RowAgrees(r)'
<1>0. txMap \in [Hashes -> TxMapRecord \cup {None}]
  BY DEF TypeInv, TypeOK, StoreTypeOK
<1>1. CASE PersistBroadcasted(r)
  <2>1. /\ hash[r] \in Hashes
        /\ outcome[r] = "ok"
        /\ result[r] \in sent[r]
        /\ UNCHANGED <<hash, outcome, sent>>
    BY <1>1 DEF PersistBroadcasted, Goto, TypeInv, TypeOK, ControlFlow, submission
  <2>2. Writes(r, Row(r, "KaspaBroadcasted", result[r], result[r], ReplacementCode(r), 0))
    BY <1>1, PersistWrites DEF PersistBroadcasted
  <2>3. txMap'[hash[r]] = Row(r, "KaspaBroadcasted", result[r], result[r], ReplacementCode(r), 0)
    BY <1>0, <2>1, <2>2 DEF Writes
  <2>4. txMap'[hash[r]] # None
    BY <1>1, <2>3, RowIsSome DEF PersistBroadcasted, Goto, Writing, ReplacementCode,
       ErrorCode, TxLifecycleState
  <2> QED
    BY <2>1, <2>3, <2>4 DEF RowPresent, RowAgrees, Row
<1>2. CASE PersistFailed(r)
  <2> DEFINE code == IF outcome[r] = "miningTimeout" THEN "IGRA_MINING_001" ELSE "none"
  <2>1. /\ hash[r] \in Hashes
        /\ outcome[r] # "ok"
        /\ UNCHANGED <<hash, outcome, sent>>
    BY <1>2 DEF PersistFailed, Goto, TypeInv, ControlFlow, Failing, submission
  <2>2. Writes(r, Row(r, "FailedRecoverable", None, None, code, 1))
    BY <1>2, PersistWrites DEF PersistFailed
  <2>3. txMap'[hash[r]] = Row(r, "FailedRecoverable", None, None, code, 1)
    BY <1>0, <2>1, <2>2 DEF Writes
  <2>4. txMap'[hash[r]] # None
    BY <1>2, <2>3, RowIsSome DEF PersistFailed, Goto, Writing, ErrorCode, TxLifecycleState
  <2> QED
    BY <2>1, <2>3, <2>4 DEF RowPresent, RowAgrees, Row
<1> QED
  BY <1>1, <1>2

(* What a step does to the row of a request that writes no more: nothing,  *)
(* another request's row takes its place, or opening the store removes it. *)
LEMMA RowAfterwards ==
  ASSUME TypeInv, [Next]_vars, NEW r \in Requests, LastRowWritten(r)
  PROVE  \/ txMap'[hash[r]] = txMap[hash[r]]
         \/ txMap'[hash[r]] # None /\ txMap'[hash[r]].correlation # r
         \/ \E p \in Profiles : OpenStore(p)
<1>0. txMap \in [Hashes -> TxMapRecord \cup {None}] /\ hash[r] \in Hashes
  BY StartedHash DEF TypeInv, TypeOK, StoreTypeOK, LastRowWritten
<1>1. ASSUME NEW q \in Requests, Writing(q), NEW state \in TxLifecycleState,
             NEW ref \in {None, result[q]}, NEW id \in {None, result[q]},
             NEW code \in ErrorCode, NEW inc \in {0, 1},
             Writes(q, Row(q, state, ref, id, code, inc)), hash[q] = hash[r]
      PROVE  txMap'[hash[r]] # None /\ txMap'[hash[r]].correlation # r
  <2>1. txMap'[hash[r]] = Row(q, state, ref, id, code, inc)
    BY <1>0, <1>1 DEF Writes
  <2>2. txMap'[hash[r]] # None
    BY <1>1, <2>1, RowIsSome
  <2>3. txMap'[hash[r]].correlation # r
    BY <1>1, <2>1 DEF Row, Writing, LastRowWritten
  <2> QED
    BY <2>2, <2>3
<1>2. ASSUME NEW q, NEW row, Writes(q, row), hash[q] # hash[r]
      PROVE  txMap'[hash[r]] = txMap[hash[r]]
  BY <1>0, <1>2 DEF Writes
<1> QED
  BY <1>1, <1>2, RowFrame DEF TxLifecycleState

(* Opening the store keeps a row or removes it, and without pruning and    *)
(* without another profile it keeps them all.                              *)
LEMMA OpenKeepsRow ==
  ASSUME TypeInv, NEW p \in Profiles, OpenStore(p), NEW h \in Hashes
  PROVE  /\ txMap'[h] \in {txMap[h], None}
         /\ OneProfile /\ "prune" \notin Faults => txMap'[h] = txMap[h]
<1>0. storeProfile \in Profiles
  BY DEF TypeInv, TypeOK, StoreTypeOK
<1>1. PICK D \in SUBSET Prunable : (D # {} => "prune" \in Faults) /\ OpenHandle(p, D)
  BY DEF OpenStore
<1>2. txMap'[h] = IF p # storeProfile \/ h \in D THEN None ELSE txMap[h]
  BY <1>1 DEF OpenHandle
<1>3. OneProfile /\ "prune" \notin Faults => p = storeProfile /\ D = {}
  BY <1>0, <1>1 DEF OneProfile
<1> QED
  BY <1>2, <1>3

(* No step makes the last row of an answered request contradict it. *)
LEMMA RowAgreesStep ==
  ASSUME "persist" \notin Faults, TypeInv, RowAgreesInv, [Next]_vars
  PROVE  RowAgreesInv'
<1> SUFFICES ASSUME NEW r \in Requests, handle'[r] # None, LastRowWritten(r)'
             PROVE  RowAgrees(r)'
  BY DEF RowAgreesInv, RowAgrees
<1>1. CASE PersistBroadcasted(r) \/ PersistFailed(r)
  BY <1>1, LastRow
<1>2. CASE LastRowWritten(r) /\ UNCHANGED <<handle[r], hash[r], outcome[r]>>
  <2>1. /\ handle[r] # None
        /\ hash[r] \in Hashes
        /\ sent[r] \subseteq sent'[r]
        /\ RowAgrees(r)
    BY <1>2, SentGrows, StartedHash DEF LastRowWritten, RowAgreesInv
  <2>2. CASE txMap'[hash[r]] = txMap[hash[r]]
    BY <1>2, <2>1, <2>2 DEF RowAgrees
  <2>3. CASE txMap'[hash[r]] = None \/ txMap'[hash[r]].correlation # r
    BY <1>2, <2>3 DEF RowAgrees
  <2> QED
    BY <1>2, <2>1, <2>2, <2>3, RowAfterwards, OpenKeepsRow
<1> QED
  BY <1>1, <1>2, LastRowFrame

(* No step removes the row of an answered request. *)
LEMMA RowPresentStep ==
  ASSUME OneProfile, {"persist", "prune"} \cap Faults = {},
         TypeInv, RowPresentInv, [Next]_vars
  PROVE  RowPresentInv'
<1> SUFFICES ASSUME NEW r \in Requests, handle'[r] # None, LastRowWritten(r)'
             PROVE  RowPresent(r)'
  BY DEF RowPresentInv, RowPresent
<1>1. CASE PersistBroadcasted(r) \/ PersistFailed(r)
  BY <1>1, LastRow
<1>2. CASE LastRowWritten(r) /\ UNCHANGED <<handle[r], hash[r], outcome[r]>>
  <2>1. handle[r] # None /\ hash[r] \in Hashes /\ RowPresent(r)
    BY <1>2, StartedHash DEF LastRowWritten, RowPresentInv
  <2>2. txMap'[hash[r]] = txMap[hash[r]] \/ txMap'[hash[r]] # None
    BY <1>2, <2>1, RowAfterwards, OpenKeepsRow
  <2> QED
    BY <1>2, <2>1, <2>2 DEF RowPresent
<1> QED
  BY <1>1, <1>2, LastRowFrame

(* When no row write fails, the table never contradicts an answer: a row   *)
(* that an answered request wrote last shows the accepted transaction      *)
(* after Ok and a failure after Err, whatever is wiped, pruned or cut      *)
(* short.                                                                  *)
THEOREM SpecRecordNeverContradicts ==
  ASSUME "persist" \notin Faults
  PROVE  Spec => []RowAgreesInv
<1>1. Init => RowAgreesInv
  BY DEF Init, RowAgreesInv, RowAgrees, LastRowWritten
<1>2. TypeInv /\ RowAgreesInv /\ [Next]_vars => RowAgreesInv'
  BY RowAgreesStep
<1> QED
  BY <1>1, <1>2, TypeCorrect, PTL DEF Spec

(* When moreover no row is removed, there is a row for every answer: what  *)
(* the table says of a transaction is what the last request for it         *)
(* answered.                                                               *)
THEOREM SpecRecordMatchesAnswer ==
  ASSUME OneProfile, {"persist", "prune"} \cap Faults = {}
  PROVE  Spec => []RecordMatchesAnswer
<1>1. Init => RowPresentInv
  BY DEF Init, RowPresentInv, RowPresent, LastRowWritten
<1>2. TypeInv /\ RowPresentInv /\ [Next]_vars => RowPresentInv'
  BY RowPresentStep
<1>3. RowPresentInv /\ RowAgreesInv => RecordMatchesAnswer
  BY DEF RowPresentInv, RowAgreesInv, RowPresent, RowAgrees, LastRowWritten,
         RecordMatchesAnswer
<1>4. Spec => []RowAgreesInv
  BY SpecRecordNeverContradicts
<1> QED
  BY <1>1, <1>2, <1>3, <1>4, TypeCorrect, PTL DEF Spec

(* The requests the attempts of a row count. *)
Counted(q, h) == hash[q] = h /\ Failing(q) /\ pc[q] \in {"release", "done"}

CountedSet(h) == {q \in Requests : Counted(q, h)}

Tracked == \A q \in Requests : handle[q] = None => pc[q] = "idle"

AttemptsInv == Tracked /\ AttemptsCountFailures

(* A started request stays tracked by the store. *)
LEMMA TrackedStep ==
  ASSUME "untracked" \notin Faults, TypeInv, Tracked, [Next]_vars
  PROVE  Tracked'
<1> USE DEF Tracked, Goto, control, submission, TypeInv, TypeOK
<1>1. ASSUME NEW q \in Requests, NEW h \in Hashes, NEW p \in Handles, Start(q, h, p)
      PROVE  Tracked'
  BY <1>1, NoneAssumption DEF Start, Handles
<1>2. ASSUME NEW q \in Requests, pc' = [pc EXCEPT ![q] = pc'[q]], pc[q] # "idle",
             UNCHANGED handle
      PROVE  Tracked'
  BY <1>2
<1>3. ASSUME NEW q \in Requests, Advance(q) \/ Crash(q)
      PROVE  /\ pc' = [pc EXCEPT ![q] = pc'[q]]
             /\ pc[q] # "idle"
             /\ UNCHANGED handle
  BY <1>3 DEF Advance, PersistReceived, BeginLock, Poll, PollTimeout, Grant, RefuseGap,
     TryAgain, LockError, PersistBlocked, PersistReplacement, PersistUnsigned, SubmitOk,
     SubmitErr, PersistMined, PersistSigned, PersistBroadcasted, MarkSubmitted,
     PersistFailed, Release, Crash
<1>4. CASE \/ \E q \in Requests : Land(q) \/ Abandon(q)
           \/ \E p \in Profiles : OpenStore(p)
           \/ Tick
           \/ UNCHANGED vars
  BY <1>4 DEF Land, Abandon, OpenStore, Tick, vars
<1> QED
  BY <1>1, <1>2, <1>3, <1>4 DEF Next

(* Only the step that writes a failure changes the counted set. *)
LEMMA CountedFrame ==
  ASSUME {"crash", "untracked"} \cap Faults = {}, TypeInv, Tracked, [Next]_vars,
         NEW q \in Requests, NEW h, ~PersistFailed(q)
  PROVE  Counted(q, h)' <=> Counted(q, h)
<1> USE DEF Counted, Failing, Goto, control, submission, TypeInv, TypeOK, ControlFlow
<1>1. ASSUME NEW r \in Requests, NEW g \in Hashes, NEW p \in Handles, Start(r, g, p)
      PROVE  Counted(q, h)' <=> Counted(q, h)
  BY <1>1, NoneAssumption DEF Start, Handles
<1>2. ASSUME NEW r \in Requests,
             \/ PersistReceived(r) \/ BeginLock(r) \/ Poll(r) \/ PollTimeout(r)
             \/ Grant(r) \/ RefuseGap(r) \/ TryAgain(r) \/ LockError(r)
      PROVE  Counted(q, h)' <=> Counted(q, h)
  BY <1>2 DEF PersistReceived, BeginLock, Poll, PollTimeout, Grant, RefuseGap, TryAgain,
              LockError, AfterLock
<1>3. ASSUME NEW r \in Requests,
             \/ PersistBlocked(r) \/ PersistReplacement(r) \/ PersistUnsigned(r)
             \/ PersistMined(r) \/ PersistSigned(r)
      PROVE  Counted(q, h)' <=> Counted(q, h)
  BY <1>3 DEF PersistBlocked, PersistReplacement, PersistUnsigned, PersistMined, PersistSigned
<1>4. ASSUME NEW r \in Requests, SubmitOk(r) \/ SubmitErr(r)
      PROVE  Counted(q, h)' <=> Counted(q, h)
  <2>1. handle[r] # None
    BY <1>4 DEF SubmitOk, SubmitErr, Tracked
  <2> QED
    BY <1>4, <2>1 DEF SubmitOk, SubmitErr
<1>5. ASSUME NEW r \in Requests, PersistBroadcasted(r) \/ MarkSubmitted(r) \/ Release(r)
      PROVE  Counted(q, h)' <=> Counted(q, h)
  BY <1>5 DEF PersistBroadcasted, MarkSubmitted, Release
<1>6. ASSUME NEW r \in Requests, PersistFailed(r), r # q
      PROVE  Counted(q, h)' <=> Counted(q, h)
  BY <1>6 DEF PersistFailed
<1>7. ASSUME NEW r \in Requests, Land(r) \/ Crash(r) \/ Abandon(r)
      PROVE  Counted(q, h)' <=> Counted(q, h)
  BY <1>7 DEF Land, Crash, Abandon
<1>8. CASE \/ \E p \in Profiles : OpenStore(p)
           \/ Tick
           \/ UNCHANGED vars
  BY <1>8 DEF OpenStore, Tick, vars
<1> QED
  BY <1>1, <1>2, <1>3, <1>4, <1>5, <1>6, <1>7, <1>8 DEF Next, Advance

(* Attempts and counted failures grow together. *)
LEMMA AttemptsStep ==
  ASSUME OneProfile, IsFiniteSet(Requests),
         {"persist", "prune", "crash", "untracked"} \cap Faults = {},
         TypeInv, AttemptsInv, [Next]_vars
  PROVE  AttemptsInv'
<1> SUFFICES ASSUME NEW h \in Hashes
             PROVE  Attempts(h)' = Cardinality(CountedSet(h))'
  BY TrackedStep DEF AttemptsInv, AttemptsCountFailures, CountedSet, Counted
<1>0. /\ txMap \in [Hashes -> TxMapRecord \cup {None}]
      /\ storeProfile \in Profiles
      /\ Attempts(h) = Cardinality(CountedSet(h))
  BY DEF TypeInv, TypeOK, StoreTypeOK, AttemptsInv, AttemptsCountFailures, CountedSet, Counted
<1>1. Attempts(h) \in Nat
  BY <1>0 DEF Attempts, TxMapRecord
<1>2. ASSUME NEW r \in Requests, PersistFailed(r)
      PROVE  Attempts(h)' = Cardinality(CountedSet(h))'
  <2> DEFINE code == IF outcome[r] = "miningTimeout" THEN "IGRA_MINING_001" ELSE "none"
             row == Row(r, "FailedRecoverable", None, None, code, 1)
  <2>1. Writes(r, row)
    BY <1>2, PersistWrites DEF PersistFailed
  <2>2. row # None
    BY <1>2, RowIsSome DEF PersistFailed, Goto, Writing, ErrorCode, TxLifecycleState
  <2>3. \A q \in Requests \ {r} : ~PersistFailed(q)
    BY <1>2 DEF PersistFailed, Goto, TypeInv, TypeOK
  <2>4. \A q \in Requests \ {r} : Counted(q, h)' <=> Counted(q, h)
    BY <2>3, CountedFrame DEF AttemptsInv
  <2>5. /\ ~Counted(r, h)
        /\ Counted(r, h)' <=> hash[r] = h
    BY <1>2 DEF PersistFailed, Goto, Counted, Failing, control, submission, TypeInv, TypeOK,
                ControlFlow
  <2>6. CASE hash[r] = h
    <3>1. CountedSet(h)' = CountedSet(h) \cup {r} /\ r \notin CountedSet(h)
      BY <2>4, <2>5, <2>6 DEF CountedSet
    <3>2. IsFiniteSet(CountedSet(h))
      BY FS_Subset DEF CountedSet
    <3>3. Cardinality(CountedSet(h))' = Cardinality(CountedSet(h)) + 1
      BY <3>1, <3>2, FS_AddElement
    <3>4. Attempts(h)' = Attempts(h) + 1
      BY <1>0, <2>1, <2>2, <2>6 DEF Writes, Row, Attempts
    <3> QED
      BY <1>0, <3>3, <3>4
  <2>7. CASE hash[r] # h
    <3>1. CountedSet(h)' = CountedSet(h)
      BY <2>4, <2>5, <2>7 DEF CountedSet
    <3>2. Attempts(h)' = Attempts(h)
      BY <1>0, <2>1, <2>7 DEF Writes, Attempts
    <3> QED
      BY <1>0, <3>1, <3>2
  <2> QED
    BY <2>6, <2>7
<1>3. CASE \A r \in Requests : ~PersistFailed(r)
  <2>1. CountedSet(h)' = CountedSet(h)
    <3>1. \A q \in Requests : Counted(q, h)' <=> Counted(q, h)
      BY <1>3, CountedFrame DEF AttemptsInv
    <3> QED
      BY <3>1 DEF CountedSet
  <2>2. ASSUME NEW r \in Requests, Writing(r), NEW state \in TxLifecycleState,
               NEW ref \in {None, result[r]}, NEW id \in {None, result[r]}, NEW code \in ErrorCode,
               Writes(r, Row(r, state, ref, id, code, 0))
        PROVE  Attempts(h)' = Attempts(h)
    <3>1. Row(r, state, ref, id, code, 0) # None
      BY <2>2, RowIsSome
    <3>2. CASE hash[r] = h
      BY <1>0, <1>1, <2>2, <3>1, <3>2 DEF Writes, Row, Attempts
    <3>3. CASE hash[r] # h
      BY <1>0, <2>2, <3>3 DEF Writes, Attempts
    <3> QED
      BY <3>2, <3>3
  <2>3. ASSUME NEW p \in Profiles, OpenStore(p)
        PROVE  txMap' = txMap
    BY <1>0, <2>3 DEF OpenStore, OpenHandle, OneProfile
  <2>4. txMap' = txMap => Attempts(h)' = Attempts(h)
    BY DEF Attempts
  <2>5. Attempts(h)' = Attempts(h)
    BY <1>3, <2>2, <2>3, <2>4, RowFrame DEF TxLifecycleState
  <2> QED
    BY <1>0, <2>1, <2>5
<1> QED
  BY <1>2, <1>3

(* When every row is written, none is removed and no request is cut short, *)
(* the attempts of a row count the failed requests for its hash, however   *)
(* they interleave.                                                        *)
THEOREM SpecAttemptsCountFailures ==
  ASSUME OneProfile, IsFiniteSet(Requests),
         {"persist", "prune", "crash", "untracked"} \cap Faults = {}
  PROVE  Spec => []AttemptsCountFailures
<1>1. Init => AttemptsInv
  <2> SUFFICES ASSUME Init, NEW h \in Hashes
               PROVE  Attempts(h) = Cardinality(CountedSet(h))
    BY DEF Init, AttemptsInv, Tracked, AttemptsCountFailures, CountedSet, Counted
  <2>1. CountedSet(h) = {}
    BY DEF Init, CountedSet, Counted
  <2> QED
    BY <2>1, FS_EmptySet DEF Init, StoreInit, Attempts
<1>2. TypeInv /\ AttemptsInv /\ [Next]_vars => AttemptsInv'
  BY AttemptsStep
<1>3. AttemptsInv => AttemptsCountFailures
  BY DEF AttemptsInv
<1> QED
  BY <1>1, <1>2, <1>3, TypeCorrect, PTL DEF Spec
-----------------------------------------------------------------------------
(* The attempts of a row under every fault. *)

(* The requests for h that have failed, except those whose failure has not *)
(* reached the table yet.                                                  *)
Failed(q, h) == hash[q] = h /\ Failing(q) /\ pc[q] # "failed"

FailedSet(h) == {q \in Requests : Failed(q, h)}

(* A row never counts more attempts than requests for its hash failed: no  *)
(* failure is counted twice, and nothing else is counted as one.           *)
AttemptsNotOvercounted ==
  \A h \in Hashes : Attempts(h) <= Cardinality(FailedSet(h))

(* A failure is final. *)
LEMMA FailedFrame ==
  ASSUME TypeInv, [Next]_vars, NEW q \in Requests, NEW h \in Hashes, Failed(q, h)
  PROVE  Failed(q, h)'
<1> USE NoneAssumption DEF Failed, Failing, Goto, control, submission, TypeInv, TypeOK,
      ControlFlow, Submitted, BeforeLock, PollLoop
<1>1. ASSUME NEW r \in Requests, NEW g \in Hashes, NEW p \in Handles, Start(r, g, p)
      PROVE  Failed(q, h)'
  BY <1>1 DEF Start
<1>2. ASSUME NEW r \in Requests,
             \/ PersistReceived(r) \/ BeginLock(r) \/ Poll(r) \/ PollTimeout(r)
             \/ Grant(r) \/ RefuseGap(r) \/ TryAgain(r) \/ LockError(r)
      PROVE  Failed(q, h)'
  BY <1>2 DEF PersistReceived, BeginLock, Poll, PollTimeout, Grant, RefuseGap, TryAgain,
              LockError, AfterLock
<1>3. ASSUME NEW r \in Requests,
             \/ PersistBlocked(r) \/ PersistReplacement(r) \/ PersistUnsigned(r)
             \/ PersistMined(r) \/ PersistSigned(r)
      PROVE  Failed(q, h)'
  BY <1>3 DEF PersistBlocked, PersistReplacement, PersistUnsigned, PersistMined, PersistSigned
<1>4. ASSUME NEW r \in Requests, SubmitOk(r) \/ SubmitErr(r)
      PROVE  Failed(q, h)'
  BY <1>4 DEF SubmitOk, SubmitErr
<1>5. ASSUME NEW r \in Requests,
             PersistBroadcasted(r) \/ MarkSubmitted(r) \/ PersistFailed(r) \/ Release(r)
      PROVE  Failed(q, h)'
  BY <1>5 DEF PersistBroadcasted, MarkSubmitted, PersistFailed, Release
<1>6. ASSUME NEW r \in Requests, Land(r) \/ Crash(r) \/ Abandon(r)
      PROVE  Failed(q, h)'
  BY <1>6 DEF Land, Crash, Abandon
<1>7. CASE \/ \E p \in Profiles : OpenStore(p)
           \/ Tick
           \/ UNCHANGED vars
  BY <1>7 DEF OpenStore, Tick, vars
<1> QED
  BY <1>1, <1>2, <1>3, <1>4, <1>5, <1>6, <1>7 DEF Next, Advance

(* An increment comes with a failure that was not counted before. *)
LEMMA OvercountStep ==
  ASSUME IsFiniteSet(Requests), TypeInv, AttemptsNotOvercounted, [Next]_vars
  PROVE  AttemptsNotOvercounted'
<1> SUFFICES ASSUME NEW h \in Hashes
             PROVE  Attempts(h)' <= Cardinality(FailedSet(h)')
  BY DEF AttemptsNotOvercounted, FailedSet, Failed, Failing
<1>0. /\ txMap \in [Hashes -> TxMapRecord \cup {None}]
      /\ Attempts(h) <= Cardinality(FailedSet(h))
  BY DEF TypeInv, TypeOK, StoreTypeOK, AttemptsNotOvercounted
<1>1. /\ IsFiniteSet(FailedSet(h)) /\ IsFiniteSet(FailedSet(h)')
      /\ FailedSet(h) \subseteq FailedSet(h)'
  <2>1. FailedSet(h) \subseteq Requests /\ FailedSet(h)' \subseteq Requests
    BY DEF FailedSet
  <2>2. FailedSet(h) \subseteq FailedSet(h)'
    BY FailedFrame DEF FailedSet
  <2> QED
    BY <2>1, <2>2, FS_Subset
<1>2. /\ Cardinality(FailedSet(h)) \in Nat /\ Cardinality(FailedSet(h)') \in Nat
      /\ Cardinality(FailedSet(h)) <= Cardinality(FailedSet(h)')
      /\ Attempts(h) \in Nat
  BY <1>0, <1>1, FS_CardinalityType, FS_Subset DEF Attempts, TxMapRecord
<1>3. CASE Attempts(h)' \in {0, Attempts(h)}
  BY <1>0, <1>2, <1>3
<1>4. ASSUME NEW r \in Requests, PersistFailed(r), Attempts(h)' = Attempts(h) + 1,
             hash[r] = h
      PROVE  Attempts(h)' <= Cardinality(FailedSet(h)')
  <2>1. r \in FailedSet(h)' /\ r \notin FailedSet(h)
    BY <1>4 DEF PersistFailed, Goto, FailedSet, Failed, Failing, control, submission, TypeInv,
                TypeOK, ControlFlow
  <2>2. /\ Cardinality(FailedSet(h) \cup {r}) = Cardinality(FailedSet(h)) + 1
        /\ IsFiniteSet(FailedSet(h) \cup {r})
    BY <1>1, <2>1, FS_AddElement
  <2>3. FailedSet(h) \cup {r} \subseteq FailedSet(h)'
    BY <1>1, <2>1
  <2>4. Cardinality(FailedSet(h) \cup {r}) <= Cardinality(FailedSet(h)')
    BY <1>1, <2>3, FS_Subset
  <2> QED
    BY <1>0, <1>2, <1>4, <2>2, <2>4
<1>5. ASSUME NEW r \in Requests, Writing(r), NEW state \in TxLifecycleState,
             NEW ref \in {None, result[r]}, NEW id \in {None, result[r]}, NEW code \in ErrorCode,
             NEW inc \in {0, 1}, inc = 0 \/ PersistFailed(r),
             Writes(r, Row(r, state, ref, id, code, inc))
      PROVE  Attempts(h)' <= Cardinality(FailedSet(h)')
  <2>1. CASE hash[r] = h
    <3>1. txMap'[h] = Row(r, state, ref, id, code, inc) /\ txMap'[h] # None
      BY <1>0, <1>5, <2>1, RowIsSome DEF Writes
    <3>2. Attempts(h)' = Attempts(h) + inc
      BY <2>1, <3>1 DEF Row, Attempts
    <3> QED
      BY <1>2, <1>3, <1>4, <1>5, <2>1, <3>2
  <2>2. CASE hash[r] # h
    BY <1>0, <1>3, <1>5, <2>2 DEF Writes, Attempts
  <2> QED
    BY <2>1, <2>2
<1>6. ASSUME NEW p \in Profiles, OpenStore(p)
      PROVE  Attempts(h)' \in {0, Attempts(h)}
  BY <1>6, OpenKeepsRow DEF Attempts
<1>7. CASE txMap' = txMap
  BY <1>3, <1>7 DEF Attempts
<1> QED
  BY <1>3, <1>5, <1>6, <1>7, RowFrame DEF TxLifecycleState

(* Whatever fails, crashes, is pruned or wiped, a row never counts more    *)
(* attempts than requests for its hash failed.                             *)
THEOREM SpecAttemptsNotOvercounted ==
  ASSUME IsFiniteSet(Requests)
  PROVE  Spec => []AttemptsNotOvercounted
<1>1. Init => AttemptsNotOvercounted
  <2> SUFFICES ASSUME Init, NEW h \in Hashes
               PROVE  Attempts(h) <= Cardinality(FailedSet(h))
    BY DEF AttemptsNotOvercounted
  <2>1. FailedSet(h) = {} /\ Attempts(h) = 0
    BY DEF Init, StoreInit, FailedSet, Failed, Failing, Attempts
  <2> QED
    BY <2>1, FS_EmptySet
<1>2. TypeInv /\ AttemptsNotOvercounted /\ [Next]_vars => AttemptsNotOvercounted'
  BY OvercountStep
<1> QED
  BY <1>1, <1>2, TypeCorrect, PTL DEF Spec
=============================================================================
