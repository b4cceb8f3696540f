----------------------- MODULE IgraSubmissionProofs -----------------------
(***************************************************************************)
(* Theorems about the request path composed with its submitter: the path   *)
(* is still that of IgraTransport, so that all that is proved of it holds  *)
(* of the composition, and the submitter is still that of KaspaSubmitter.  *)
(***************************************************************************)
EXTENDS IgraSubmission, IgraTransportProofs

Broadcast == {"unsent", "sent", "accepted"}
Unsent == {"idle", "load", "lookup", "fetch", "store", "build", "send"}
Over == {"done", "gone"}

Ready == {"store", "build", "bump", "clear", "send", "wait"}

(* What the step of a submission says of its other variables. *)
SubmissionFlow ==
  \A s \in Requests :
    /\ attempt[s] = 0 => broadcast[s][1] = "unsent"
    /\ step[s] \in {"idle", "lookup"} => attempt[s] = 0
    /\ step[s] \in Unsent \cup {"wait"} => answer[s] = "pending"
    /\ step[s] \in {"bump", "clear"} => answer[s] \in {"pending", "ok"}
    /\ step[s] = "done" => answer[s] # "pending"
    /\ step[s] \in Unsent => broadcast[s][attempt[s]] = "unsent"
    /\ step[s] \in {"bump", "clear"} /\ answer[s] = "pending"
         => broadcast[s][attempt[s]] = "unsent"
    /\ answer[s] = "ok" => broadcast[s][attempt[s]] = "accepted"
    /\ step[s] \in Ready => entries[s] # None

SubmissionInv == Submitter!TypeOK /\ Submitter!OwnEntries /\ SubmissionFlow

(* What a node accepted are transactions. *)
LEMMA AcceptedType ==
  ASSUME NEW k
  PROVE  Submitter!AcceptedFor(k) \in SUBSET Submitter!Transactions
  BY DEF Submitter!AcceptedFor

(* Every step keeps the type invariant. *)
LEMMA SubmissionStep ==
  SubmissionInv /\ [Submitter!Next]_(Submitter!vars) => SubmissionInv'
<1> SUFFICES ASSUME SubmissionInv, [Submitter!Next]_(Submitter!vars) PROVE SubmissionInv'
  OBVIOUS
<1> USE SubmitterAssumption DEF SubmissionInv, Submitter!TypeOK,
                                Submitter!OwnEntries, SubmissionFlow,
                                Submitter!Goto, Submitter!shared,
      Submitter!Control, Submitter!Attempts, Unsent, Ready
<1>1. ASSUME NEW s \in Requests, Submitter!Begin(s)
      PROVE  SubmissionInv'
  BY <1>1 DEF Submitter!Begin
<1>2. ASSUME NEW s \in Requests, Submitter!BeginError(s)
      PROVE  SubmissionInv'
  BY <1>2 DEF Submitter!BeginError, Submitter!Fail, Submitter!Forget
<1>3. ASSUME NEW s \in Requests, Submitter!LoadEpoch(s)
      PROVE  SubmissionInv'
  BY <1>3 DEF Submitter!LoadEpoch
<1>4. ASSUME NEW s \in Requests, Submitter!Hit(s)
      PROVE  SubmissionInv'
  BY <1>4 DEF Submitter!Hit
<1>5. ASSUME NEW s \in Requests, Submitter!Miss(s)
      PROVE  SubmissionInv'
  BY <1>5 DEF Submitter!Miss
<1>6. ASSUME NEW s \in Requests, Submitter!Fetch(s)
      PROVE  SubmissionInv'
  <2>1. PICK f \in Submitter!Funds :
          entries' = [entries EXCEPT ![s] =
            [key |-> key[s], funds |-> f, seen |-> Submitter!AcceptedFor(key[s]),
             bumped |-> bumped, forced |-> attempt[s] = 1]]
    BY <1>6 DEF Submitter!Fetch
  <2>2. entries'[s] \in Submitter!CachedUtxoSet /\ entries'[s].key = key[s]
    BY <2>1, AcceptedType DEF Submitter!CachedUtxoSet
  <2>3. entries' \in [Requests -> Submitter!CachedUtxoSet \cup {None}]
    BY <2>1, <2>2
  <2>4. \A q \in Requests : q # s => entries'[q] = entries[q]
    BY <2>1
  <2> QED
    BY <1>6, <2>2, <2>3, <2>4 DEF Submitter!Fetch
<1>7. ASSUME NEW s \in Requests, Submitter!FetchError(s)
      PROVE  SubmissionInv'
  BY <1>7 DEF Submitter!FetchError, Submitter!Fail, Submitter!Forget
<1>8. ASSUME NEW s \in Requests, Submitter!Store(s)
      PROVE  SubmissionInv'
  BY <1>8 DEF Submitter!Store
<1>9. ASSUME NEW s \in Requests, NEW from \in {"build", "wait"}, Submitter!Retry(s, from)
      PROVE  SubmissionInv'
  BY <1>9 DEF Submitter!Retry
<1>10. ASSUME NEW s \in Requests, Submitter!BuildError(s)
       PROVE  SubmissionInv'
  BY <1>10 DEF Submitter!BuildError, Submitter!Fail, Submitter!Forget
<1>11. ASSUME NEW s \in Requests, Submitter!MiningTimeout(s)
       PROVE  SubmissionInv'
  BY <1>11 DEF Submitter!MiningTimeout, Submitter!Fail, Submitter!Forget
<1>12. ASSUME NEW s \in Requests, Submitter!Build(s)
       PROVE  SubmissionInv'
  BY <1>12 DEF Submitter!Build
<1>13. ASSUME NEW s \in Requests, Submitter!Bump(s)
       PROVE  SubmissionInv'
  <2>1. bumped' \subseteq Submitter!Transactions
    BY <1>13 DEF Submitter!Bump, Submitter!Transactions
  <2> QED
    BY <1>13, <2>1 DEF Submitter!Bump
<1>14. ASSUME NEW s \in Requests, Submitter!Clear(s)
       PROVE  SubmissionInv'
  <2>1. CASE answer[s] = "pending"
    BY <1>14, <2>1 DEF Submitter!Clear
  <2>2. CASE answer[s] = "ok"
    <3>1. /\ cache' = None
          /\ step[s] = "clear" /\ step' = [step EXCEPT ![s] = "done"]
          /\ readEpoch' = [readEpoch EXCEPT ![s] = 0]
          /\ entries' = [entries EXCEPT ![s] = None]
          /\ UNCHANGED <<epoch, key, attempt, broadcast, answer, bumped>>
      BY <1>14, <2>2 DEF Submitter!Clear, Submitter!Forget
    <3>2. Submitter!TypeOK'
      BY <3>1
    <3>3. Submitter!OwnEntries'
      BY <3>1
    <3>4. SubmissionFlow'
      BY <2>2, <3>1
    <3> QED
      BY <3>2, <3>3, <3>4
  <2> QED
    BY <1>14, <2>1, <2>2 DEF Submitter!Clear
<1>15. ASSUME NEW s \in Requests, Submitter!Send(s)
       PROVE  SubmissionInv'
  BY <1>15 DEF Submitter!Send
<1>16. ASSUME NEW s \in Requests, NEW i \in Submitter!Attempts, Submitter!Accept(s, i)
       PROVE  SubmissionInv'
  BY <1>16 DEF Submitter!Accept
<1>17. ASSUME NEW s \in Requests, Submitter!SubmitOk(s)
       PROVE  SubmissionInv'
  BY <1>17 DEF Submitter!SubmitOk
<1>18. ASSUME NEW s \in Requests, Submitter!SubmitError(s)
       PROVE  SubmissionInv'
  BY <1>18 DEF Submitter!SubmitError, Submitter!Fail, Submitter!Forget
<1>19. ASSUME NEW s \in Requests, Submitter!Drop(s)
       PROVE  SubmissionInv'
  BY <1>19 DEF Submitter!Drop, Submitter!Forget
<1>20. CASE UNCHANGED Submitter!vars
  BY <1>20 DEF Submitter!vars
<1> QED
  BY <1>1, <1>2, <1>3, <1>4, <1>5, <1>6, <1>7, <1>8, <1>9, <1>10, <1>11, <1>12,
     <1>13, <1>14, <1>15, <1>16, <1>17, <1>18, <1>19, <1>20
     DEF Submitter!Next, Submitter!Advance, Submitter!RetryEmpty,
         Submitter!RetrySubmit

(* Polling a submission changes neither what L1 has accepted nor another   *)
(* submission, and an answer is backed by its broadcasts.                  *)
LEMMA AdvanceResult ==
  ASSUME SubmissionInv, NEW r \in Requests, Submitter!Advance(r)
  PROVE  /\ \A q \in Requests :
              /\ q # r => /\ step'[q] = step[q] /\ broadcast'[q] = broadcast[q]
                          /\ attempt'[q] = attempt[q] /\ answer'[q] = answer[q]
              /\ Submitter!BroadcastsThat(q, "accepted")' = Submitter!BroadcastsThat(q, "accepted")
         /\ step[r] \notin Over /\ step'[r] \notin {"idle", "gone"}
         /\ step'[r] = "done" =>
              /\ broadcast' = broadcast /\ attempt' = attempt
              /\ answer'[r] \in {"ok", "error", "miningTimeout"}
              /\ answer'[r] = "ok" => broadcast[r][attempt[r]] = "accepted"
              /\ answer'[r] = "miningTimeout" => broadcast[r][attempt[r]] = "unsent"
<1> USE DEF SubmissionInv, SubmissionFlow, Submitter!TypeOK, Submitter!Goto, Submitter!shared,
      Submitter!Control, Submitter!Attempts, Over
<1> DEFINE Others == \A q \in Requests : q # r =>
                       /\ step'[q] = step[q] /\ attempt'[q] = attempt[q]
                       /\ answer'[q] = answer[q]
<1>1. ASSUME NEW from \in {"idle", "fetch", "build", "wait"}, Submitter!Fail(r, from, "error")
      PROVE  /\ Others /\ step[r] \notin Over /\ step'[r] = "done"
             /\ broadcast' = broadcast /\ attempt' = attempt /\ answer'[r] = "error"
  BY <1>1 DEF Submitter!Fail
<1>2. CASE Submitter!MiningTimeout(r)
  <2>1. /\ Others /\ step[r] = "build" /\ step'[r] = "done"
        /\ broadcast' = broadcast /\ attempt' = attempt /\ answer'[r] = "miningTimeout"
    BY <1>2 DEF Submitter!MiningTimeout, Submitter!Fail
  <2>2. broadcast[r][attempt[r]] = "unsent"
    BY <2>1 DEF Unsent
  <2> QED
    BY <2>1, <2>2 DEF Submitter!BroadcastsThat
<1>3. CASE Submitter!Clear(r)
  <2>1. /\ Others /\ step[r] = "clear" /\ step'[r] \in {"done", "send"}
        /\ broadcast' = broadcast /\ attempt' = attempt /\ answer' = answer
        /\ step'[r] = "done" => answer[r] = "ok"
    BY <1>3 DEF Submitter!Clear
  <2> QED
    BY <2>1 DEF Submitter!BroadcastsThat
<1>4. CASE Submitter!Send(r)
  <2>1. Others /\ step[r] = "send" /\ step'[r] = "wait"
    BY <1>4 DEF Submitter!Send
  <2>2. /\ \A q \in Requests : q # r => broadcast'[q] = broadcast[q]
        /\ broadcast'[r] = [broadcast[r] EXCEPT ![attempt[r]] = "sent"]
        /\ broadcast[r][attempt[r]] = "unsent"
    BY <1>4, <2>1 DEF Submitter!Send, Unsent
  <2>3. \A q \in Requests : \A i \in Submitter!Attempts :
          broadcast'[q][i] = "accepted" <=> broadcast[q][i] = "accepted"
    BY <2>2
  <2> QED
    BY <2>1, <2>2, <2>3 DEF Submitter!BroadcastsThat
<1>5. ASSUME \/ Submitter!Begin(r) \/ Submitter!LoadEpoch(r) \/ Submitter!Hit(r)
             \/ Submitter!Miss(r) \/ Submitter!Fetch(r) \/ Submitter!Store(r)
             \/ Submitter!Build(r) \/ Submitter!Bump(r) \/ Submitter!SubmitOk(r)
             \/ \E from \in {"build", "wait"} : Submitter!Retry(r, from)
      PROVE  /\ Others /\ step[r] \notin Over /\ step'[r] \notin {"idle", "done", "gone"}
             /\ broadcast' = broadcast
  BY <1>5 DEF Submitter!Begin, Submitter!LoadEpoch, Submitter!Hit, Submitter!Miss,
              Submitter!Fetch, Submitter!Store, Submitter!Build, Submitter!Bump,
              Submitter!SubmitOk, Submitter!Retry
<1>6. ASSUME broadcast' = broadcast
      PROVE  \A q \in Requests :
               Submitter!BroadcastsThat(q, "accepted")' = Submitter!BroadcastsThat(q, "accepted")
  BY <1>6 DEF Submitter!BroadcastsThat
<1> QED
  BY <1>1, <1>2, <1>3, <1>4, <1>5, <1>6
     DEF Submitter!Advance, Submitter!BeginError, Submitter!FetchError, Submitter!BuildError,
         Submitter!SubmitError, Submitter!RetryEmpty, Submitter!RetrySubmit

(* Which broadcasts an attempt may have behind it: those up to it, and     *)
(* only those before it as long as its own is not sent.                    *)
LEMMA BroadcastRange ==
  ASSUME SubmissionInv, NEW r \in Requests
  PROVE  /\ Submitter!BroadcastsThat(r, "accepted") \subseteq 0..attempt[r]
         /\ Submitter!BroadcastsThat(r, "sent")
              \in SUBSET ((0..attempt[r]) \ Submitter!BroadcastsThat(r, "accepted"))
         /\ broadcast[r][attempt[r]] = "unsent"
              => /\ Submitter!BroadcastsThat(r, "accepted") \subseteq {0}
                 /\ Submitter!BroadcastsThat(r, "sent")
                      \in SUBSET ({0} \ Submitter!BroadcastsThat(r, "accepted"))
         /\ broadcast[r][attempt[r]] = "accepted"
              => attempt[r] \in Submitter!BroadcastsThat(r, "accepted")
         /\ 0..attempt[r] \subseteq Broadcasts
<1>1. attempt[r] = 0 \/ attempt[r] = 1
  BY DEF SubmissionInv, Submitter!TypeOK, Submitter!Attempts
<1>2. attempt[r] = 0 => broadcast[r][1] = "unsent"
  BY DEF SubmissionInv, SubmissionFlow
<1>3. \A i \in Submitter!Attempts : i = 0 \/ i = 1
  BY DEF Submitter!Attempts
<1> QED
  BY <1>1, <1>2, <1>3 DEF Submitter!BroadcastsThat, Submitter!Attempts, Broadcasts

-----------------------------------------------------------------------------
(* The coupling of the two: what the path sees on L1 is what became of the *)
(* broadcasts, and a submission runs exactly while its request awaits it.  *)

BeforeSubmission == {"idle", "replacement", "unsigned"} \cup BeforeLock \cup PollLoop

Coupled ==
  /\ sent = [r \in Requests |-> Submitter!BroadcastsThat(r, "accepted")]
  /\ late = [r \in Requests |-> Submitter!Late(r)]
  /\ result = [r \in Requests |-> Submitter!Result(r)]
  /\ \A r \in Requests :
       /\ pc[r] \in BeforeSubmission => step[r] = "idle"
       /\ pc[r] = "submit" => step[r] \notin Over
       /\ step[r] \notin {"idle"} \cup Over => pc[r] = "submit"

SystemInv == TypeInv /\ SubmissionInv /\ Coupled

(* The invariant holds at the start. *)
LEMMA SystemInitInv == SystemInit => SystemInv
<1> SUFFICES ASSUME SystemInit PROVE SystemInv
  OBVIOUS
<1>1. SubmissionInv
  BY DEF SystemInit, Submitter!Init, SubmissionInv, SubmissionFlow, Submitter!TypeOK,
         Submitter!OwnEntries, Submitter!Control, Submitter!Attempts, Unsent, Ready
<1>2. \A r \in Requests :
        /\ Submitter!BroadcastsThat(r, "accepted") = {} /\ Submitter!Late(r) = {}
        /\ Submitter!Result(r) = None /\ step[r] = "idle"
  BY DEF SystemInit, Submitter!Init, Submitter!BroadcastsThat, Submitter!Late, Submitter!Result,
         Submitter!Attempts
<1>3. Coupled
  BY <1>2 DEF SystemInit, Init, Coupled, Over
<1> QED
  BY <1>1, <1>3, InitTypeInv DEF SystemInv, SystemInit

(* Outside of the submission, a step of the path leaves L1 alone and comes *)
(* to the submission only from before it.                                  *)
LEMMA PathMoves ==
  ASSUME TypeInv, NEW r \in Requests, PathStep(r)
  PROVE  /\ UNCHANGED <<sent, late, result>>
         /\ \A q \in Requests : q # r => pc'[q] = pc[q]
         /\ pc'[r] \in BeforeSubmission \cup {"submit"} => pc[r] \in BeforeSubmission
<1> DEFINE Moves ==
      /\ UNCHANGED <<sent, late, result>>
      /\ \A q \in Requests : q # r => pc'[q] = pc[q]
      /\ pc'[r] \in BeforeSubmission \cup {"submit"} => pc[r] \in BeforeSubmission
<1> USE DEF Goto, submission, control, TypeInv, TypeOK, BeforeSubmission, BeforeLock, PollLoop
<1>0. pc[r] # "submit"
  BY DEF PathStep
<1>1. ASSUME NEW h \in Hashes, NEW p \in Handles, Start(r, h, p)
      PROVE  Moves
  BY <1>1 DEF Start
<1>2. ASSUME \/ PersistReceived(r) \/ BeginLock(r) \/ Poll(r) \/ PollTimeout(r)
             \/ Grant(r) \/ RefuseGap(r) \/ TryAgain(r) \/ LockError(r)
      PROVE  Moves
  BY <1>2 DEF PersistReceived, BeginLock, Poll, PollTimeout, Grant, RefuseGap, TryAgain,
              LockError, AfterLock
<1>3. ASSUME \/ PersistBlocked(r) \/ PersistReplacement(r) \/ PersistUnsigned(r)
             \/ PersistMined(r) \/ PersistSigned(r) \/ PersistBroadcasted(r)
             \/ MarkSubmitted(r) \/ PersistFailed(r) \/ Release(r)
      PROVE  Moves
  BY <1>3 DEF PersistBlocked, PersistReplacement, PersistUnsigned, PersistMined, PersistSigned,
              PersistBroadcasted, MarkSubmitted, PersistFailed, Release
<1>4. ASSUME Crash(r) \/ Abandon(r)
      PROVE  Moves
  BY <1>0, <1>4 DEF Crash, Abandon
<1>5. ~SubmitOk(r) /\ ~SubmitErr(r)
  BY <1>0 DEF SubmitOk, SubmitErr
<1> QED
  BY <1>1, <1>2, <1>3, <1>4, <1>5 DEF PathStep, Advance

(* Such a step is one of IgraTransport and keeps the coupling. *)
LEMMA PathStepOk ==
  ASSUME SystemInv, NEW r \in Requests, PathStep(r)
  PROVE  Next /\ SubmissionInv' /\ Coupled'
<1>1. Next
  BY DEF PathStep, Next
<1>2. SubmissionInv'
  BY SubmissionStep DEF PathStep, submitterVars, SystemInv, Submitter!vars, Submitter!shared
<1>3. UNCHANGED <<step, broadcast, attempt, answer>>
  BY DEF PathStep, submitterVars
<1>4. UNCHANGED <<sent, late, result>>
  BY PathMoves DEF SystemInv
<1>5. /\ sent' = [q \in Requests |-> Submitter!BroadcastsThat(q, "accepted")']
      /\ late' = [q \in Requests |-> Submitter!Late(q)']
      /\ result' = [q \in Requests |-> Submitter!Result(q)']
  BY <1>3, <1>4 DEF SystemInv, Coupled, Submitter!BroadcastsThat, Submitter!Late, Submitter!Result
<1>6. ASSUME NEW q \in Requests
      PROVE  /\ pc'[q] \in BeforeSubmission => step'[q] = "idle"
             /\ pc'[q] = "submit" => step'[q] \notin Over
             /\ step'[q] \notin {"idle"} \cup Over => pc'[q] = "submit"
  BY <1>3, PathMoves DEF SystemInv, Coupled, PathStep, Over
<1> QED
  BY <1>1, <1>2, <1>5, <1>6 DEF Coupled

(* Of the others, the path and L1 see nothing. *)
LEMMA LateFrame ==
  ASSUME NEW r \in Requests, Coupled, OnL1,
         \A q \in Requests : q # r =>
           /\ step'[q] = step[q] /\ broadcast'[q] = broadcast[q]
           /\ attempt'[q] = attempt[q] /\ answer'[q] = answer[q]
  PROVE  /\ sent' = [sent EXCEPT ![r] = Submitter!BroadcastsThat(r, "accepted")']
         /\ late' = [late EXCEPT ![r] = Submitter!Late(r)']
         /\ result' = [result EXCEPT ![r] = Submitter!Result(r)']
<1>1. \A q \in Requests : q # r =>
        /\ Submitter!BroadcastsThat(q, "accepted")' = Submitter!BroadcastsThat(q, "accepted")
        /\ Submitter!Late(q)' = Submitter!Late(q)
        /\ Submitter!Result(q)' = Submitter!Result(q)
  BY DEF Submitter!BroadcastsThat, Submitter!Late, Submitter!Result
<1> QED
  BY <1>1 DEF OnL1, Coupled

(* What is left on its way when a submission ends is what it broadcast and *)
(* the node has not accepted.                                              *)
LEMMA LeftInFlight ==
  ASSUME "late" \in Faults, NEW r \in Requests, NEW gone,
         sent[r] \subseteq gone, NEW L \in SUBSET (gone \ sent[r]),
         late' = [late EXCEPT ![r] = L]
  PROVE  LeaveInFlight(r, gone)
  BY DEF LeaveInFlight

(* An answer of the submission is one the path was checked against. *)
LEMMA AwaitOk ==
  ASSUME {"retry", "late", "mining"} \subseteq Faults, SystemInv, NEW r \in Requests, Await(r)
  PROVE  [Next]_vars /\ SubmissionInv' /\ Coupled'
<1> DEFINE k == Submitter!BroadcastsThat(r, "sent")
<1>1. SubmissionInv'
  BY SubmissionStep DEF SystemInv, Await, Submitter!Next
<1>2. /\ \A q \in Requests : q # r =>
           /\ step'[q] = step[q] /\ broadcast'[q] = broadcast[q]
           /\ attempt'[q] = attempt[q] /\ answer'[q] = answer[q]
      /\ Submitter!BroadcastsThat(r, "accepted")' = Submitter!BroadcastsThat(r, "accepted")
      /\ step[r] \notin Over /\ step'[r] \notin {"idle", "gone"}
  BY AdvanceResult DEF SystemInv, Await
<1>3. /\ sent' = [sent EXCEPT ![r] = Submitter!BroadcastsThat(r, "accepted")]
      /\ late' = [late EXCEPT ![r] = Submitter!Late(r)']
      /\ result' = [result EXCEPT ![r] = Submitter!Result(r)']
  BY <1>2, LateFrame DEF SystemInv, Await
<1>4. /\ sent' = sent
      /\ sent[r] = Submitter!BroadcastsThat(r, "accepted")
      /\ late[r] = {}
      /\ result[r] = None
  BY <1>2, <1>3 DEF SystemInv, Coupled, Submitter!Late, Submitter!Result, Over
<1>5. /\ pc[r] = "submit"
      /\ \A q \in Requests : q # r => pc'[q] = pc[q]
      /\ step'[r] = "done" => pc'[r] \in {"done", "mined", "failed"}
      /\ step'[r] # "done" => pc'[r] = "submit"
  BY DEF Await, Return, control, SystemInv, TypeInv, TypeOK
<1>6. Coupled'
  BY <1>2, <1>5 DEF SystemInv, Coupled, Await, OnL1, Over, BeforeSubmission, BeforeLock, PollLoop
<1>7. CASE step'[r] # "done"
  <2>1. UNCHANGED <<late, result>>
    BY <1>2, <1>3, <1>4, <1>7
       DEF Submitter!Late, Submitter!Result, Over, SystemInv, TypeInv, TypeOK
  <2>2. UNCHANGED vars
    BY <1>4, <1>7, <2>1 DEF Await, vars, control, submission
  <2> QED
    BY <1>1, <1>6, <2>2
<1>8. CASE step'[r] = "done"
  <2>1. /\ broadcast' = broadcast /\ attempt' = attempt
        /\ answer'[r] \in {"ok", "error", "miningTimeout"}
        /\ answer'[r] = "ok" => broadcast[r][attempt[r]] = "accepted"
        /\ answer'[r] = "miningTimeout" => broadcast[r][attempt[r]] = "unsent"
    BY <1>8, AdvanceResult DEF SystemInv, Await
  <2>2. /\ Submitter!Late(r)' = k
        /\ Submitter!Result(r)' = IF answer'[r] = "ok" THEN attempt[r] ELSE None
    BY <1>8, <2>1 DEF Submitter!Late, Submitter!BroadcastsThat, Submitter!Result
  <2>3. /\ late' = [late EXCEPT ![r] = k]
        /\ result' = [result EXCEPT ![r] = IF answer'[r] = "ok" THEN attempt[r] ELSE None]
    BY <1>3, <2>2
  <2>4. /\ sent[r] \subseteq 0..attempt[r] /\ k \in SUBSET ((0..attempt[r]) \ sent[r])
        /\ answer'[r] = "ok" => attempt[r] \in sent[r]
        /\ answer'[r] = "miningTimeout" => sent[r] \subseteq {0} /\ k \in SUBSET ({0} \ sent[r])
        /\ 0..attempt[r] \subseteq Sendable
    BY <1>4, <2>1, BroadcastRange DEF SystemInv, Sendable
  <2> HIDE DEF k
  <2>5. Return(r)
    BY <1>8 DEF Await
  <2>6. CASE answer'[r] = "ok"
    <3>1. LeaveInFlight(r, 0..attempt[r])
      BY <2>3, <2>4, LeftInFlight
    <3>2. SubmitOk(r)
      BY <1>4, <1>5, <2>3, <2>4, <2>5, <2>6, <3>1 DEF SubmitOk, Goto, Return, Await
    <3> QED
      BY <1>1, <1>6, <3>2 DEF Next, Advance
  <2>7. CASE answer'[r] # "ok"
    <3>1. Goto(r, "submit", IF handle[r] = None THEN "done" ELSE "failed")
      BY <1>5, <2>5, <2>7 DEF Goto, Return
    <3>2. result' = result
      BY <1>4, <2>3, <2>7 DEF SystemInv, TypeInv, TypeOK
    <3>3. ASSUME answer'[r] = "error"
          PROVE  SubmitErr(r)
      <4>1. LeaveInFlight(r, Sendable)
        BY <2>3, <2>4, LeftInFlight
      <4> QED
        BY <1>4, <2>5, <3>1, <3>2, <3>3, <4>1 DEF SubmitErr, Return, Await
    <3>4. ASSUME answer'[r] = "miningTimeout"
          PROVE  SubmitErr(r)
      <4>1. LeaveInFlight(r, {0})
        BY <2>3, <2>4, <3>4, LeftInFlight
      <4> QED
        BY <1>4, <2>5, <3>1, <3>2, <3>4, <4>1 DEF SubmitErr, Return, Await
    <3>5. SubmitErr(r)
      BY <2>1, <2>7, <3>3, <3>4
    <3> QED
      BY <1>1, <1>6, <3>5 DEF Next, Advance
  <2> QED
    BY <2>6, <2>7
<1> QED
  BY <1>7, <1>8

(* An acceptance is one the path was checked against. *)
LEMMA NodeAcceptsOk ==
  ASSUME "retry" \in Faults, SystemInv, NEW r \in Requests, NodeAccepts(r)
  PROVE  Next /\ SubmissionInv' /\ Coupled'
<1>1. PICK i \in Submitter!Attempts : Submitter!Accept(r, i)
  BY DEF NodeAccepts
<1>2. SubmissionInv'
  BY <1>1, SubmissionStep DEF SystemInv, Submitter!Next
<1>3. /\ UNCHANGED <<step, pc, attempt, answer>>
      /\ broadcast[r] \in [Submitter!Attempts -> Broadcast]
      /\ broadcast[r][i] = "sent"
      /\ broadcast'[r] = [broadcast[r] EXCEPT ![i] = "accepted"]
      /\ \A q \in Requests : q # r => broadcast'[q] = broadcast[q]
  BY <1>1 DEF Submitter!Accept, NodeAccepts, control, SystemInv, SubmissionInv,
              Submitter!TypeOK, Broadcast
<1>4. /\ Submitter!BroadcastsThat(r, "accepted")'
           = Submitter!BroadcastsThat(r, "accepted") \cup {i}
      /\ Submitter!BroadcastsThat(r, "sent")' = Submitter!BroadcastsThat(r, "sent") \ {i}
      /\ i \in Submitter!BroadcastsThat(r, "sent")
      /\ i \notin Submitter!BroadcastsThat(r, "accepted")
  BY <1>3 DEF Submitter!BroadcastsThat, Broadcast
<1>5. /\ sent' = [sent EXCEPT ![r] = Submitter!BroadcastsThat(r, "accepted")']
      /\ late' = [late EXCEPT ![r] = Submitter!Late(r)']
      /\ result' = [result EXCEPT ![r] = Submitter!Result(r)']
  BY <1>3, LateFrame DEF SystemInv, NodeAccepts
<1>6. /\ sent[r] = Submitter!BroadcastsThat(r, "accepted") /\ late[r] = Submitter!Late(r)
      /\ result[r] = Submitter!Result(r) /\ Submitter!Result(r)' = Submitter!Result(r)
  BY <1>3 DEF SystemInv, Coupled, Submitter!Result
<1>7. /\ i \in Sendable \ sent[r]
      /\ sent' = [sent EXCEPT ![r] = @ \cup {i}]
      /\ result' = result
  BY <1>4, <1>5, <1>6
     DEF Sendable, Broadcasts, Submitter!Attempts, SystemInv, TypeInv, TypeOK
<1>8. step[r] # "idle"
  BY <1>3 DEF SystemInv, SubmissionInv, SubmissionFlow, Unsent, Submitter!Attempts
<1>9. \/ pc[r] = "submit" /\ UNCHANGED late
      \/ i \in late[r] /\ late' = [late EXCEPT ![r] = @ \ {i}]
  <2>1. CASE step[r] \in Over
    BY <1>3, <1>4, <1>5, <1>6, <2>1 DEF Submitter!Late, Over
  <2>2. CASE step[r] \notin Over
    <3>1. pc[r] = "submit"
      BY <1>8, <2>2 DEF SystemInv, Coupled
    <3>2. Submitter!Late(r)' = late[r]
      BY <1>3, <1>6, <2>2 DEF Submitter!Late, Over
    <3> QED
      BY <1>5, <3>1, <3>2 DEF SystemInv, TypeInv, TypeOK
  <2> QED
    BY <2>1, <2>2
<1>10. Land(r)
  BY <1>7, <1>9 DEF Land, NodeAccepts
<1>11. Coupled'
  BY <1>3 DEF SystemInv, Coupled, NodeAccepts, OnL1, BeforeSubmission
<1> QED
  BY <1>2, <1>10, <1>11 DEF Next

(* A drop is one the path was checked against. *)
LEMMA DropSubmissionOk ==
  ASSUME {"retry", "late"} \subseteq Faults, SystemInv, NEW r \in Requests, DropSubmission(r)
  PROVE  Next /\ SubmissionInv' /\ Coupled'
<1> DEFINE k == Submitter!Late(r)'
<1>1. SubmissionInv' /\ UNCHANGED <<broadcast, attempt, answer>>
  <2>1. CASE Submitter!Drop(r)
    BY <2>1, SubmissionStep DEF SystemInv, Submitter!Next, Submitter!Drop
  <2>2. CASE UNCHANGED submitterVars
    BY <2>2, SubmissionStep
       DEF SystemInv, submitterVars, Submitter!vars, Submitter!shared
  <2> QED
    BY <2>1, <2>2 DEF DropSubmission
<1>2. /\ \A q \in Requests : q # r => step'[q] = step[q]
      /\ step'[r] = "gone" \/ (step'[r] = "idle" /\ step[r] = "idle")
      /\ step[r] \notin Over
  BY DEF DropSubmission, Submitter!Drop, submitterVars, SystemInv, SubmissionInv,
         Submitter!TypeOK, Coupled, Over, Goto
<1>3. /\ sent' = [sent EXCEPT ![r] = Submitter!BroadcastsThat(r, "accepted")']
      /\ late' = [late EXCEPT ![r] = k]
      /\ result' = [result EXCEPT ![r] = Submitter!Result(r)']
  BY <1>1, <1>2, LateFrame DEF SystemInv, DropSubmission
<1>4. /\ sent' = sent /\ sent[r] = Submitter!BroadcastsThat(r, "accepted")
      /\ result' = result
  <2>1. Submitter!Result(r) = None /\ Submitter!Result(r)' = None
    BY <1>2 DEF Submitter!Result, Over
  <2>2. result \in [Requests -> Broadcasts \cup {None}] /\ result[r] = None
    BY <2>1 DEF SystemInv, Coupled, TypeInv, TypeOK
  <2>3. result' = result
    BY <1>3, <2>1, <2>2
  <2>4. Submitter!BroadcastsThat(r, "accepted")' = Submitter!BroadcastsThat(r, "accepted")
    BY <1>1 DEF Submitter!BroadcastsThat
  <2> QED
    BY <1>3, <2>3, <2>4 DEF SystemInv, Coupled
<1>5. sent[r] \subseteq Sendable /\ k \in SUBSET (Sendable \ sent[r])
  <2>1. k = {} \/ k = Submitter!BroadcastsThat(r, "sent")
    BY <1>1 DEF Submitter!Late, Submitter!BroadcastsThat
  <2> QED
    BY <1>4, <2>1, BroadcastRange DEF SystemInv, Sendable
<1>6. LeaveInFlight(r, Sendable)
  BY <1>3, <1>5, LeftInFlight
<1>7. Crash(r)
  BY <1>4, <1>6 DEF DropSubmission, Crash, Goto, Ended
<1>8. Coupled'
  BY <1>2 DEF SystemInv, TypeInv, TypeOK, Coupled, DropSubmission, Goto, OnL1, Over,
              BeforeSubmission, BeforeLock, PollLoop
<1> QED
  BY <1>1, <1>7, <1>8 DEF Next

(* Every step of the composition is one of IgraTransport, or invisible to  *)
(* it, and keeps the invariant.                                            *)
LEMMA SystemStep ==
  ASSUME {"retry", "late", "mining"} \subseteq Faults, SystemInv, [SystemNext]_systemVars
  PROVE  [Next]_vars /\ SystemInv'
<1> DEFINE Good == [Next]_vars /\ SubmissionInv' /\ Coupled'
<1>1. ASSUME NEW r \in Requests, PathStep(r) PROVE Good
  BY <1>1, PathStepOk
<1>2. ASSUME NEW r \in Requests, Await(r) PROVE Good
  BY <1>2, AwaitOk
<1>3. ASSUME NEW r \in Requests, NodeAccepts(r) PROVE Good
  BY <1>3, NodeAcceptsOk
<1>4. ASSUME NEW r \in Requests, DropSubmission(r) PROVE Good
  BY <1>4, DropSubmissionOk
<1>5. ASSUME UNCHANGED <<submitterVars, pc, sent, late, result>>
      PROVE  SubmissionInv' /\ Coupled'
  BY <1>5, SubmissionStep
     DEF SystemInv, Coupled, submitterVars, Submitter!vars, Submitter!shared,
         Submitter!BroadcastsThat, Submitter!Late, Submitter!Result
<1>6. ASSUME Tick \/ \E p \in Profiles : OpenStore(p), UNCHANGED submitterVars
      PROVE  Good
  <2>1. Next /\ UNCHANGED <<pc, sent, late, result>>
    BY <1>6 DEF Next, Tick, OpenStore, control, submission
  <2> QED
    BY <1>5, <1>6, <2>1
<1>7. ASSUME UNCHANGED systemVars PROVE Good
  <2>1. UNCHANGED vars /\ UNCHANGED submitterVars
    BY <1>7 DEF systemVars
  <2>2. UNCHANGED <<pc, sent, late, result>>
    BY <2>1 DEF vars, control, submission
  <2>3. SubmissionInv' /\ Coupled'
    BY <1>5, <2>1, <2>2
  <2>4. [Next]_vars
    BY <2>1
  <2> QED
    BY <2>3, <2>4
<1>8. ASSUME SystemNext PROVE Good
  <2> HIDE DEF Good
  <2> QED
    BY <1>1, <1>2, <1>3, <1>4, <1>6, <1>8 DEF SystemNext
<1>9. Good
  BY <1>7, <1>8
<1>10. TypeInv'
  BY <1>9, TypeInvStep DEF SystemInv
<1> QED
  BY <1>9, <1>10 DEF SystemInv

(* Composed with the real submitter, the path is the path of IgraTransport *)
(* under any lateness: what its own model leaves open of submit_payload    *)
(* is all that InProcessKaspaPayloadSubmitter can do to it.                *)
THEOREM SystemImplementsPath ==
  ASSUME {"retry", "late", "mining"} \subseteq Faults
  PROVE  SystemSpec => ImplementsPath
<1>1. SystemInit => Init
  BY DEF SystemInit
<1>2. SystemInv /\ [SystemNext]_systemVars => [Next]_vars /\ SystemInv'
  BY SystemStep
<1> QED
  BY <1>1, <1>2, SystemInitInv, PTL DEF SystemSpec, Spec, ImplementsPath

(* So the path keeps what is proved of it when the submissions really run: *)
(* no nonce of a wallet is skipped, broadcast out of order or held twice,  *)
(* the rows that say so have their transaction on L1, and the nonces of    *)
(* every wallet follow the abstract ledger.                                *)
THEOREM SystemKeepsPath ==
  ASSUME {"retry", "late", "mining"} \subseteq Faults
  PROVE  SystemSpec =>
           /\ []NoSkippedNonce /\ []BroadcastInOrder /\ []LeaseExclusion
           /\ []RecordedOnL1 /\ ImplementsLedger
BY SystemImplementsPath, SpecNoSkippedNonce, SpecBroadcastInOrder, SpecLeaseExclusion,
   SpecRecordedOnL1, SpecImplementsLedger, PTL DEF ImplementsPath

-----------------------------------------------------------------------------
(* Every step of the composition is one of the submitter, or invisible to  *)
(* it: no request disturbs the submission of another.                      *)
LEMMA SubmitterStep ==
  [SystemNext]_systemVars => [Submitter!Next]_(Submitter!vars)
<1> SUFFICES ASSUME [SystemNext]_systemVars PROVE [Submitter!Next]_(Submitter!vars)
  OBVIOUS
<1>1. ASSUME NEW r \in Requests, Await(r)
      PROVE  Submitter!Next
  BY <1>1 DEF Await, Submitter!Next
<1>2. ASSUME NEW r \in Requests, NodeAccepts(r)
      PROVE  Submitter!Next
  BY <1>2 DEF NodeAccepts, Submitter!Next
<1>3. ASSUME NEW r \in Requests, DropSubmission(r)
      PROVE  UNCHANGED submitterVars \/ Submitter!Next
  BY <1>3 DEF DropSubmission, Submitter!Next
<1>4. ASSUME NEW r \in Requests, PathStep(r)
      PROVE  UNCHANGED submitterVars
  BY <1>4 DEF PathStep
<1>5. UNCHANGED systemVars => UNCHANGED submitterVars
  BY DEF systemVars
<1>6. UNCHANGED submitterVars => UNCHANGED Submitter!vars
  BY DEF submitterVars, Submitter!vars, Submitter!shared
<1> QED
  BY <1>1, <1>2, <1>3, <1>4, <1>5, <1>6 DEF SystemNext

(* Composed with the path, the submitter is the one of KaspaSubmitter.     *)
THEOREM SystemImplementsSubmitter == SystemSpec => Submitter!Spec
<1>1. SystemInit => Submitter!Init
  BY DEF SystemInit
<1> QED
  BY <1>1, SubmitterStep, PTL DEF SystemSpec, Submitter!Spec

-----------------------------------------------------------------------------
(* AnsweredInCache for the requests of a process.  The argument is that of *)
(* KaspaSubmitterProofs; tlapm cannot use the theorems of a module that is *)
(* instantiated, so it is made again for the variables of the composition. *)

Bumped(q) == answer[q] = "ok" /\ step[q] \in {"clear", "done"}

Knows(set, q) == key[q] = set.key => <<q, attempt[q]>> \in set.seen

CacheInv ==
  /\ Submitter!AnsweredInCache
  /\ \A s \in Requests :
       /\ readEpoch[s] <= epoch
       /\ step[s] = "store" => (entries[s].forced <=> attempt[s] = 1)
       /\ step[s] = "store" /\ readEpoch[s] = epoch
            => \A q \in Requests : Bumped(q) => Knows(entries[s], q)

(* A step that neither invalidates nor fills the cache, nor reads the node *)
(* or the epoch, only has to leave the bumped submissions alone.           *)
LEMMA CacheFrame ==
  ASSUME SubmissionInv, CacheInv, UNCHANGED <<Submitter!shared, key>>,
         \A s \in Requests :
           /\ Bumped(s)' => Bumped(s) /\ step[s]' = step[s] /\ attempt[s]' = attempt[s]
           /\ step[s]' = "store" =>
                step[s] = "store" /\ entries[s]' = entries[s] /\ attempt[s]' = attempt[s]
           /\ readEpoch[s]' = readEpoch[s] \/ (readEpoch[s]' = 0 /\ step[s]' # "store")
  PROVE  CacheInv'
<1>1. Submitter!AnsweredInCache'
  BY DEF CacheInv, Submitter!AnsweredInCache, Bumped, Submitter!shared
<1>2. ASSUME NEW s \in Requests, step'[s] = "store"
      PROVE  step[s] = "store" /\ entries'[s] = entries[s] /\ attempt'[s] = attempt[s]
  BY <1>2
<1>3. \A s, q \in Requests :
        step'[s] = "store" /\ Bumped(q)' /\ Knows(entries[s], q) => Knows(entries[s], q)'
  BY <1>2 DEF Knows
<1>4. \A s \in Requests :
       /\ readEpoch'[s] <= epoch'
       /\ step'[s] = "store" => (entries'[s].forced <=> attempt'[s] = 1)
  BY <1>2 DEF CacheInv, Submitter!shared, SubmissionInv, Submitter!TypeOK
<1>5. ASSUME NEW s \in Requests, step'[s] = "store", readEpoch'[s] = epoch',
             NEW q \in Requests, Bumped(q)'
      PROVE  Knows(entries[s], q)'
  BY <1>2, <1>3, <1>5 DEF CacheInv, Submitter!shared
<1> QED
  BY <1>1, <1>4, <1>5 DEF CacheInv

(* A reader whose epoch is current has seen all that was answered Ok. *)
LEMMA CacheInvStep ==
  SubmissionInv /\ CacheInv /\ [Submitter!Next]_(Submitter!vars) => CacheInv'
<1> SUFFICES ASSUME SubmissionInv, CacheInv, [Submitter!Next]_(Submitter!vars) PROVE CacheInv'
  OBVIOUS
<1> USE DEF Submitter!Goto, Bumped
<1>1. ASSUME NEW s \in Requests,
             Submitter!Begin(s) \/ Submitter!Hit(s) \/ Submitter!Miss(s) \/ Submitter!Build(s)
      PROVE  CacheInv'
  <2>1. \A q \in Requests : q # s => step'[q] = step[q] /\ entries'[q] = entries[q]
    BY <1>1 DEF Submitter!Begin, Submitter!Hit, Submitter!Miss, Submitter!Build,
                SubmissionInv, Submitter!TypeOK
  <2>2. step'[s] \in {"load", "build", "fetch", "bump"}
    BY <1>1 DEF Submitter!Begin, Submitter!Hit, Submitter!Miss, Submitter!Build,
                SubmissionInv, Submitter!TypeOK
  <2> QED
    BY <1>1, <2>1, <2>2, CacheFrame DEF Submitter!Begin, Submitter!Hit,
                                        Submitter!Miss, Submitter!Build
<1>2. ASSUME NEW s \in Requests, NEW from \in {"idle", "fetch", "build", "wait"},
             NEW error \in {"error", "miningTimeout"}, Submitter!Fail(s, from, error)
      PROVE  CacheInv'
  <2>1. \A q \in Requests : q # s => step'[q] = step[q] /\ answer'[q] = answer[q]
    BY <1>2 DEF Submitter!Fail, SubmissionInv, Submitter!TypeOK
  <2>2. step'[s] = "done" /\ answer'[s] = error
    BY <1>2 DEF Submitter!Fail, SubmissionInv, Submitter!TypeOK
  <2>3. \A q \in Requests :
          /\ readEpoch'[q] = readEpoch[q] \/ (readEpoch'[q] = 0 /\ step'[q] # "store")
          /\ q # s => entries'[q] = entries[q]
    BY <1>2, <2>2 DEF Submitter!Fail, Submitter!Forget, SubmissionInv,
                      Submitter!TypeOK
  <2> QED
    BY <1>2, <2>1, <2>2, <2>3, CacheFrame DEF Submitter!Fail
<1>3. ASSUME NEW s \in Requests, NEW from \in {"build", "wait"}, Submitter!Retry(s, from)
      PROVE  CacheInv'
  <2>1. \A q \in Requests : q # s => step'[q] = step[q] /\ attempt'[q] = attempt[q]
    BY <1>3 DEF Submitter!Retry, SubmissionInv, Submitter!TypeOK
  <2>2. step'[s] = "load"
    BY <1>3 DEF Submitter!Retry, SubmissionInv, Submitter!TypeOK
  <2> QED
    BY <1>3, <2>1, <2>2, CacheFrame DEF Submitter!Retry
<1>4. ASSUME NEW s \in Requests, Submitter!LoadEpoch(s)
      PROVE  CacheInv'
  <2>1. \A q \in Requests :
          q # s => step'[q] = step[q] /\ readEpoch'[q] = readEpoch[q]
    BY <1>4 DEF Submitter!LoadEpoch, SubmissionInv, Submitter!TypeOK
  <2>2. step'[s] \in {"lookup", "fetch"} /\ readEpoch'[s] = epoch
    BY <1>4 DEF Submitter!LoadEpoch, SubmissionInv, Submitter!TypeOK
  <2> QED
    BY <1>4, <2>1, <2>2
       DEF Submitter!LoadEpoch, CacheInv, Submitter!AnsweredInCache, Knows,
           SubmissionInv, Submitter!TypeOK, Submitter!shared
<1>5. ASSUME NEW s \in Requests, Submitter!Fetch(s)
      PROVE  CacheInv'
  <2>1. PICK f \in Submitter!Funds :
          entries' = [entries EXCEPT ![s] =
            [key |-> key[s], funds |-> f, seen |-> Submitter!AcceptedFor(key[s]),
             bumped |-> bumped, forced |-> attempt[s] = 1]]
    BY <1>5 DEF Submitter!Fetch
  <2>2. /\ entries'[s].seen = Submitter!AcceptedFor(key[s])
        /\ entries'[s].key = key[s]
        /\ entries'[s].forced <=> attempt[s] = 1
    BY <2>1 DEF SubmissionInv, Submitter!TypeOK
  <2>3. \A q \in Requests : q # s => step'[q] = step[q] /\ entries'[q] = entries[q]
    BY <1>5, <2>1 DEF Submitter!Fetch, SubmissionInv, Submitter!TypeOK
  <2>4. ASSUME NEW q \in Requests, Bumped(q)
        PROVE  Knows(entries[s], q)'
    <3>1. broadcast[q][attempt[q]] = "accepted" /\ attempt[q] \in Submitter!Attempts
      BY <2>4 DEF SubmissionInv, Submitter!TypeOK, SubmissionFlow
    <3>2. key[q] = key[s] => <<q, attempt[q]>> \in Submitter!AcceptedFor(key[s])
      BY <3>1 DEF Submitter!AcceptedFor, Submitter!Transactions
    <3> QED
      BY <1>5, <2>2, <3>2 DEF Knows, Submitter!Fetch
  <2>5. step'[s] = "store"
    BY <1>5 DEF Submitter!Fetch, SubmissionInv, Submitter!TypeOK
  <2>6. \A q \in Requests : Bumped(q)' => Bumped(q)
    BY <1>5, <2>3, <2>5 DEF Submitter!Fetch
  <2>7. \A q, t \in Requests :
          q # s /\ Knows(entries[q], t) => Knows(entries[q], t)'
    BY <1>5, <2>3 DEF Submitter!Fetch, Knows
  <2>8. Submitter!AnsweredInCache'
    BY <1>5, <2>6, <2>3, <2>5 DEF CacheInv, Submitter!AnsweredInCache,
                                  Submitter!Fetch, Submitter!shared
  <2> QED
    BY <1>5, <2>2, <2>3, <2>4, <2>6, <2>7, <2>8 DEF CacheInv, Submitter!Fetch,
                                                    Submitter!shared
<1>6. ASSUME NEW s \in Requests, Submitter!Store(s)
      PROVE  CacheInv'
  <2>1. \A q \in Requests : q # s => step'[q] = step[q]
    BY <1>6 DEF Submitter!Store, SubmissionInv, Submitter!TypeOK
  <2>2. step[s] = "store" /\ step'[s] = "build"
    BY <1>6 DEF Submitter!Store, SubmissionInv, Submitter!TypeOK
  <2>3. Submitter!AnsweredInCache'
    <3>1. CASE attempt[s] = 1
      BY <1>6, <2>2, <3>1 DEF Submitter!Store, CacheInv, Submitter!AnsweredInCache
    <3>2. CASE attempt[s] # 1 /\ epoch = readEpoch[s]
      BY <1>6, <2>1, <2>2, <3>2 DEF Submitter!Store, CacheInv,
                                    Submitter!AnsweredInCache, Knows
    <3>3. CASE attempt[s] # 1 /\ epoch # readEpoch[s]
      BY <1>6, <2>1, <2>2, <3>3 DEF Submitter!Store, CacheInv,
                                    Submitter!AnsweredInCache
    <3> QED
      BY <3>1, <3>2, <3>3
  <2> QED
    BY <1>6, <2>1, <2>2, <2>3 DEF Submitter!Store, CacheInv, Knows
<1>7. ASSUME NEW s \in Requests, Submitter!Bump(s)
      PROVE  CacheInv'
  <2>1. \A q \in Requests : q # s => step'[q] = step[q]
    BY <1>7 DEF Submitter!Bump, SubmissionInv, Submitter!TypeOK
  <2>2. step'[s] = "clear"
    BY <1>7 DEF Submitter!Bump, SubmissionInv, Submitter!TypeOK
  <2>3. \A q \in Requests : readEpoch'[q] < epoch'
    BY <1>7 DEF Submitter!Bump, CacheInv, SubmissionInv, Submitter!TypeOK
  <2> QED
    BY <1>7, <2>1, <2>2, <2>3 DEF Submitter!Bump, CacheInv,
                                  Submitter!AnsweredInCache, SubmissionInv,
                                  Submitter!TypeOK
<1>8. ASSUME NEW s \in Requests, Submitter!Clear(s)
      PROVE  CacheInv'
  <2>1. \A q \in Requests : q # s => step'[q] = step[q]
    BY <1>8 DEF Submitter!Clear, SubmissionInv, Submitter!TypeOK
  <2>2. step[s] = "clear" /\ step'[s] \in {"done", "send"}
    BY <1>8 DEF Submitter!Clear, SubmissionInv, Submitter!TypeOK
  <2>3. \A q \in Requests : Bumped(q)' => Bumped(q)
    BY <1>8, <2>1, <2>2 DEF Submitter!Clear
  <2>4. \A q \in Requests :
          /\ readEpoch'[q] <= epoch
          /\ q # s => readEpoch'[q] = readEpoch[q] /\ entries'[q] = entries[q]
    BY <1>8 DEF Submitter!Clear, Submitter!Forget, CacheInv, SubmissionInv,
                Submitter!TypeOK
  <2> QED
    BY <1>8, <2>1, <2>2, <2>3, <2>4 DEF Submitter!Clear, CacheInv,
                                        Submitter!AnsweredInCache, Knows
<1>9. ASSUME NEW s \in Requests, Submitter!Send(s)
      PROVE  CacheInv'
  <2>1. \A q \in Requests : q # s => step'[q] = step[q]
    BY <1>9 DEF Submitter!Send, SubmissionInv, Submitter!TypeOK
  <2>2. step'[s] = "wait"
    BY <1>9 DEF Submitter!Send, SubmissionInv, Submitter!TypeOK
  <2> QED
    BY <1>9, <2>1, <2>2, CacheFrame DEF Submitter!Send
<1>10. ASSUME NEW s \in Requests, NEW i \in Submitter!Attempts, Submitter!Accept(s, i)
       PROVE  CacheInv'
  BY <1>10, CacheFrame DEF Submitter!Accept
<1>11. ASSUME NEW s \in Requests, Submitter!SubmitOk(s)
       PROVE  CacheInv'
  <2>1. \A q \in Requests : q # s => step'[q] = step[q] /\ answer'[q] = answer[q]
    BY <1>11 DEF Submitter!SubmitOk, SubmissionInv, Submitter!TypeOK
  <2>2. step'[s] = "bump"
    BY <1>11 DEF Submitter!SubmitOk, SubmissionInv, Submitter!TypeOK
  <2> QED
    BY <1>11, <2>1, <2>2, CacheFrame DEF Submitter!SubmitOk
<1>12. ASSUME NEW s \in Requests, Submitter!Drop(s)
       PROVE  CacheInv'
  <2>1. \A q \in Requests : q # s => step'[q] = step[q]
    BY <1>12 DEF Submitter!Drop, SubmissionInv, Submitter!TypeOK
  <2>2. step'[s] = "gone"
    BY <1>12 DEF Submitter!Drop, SubmissionInv, Submitter!TypeOK
  <2>3. \A q \in Requests :
          /\ readEpoch'[q] = readEpoch[q] \/ (readEpoch'[q] = 0 /\ step'[q] # "store")
          /\ q # s => entries'[q] = entries[q]
    BY <1>12, <2>2 DEF Submitter!Drop, Submitter!Forget, SubmissionInv,
                       Submitter!TypeOK
  <2> QED
    BY <1>12, <2>1, <2>2, <2>3, CacheFrame DEF Submitter!Drop
<1>13. CASE UNCHANGED Submitter!vars
  BY <1>13, CacheFrame DEF Submitter!vars
<1> QED
  BY <1>1, <1>2, <1>3, <1>4, <1>5, <1>6, <1>7, <1>8, <1>9, <1>10, <1>11, <1>12,
     <1>13
     DEF Submitter!Next, Submitter!Advance, Submitter!BeginError,
         Submitter!FetchError, Submitter!BuildError, Submitter!MiningTimeout,
         Submitter!SubmitError,
         Submitter!RetryEmpty, Submitter!RetrySubmit

-----------------------------------------------------------------------------
(* RecordedInCache: a row with a Kaspa id belongs to a request whose       *)
(* submission ended with Ok.                                               *)

AnsweredOk(r) == step[r] = "done" /\ answer[r] = "ok"

RecordInv ==
  /\ \A r \in Requests : outcome[r] = "ok" => AnsweredOk(r)
  /\ RowsInv

(* What a submission has answered, it has answered for good. *)
LEMMA DoneStays ==
  ASSUME SubmissionInv, [Submitter!Next]_(Submitter!vars),
         NEW r \in Requests, AnsweredOk(r)
  PROVE  AnsweredOk(r)'
<1> USE DEF AnsweredOk, SubmissionInv, Submitter!TypeOK, Submitter!Goto
<1>1. ASSUME NEW s \in Requests, NEW from \in {"idle", "fetch", "build", "wait"},
             NEW error \in {"error", "miningTimeout"}, Submitter!Fail(s, from, error)
      PROVE  AnsweredOk(r)'
  BY <1>1 DEF Submitter!Fail
<1>2. ASSUME NEW s \in Requests,
             \/ Submitter!Begin(s) \/ Submitter!LoadEpoch(s) \/ Submitter!Hit(s)
             \/ Submitter!Miss(s) \/ Submitter!Fetch(s) \/ Submitter!Store(s)
             \/ Submitter!Build(s) \/ Submitter!Bump(s) \/ Submitter!SubmitOk(s)
             \/ Submitter!Clear(s) \/ Submitter!Send(s) \/ Submitter!Drop(s)
             \/ \E from \in {"build", "wait"} : Submitter!Retry(s, from)
             \/ \E i \in Submitter!Attempts : Submitter!Accept(s, i)
      PROVE  AnsweredOk(r)'
  BY <1>2 DEF Submitter!Begin, Submitter!LoadEpoch, Submitter!Hit, Submitter!Miss,
     Submitter!Fetch, Submitter!Store, Submitter!Build, Submitter!Bump, Submitter!SubmitOk,
     Submitter!Clear, Submitter!Send, Submitter!Drop, Submitter!Retry, Submitter!Accept
<1>3. CASE UNCHANGED Submitter!vars
  BY <1>3 DEF Submitter!vars
<1> QED
  BY <1>1, <1>2, <1>3
     DEF Submitter!Next, Submitter!Advance, Submitter!BeginError, Submitter!FetchError,
         Submitter!BuildError, Submitter!MiningTimeout, Submitter!SubmitError,
         Submitter!RetryEmpty, Submitter!RetrySubmit

(* Only the return of the submission answers a request with Ok. *)
LEMMA OkFromSubmission ==
  ASSUME SystemInv, [SystemNext]_systemVars, NEW r \in Requests, outcome'[r] = "ok"
  PROVE  outcome[r] = "ok" \/ AnsweredOk(r)'
<1>0. outcome \in [Requests -> Outcome]
  BY DEF SystemInv, TypeInv, TypeOK
<1>1. ASSUME NEW q \in Requests, Await(q)
      PROVE  outcome[r] = "ok" \/ AnsweredOk(r)'
  <2>1. \/ outcome' = outcome
        \/ step'[q] = "done" /\ outcome' = [outcome EXCEPT ![q] = answer'[q]]
    BY <1>1 DEF Await, Return, control
  <2> QED
    BY <1>0, <2>1 DEF AnsweredOk
<1>2. ASSUME NEW q \in Requests, PathStep(q)
      PROVE  outcome[r] = "ok"
  <2>1. \/ outcome' = outcome
        \/ outcome' = [outcome EXCEPT ![q] = "error"]
    BY <1>2 DEF PathStep, Start, Advance, Crash, Abandon, PersistReceived, BeginLock, Poll,
       PollTimeout, Grant, RefuseGap, TryAgain, LockError, PersistBlocked,
       PersistReplacement, PersistUnsigned, PersistMined, PersistSigned,
       PersistBroadcasted, MarkSubmitted, PersistFailed, Release, SubmitOk, SubmitErr, Goto
  <2> QED
    BY <1>0, <2>1
<1>3. ASSUME NEW q \in Requests, NodeAccepts(q) \/ DropSubmission(q)
      PROVE  outcome' = outcome
  BY <1>3 DEF NodeAccepts, DropSubmission, control
<1>4. CASE Tick \/ (\E p \in Profiles : OpenStore(p)) \/ UNCHANGED systemVars
  BY <1>4 DEF Tick, OpenStore, systemVars, vars, control
<1> QED
  BY <1>1, <1>2, <1>3, <1>4 DEF SystemNext

(* Every step keeps the rows backed by answers. *)
LEMMA RecordInvStep ==
  ASSUME {"retry", "late", "mining"} \subseteq Faults, SystemInv, RecordInv,
         [SystemNext]_systemVars
  PROVE  RecordInv'
<1>1. TypeInv /\ SubmissionInv /\ [Next]_vars /\ [Submitter!Next]_(Submitter!vars)
  BY SystemStep, SubmitterStep DEF SystemInv
<1>2. ASSUME NEW r \in Requests, outcome'[r] = "ok"
      PROVE  AnsweredOk(r)'
  BY <1>1, <1>2, OkFromSubmission, DoneStays DEF RecordInv
<1>3. RowsInv'
  BY <1>1, RowsInvStep DEF RecordInv
<1> QED
  BY <1>2, <1>3 DEF RecordInv

(* When the table shows a transaction as broadcast, no set of its wallet   *)
(* in the cache was read before L1 had it, unless a forced refresh stored  *)
(* the set.                                                                *)
THEOREM SystemRecordedInCache ==
  ASSUME {"retry", "late", "mining"} \subseteq Faults
  PROVE  SystemSpec => []RecordedInCache
<1>1. SystemInit => CacheInv /\ RecordInv
  BY DEF SystemInit, Init, StoreInit, Submitter!Init, CacheInv, RecordInv, RowsInv,
         Submitter!AnsweredInCache
<1>2. SystemInv /\ CacheInv /\ RecordInv /\ [SystemNext]_systemVars
        => SystemInv' /\ CacheInv' /\ RecordInv'
  BY SystemStep, SubmitterStep, CacheInvStep, RecordInvStep DEF SystemInv
<1>3. SystemInv /\ CacheInv /\ RecordInv => RecordedInCache
  <2> SUFFICES ASSUME SystemInv, CacheInv, RecordInv, cache # None, ~cache.forced,
                      NEW h \in Hashes, txMap[h] # None, txMap[h].kaspaTxId # None,
                      key[txMap[h].correlation] = cache.key
               PROVE  <<txMap[h].correlation, txMap[h].kaspaTxId>> \in cache.seen
    BY DEF RecordedInCache
  <2> DEFINE r == txMap[h].correlation
  <2>1. r \in Requests
    BY DEF SystemInv, TypeInv, TypeOK, StoreTypeOK, TxMapRecord
  <2>2. outcome[r] = "ok" /\ txMap[h].kaspaTxId = result[r]
    <3>1. RowOfAnswer(txMap[h])
      BY DEF RecordInv, RowsInv
    <3>2. txMap[h].payloadNonce # None
      BY <3>1 DEF RowOfAnswer
    <3> QED
      BY <3>1, <3>2 DEF RowOfAnswer
  <2>3. AnsweredOk(r)
    BY <2>1, <2>2 DEF RecordInv
  <2>4. result[r] = attempt[r]
    BY <2>1, <2>3 DEF SystemInv, Coupled, Submitter!Result, AnsweredOk
  <2>5. <<r, attempt[r]>> \in cache.seen
    BY <2>1, <2>3 DEF CacheInv, Submitter!AnsweredInCache, AnsweredOk
  <2> QED
    BY <2>2, <2>4, <2>5
<1> QED
  BY <1>1, <1>2, <1>3, SystemInitInv, PTL DEF SystemSpec
=============================================================================
