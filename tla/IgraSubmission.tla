--------------------------- MODULE IgraSubmission ---------------------------
(***************************************************************************)
(* The request path together with its submitter.  IgraTransport leaves     *)
(* open what submit_payload does; here the request awaits the steps of     *)
(* KaspaSubmitter, and what L1 accepted is what became of the broadcasts.  *)
(* All requests share one UTXO cache: they are those of one transport and  *)
(* its clones, or of transports that were given the same submitter.        *)
(***************************************************************************)
EXTENDS IgraTransport

CONSTANT Keys \* cache keys: RPC URL, network and source address

VARIABLES
  cache, epoch, key, attempt, readEpoch, entries, broadcast, bumped,
  step,   \* per request: where its submission is
  answer  \* the result its submission is going to return

submitterVars ==
  <<cache, epoch, step, key, attempt, readEpoch, entries, broadcast, answer, bumped>>

systemVars == <<vars, submitterVars>>

Submitter == INSTANCE KaspaSubmitter WITH
  Submissions <- Requests, pc <- step, outcome <- answer

ASSUME SubmitterAssumption == None \notin Submitter!CachedUtxoSet

SystemInit == Init /\ Submitter!Init

-----------------------------------------------------------------------------
(* The store, the lock and the records: all but the submission. *)
PathStep(r) ==
  /\ pc[r] # "submit"
  /\ \/ \E h \in Hashes, p \in Handles : Start(r, h, p)
     \/ Advance(r)
     \/ Crash(r)
     \/ Abandon(r)
  /\ UNCHANGED submitterVars

(* What the node has accepted, and may still accept from an ended call, *)
(* and the broadcast whose payload nonce and id an Ok carries.           *)
OnL1 ==
  /\ sent' = [r \in Requests |-> Submitter!BroadcastsThat(r, "accepted")']
  /\ late' = [r \in Requests |-> Submitter!Late(r)']
  /\ result' = [r \in Requests |-> Submitter!Result(r)']

(* The operators named Mut... are plausible bugs, each placed before the   *)
(* definition it could have been; nothing but a mutation test uses them.   *)

(* Mutant: a failed submission does not return early. *)
MutReturn(r) ==
  /\ pc' = [pc EXCEPT ![r] = IF handle[r] = None THEN "done" ELSE "mined"]
  /\ outcome' = [outcome EXCEPT ![r] = answer'[r]]
  /\ UNCHANGED <<ordering, orphaned>>

(* The match on the result of submit_payload. *)
Return(r) ==
  /\ pc' = [pc EXCEPT ![r] =
       IF handle[r] = None THEN "done"
       ELSE IF answer'[r] = "ok" THEN "mined" ELSE "failed"]
  /\ outcome' = [outcome EXCEPT ![r] = answer'[r]]
  /\ UNCHANGED <<ordering, orphaned>>

(* The future of the request polls that of its submission. *)
Await(r) ==
  /\ pc[r] = "submit"
  /\ Submitter!Advance(r)
  /\ IF step'[r] = "done" THEN Return(r) ELSE UNCHANGED control
  /\ OnL1
  /\ UNCHANGED <<storeVars, now, opening, hash, handle, timing>>

NodeAccepts(r) ==
  /\ \E i \in Submitter!Attempts : Submitter!Accept(r, i)
  /\ OnL1
  /\ UNCHANGED <<storeVars, now, opening, control, hash, handle, timing>>

(* A request dropped in its submission takes the submission with it. *)
DropSubmission(r) ==
  /\ "crash" \in Faults
  /\ Goto(r, "submit", "gone")
  /\ IF step[r] = "idle" THEN UNCHANGED submitterVars ELSE Submitter!Drop(r)
  /\ OnL1
  /\ LeaveLoop(r)
  /\ leaseUntil' = [leaseUntil EXCEPT ![r] = 0]
  /\ orphaned' = orphaned \ {r}
  /\ UNCHANGED <<storeVars, now, opening, ordering, outcome, hash, handle>>

SystemNext ==
  \/ \E r \in Requests :
       PathStep(r) \/ Await(r) \/ NodeAccepts(r) \/ DropSubmission(r)
  \/ /\ Tick \/ \E p \in Profiles : OpenStore(p)
     /\ UNCHANGED submitterVars

SystemSpec == SystemInit /\ [][SystemNext]_systemVars

-----------------------------------------------------------------------------
(* Properties. *)

(* The submission that runs inside the path does nothing the path was not  *)
(* checked against: with the real submitter, the path is still the path of *)
(* IgraTransport, whose submission is two acceptances and a free answer.   *)
ImplementsPath == Spec

(* The table and the cache agree: when the table shows a transaction as    *)
(* broadcast, no set of its wallet in the cache was read before L1 had it, *)
(* unless a forced refresh stored the set.                                 *)
RecordedInCache ==
  cache # None /\ ~cache.forced =>
    \A h \in Hashes : txMap[h] # None /\ txMap[h].kaspaTxId # None =>
      LET r == txMap[h].correlation IN
      key[r] = cache.key => <<r, txMap[h].kaspaTxId>> \in cache.seen
=============================================================================
