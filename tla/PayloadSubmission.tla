------------------------- MODULE PayloadSubmission -------------------------
(***************************************************************************)
(* What IgraPayloadSubmitter::submit_payload promises its caller: a call   *)
(* leads to at most two broadcasts; Ok names one that is on L1, and it is  *)
(* the last one; an error says nothing about L1, except that after a       *)
(* mining timeout there was no second broadcast; and one may still be      *)
(* accepted after the answer, or after the caller dropped the future.  The *)
(* request path relies on this contract and the submitter implements it.   *)
(***************************************************************************)
EXTENDS Integers

CONSTANTS
  Submissions,
  None  \* no result

VARIABLES
  phase,  \* per call: "none" before it, "open" while it runs, then its end
  sent,   \* its broadcasts that the node has accepted
  late,   \* those the node may accept after its end
  result  \* the broadcast its Ok names

submissionVars == <<phase, sent, late, result>>

Attempts == 0..1

Init ==
  /\ phase = [s \in Submissions |-> "none"]
  /\ sent = [s \in Submissions |-> {}]
  /\ late = [s \in Submissions |-> {}]
  /\ result = [s \in Submissions |-> None]

Enter(s, from, to) ==
  /\ phase[s] \in from
  /\ phase' = [phase EXCEPT ![s] = to]

(* Only these broadcasts have gone out, counting those still on their way. *)
LeaveWithin(s, gone) ==
  /\ sent[s] \subseteq gone
  /\ UNCHANGED sent
  /\ \E L \in SUBSET (gone \ sent[s]) : late' = [late EXCEPT ![s] = L]

Open(s) ==
  /\ Enter(s, {"none"}, "open")
  /\ UNCHANGED <<sent, late, result>>

Accept(s) ==
  \E i \in Attempts \ sent[s] :
    /\ \/ phase[s] = "open" /\ UNCHANGED late
       \/ i \in late[s] /\ late' = [late EXCEPT ![s] = @ \ {i}]
    /\ sent' = [sent EXCEPT ![s] = @ \cup {i}]
    /\ UNCHANGED <<phase, result>>

AnswerOk(s) ==
  /\ Enter(s, {"open"}, "ok")
  /\ \E i \in sent[s] :
       /\ LeaveWithin(s, 0..i)
       /\ result' = [result EXCEPT ![s] = i]

AnswerError(s) ==
  /\ Enter(s, {"open"}, "error")
  /\ LeaveWithin(s, Attempts)
  /\ UNCHANGED result

AnswerMiningTimeout(s) ==
  /\ Enter(s, {"open"}, "miningTimeout")
  /\ LeaveWithin(s, {0})
  /\ UNCHANGED result

(* The caller fails before it calls. *)
Refuse(s) ==
  /\ Enter(s, {"none"}, "error")
  /\ UNCHANGED <<sent, late, result>>

(* The caller goes away, before or during the call. *)
Drop(s) ==
  /\ \/ Enter(s, {"none"}, "gone") /\ UNCHANGED <<sent, late>>
     \/ Enter(s, {"open"}, "gone") /\ LeaveWithin(s, Attempts)
  /\ UNCHANGED result

Next ==
  \E s \in Submissions :
    \/ Open(s) \/ Accept(s) \/ AnswerOk(s) \/ AnswerError(s)
    \/ AnswerMiningTimeout(s) \/ Refuse(s) \/ Drop(s)

Spec == Init /\ [][Next]_submissionVars
=============================================================================
