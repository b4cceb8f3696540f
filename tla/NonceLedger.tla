---------------------------- MODULE NonceLedger ----------------------------
(***************************************************************************)
(* What the request path and the store promise about nonces, with no       *)
(* locks, clocks, requests or rows: per sender the nonces that L1 accepted *)
(* and the range first..next-1 the counter claims to have seen.  The       *)
(* counter starts anywhere, moves by one and only over an accepted nonce,  *)
(* and is forgotten only for all senders together.                         *)
(***************************************************************************)
EXTENDS Integers

CONSTANTS Senders, MaxNonce, None

VARIABLES accepted, first, next

ledgerVars == <<accepted, first, next>>

Nonces == 0..MaxNonce

Init ==
  /\ accepted = [s \in Senders |-> {}]
  /\ first = [s \in Senders |-> None]
  /\ next = [s \in Senders |-> None]

Accept(s, n) ==
  /\ accepted' = [accepted EXCEPT ![s] = @ \cup {n}]
  /\ UNCHANGED <<first, next>>

(* The first nonce of a sender is taken as it comes. *)
Adopt(s, n) ==
  /\ next[s] = None
  /\ first' = [first EXCEPT ![s] = n]
  /\ next' = [next EXCEPT ![s] = n]
  /\ UNCHANGED accepted

(* The counter was forgotten while n was on its way and resumes behind it. *)
Resume(s, n) ==
  /\ next[s] = None
  /\ n \in accepted[s]
  /\ n < MaxNonce
  /\ first' = [first EXCEPT ![s] = n]
  /\ next' = [next EXCEPT ![s] = n + 1]
  /\ UNCHANGED accepted

Advance(s, n) ==
  /\ next[s] = n
  /\ n \in accepted[s]
  /\ n < MaxNonce
  /\ next' = [next EXCEPT ![s] = n + 1]
  /\ UNCHANGED <<accepted, first>>

Forget ==
  /\ first' = [s \in Senders |-> None]
  /\ next' = [s \in Senders |-> None]
  /\ UNCHANGED accepted

Next ==
  \/ \E s \in Senders, n \in Nonces :
       Accept(s, n) \/ Adopt(s, n) \/ Resume(s, n) \/ Advance(s, n)
  \/ Forget

Spec == Init /\ [][Next]_ledgerVars
=============================================================================
