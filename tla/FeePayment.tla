----------------------------- MODULE FeePayment -----------------------------
(***************************************************************************)
(* What a Kaspa transaction built for a payload pays, whatever way its     *)
(* inputs are found: it spends as few inputs as can pay the fee and leave  *)
(* the minimal change, gives the rest back, and is refused only if no      *)
(* choice of inputs could pay.  While it is mined, change may be given up  *)
(* one unit at a time.                                                     *)
(***************************************************************************)
EXTENDS Integers, FiniteSets, FiniteSetsExt

CONSTANTS ExtraInputFee, MinChange

VARIABLES
  offered,    \* sequence of UTXOs
  firstFee,   \* the fee of a transaction with one input
  status,     \* "open", "paid" or "refused"
  inputs,     \* the indices of the UTXOs that are spent
  change

paymentVars == <<offered, firstFee, status, inputs, change>>

Sum(S) == MapThenSumSet(LAMBDA i : offered[i].amount, S)
Fee(S) == firstFee + (Cardinality(S) - 1) * ExtraInputFee

(* The sets of inputs that pay. *)
PayingInputs ==
  {S \in SUBSET (DOMAIN offered) : S # {} /\ Sum(S) >= Fee(S) + MinChange}

Init ==
  /\ status = "open"
  /\ inputs = {}
  /\ change = 0

(* A new attempt begins, from whatever is offered then. *)
Offer ==
  /\ status' = "open"
  /\ inputs' = {}
  /\ change' = 0

Pay ==
  /\ status = "open"
  /\ \E S \in PayingInputs :
       /\ \A T \in PayingInputs : Cardinality(S) <= Cardinality(T)
       /\ inputs' = S
       /\ change' = Sum(S) - Fee(S)
  /\ status' = "paid"
  /\ UNCHANGED <<offered, firstFee>>

Shave ==
  /\ status = "paid"
  /\ change > 0
  /\ change' = change - 1
  /\ UNCHANGED <<offered, firstFee, status, inputs>>

Refuse ==
  /\ status = "open"
  /\ PayingInputs = {}
  /\ status' = "refused"
  /\ UNCHANGED <<offered, firstFee, inputs, change>>

Next == Offer \/ Pay \/ Shave \/ Refuse

Spec == Init /\ [][Next]_paymentVars
=============================================================================
