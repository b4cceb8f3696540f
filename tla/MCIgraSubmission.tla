-------------------------- MODULE MCIgraSubmission --------------------------
(***************************************************************************)
(* Small instances of IgraSubmission: one transaction each of two senders  *)
(* that share the Kaspa wallet of the process, and so its UTXO cache.      *)
(***************************************************************************)
EXTENDS IgraSubmission, TLC

CONSTANTS alice, bob, a0, b0

MCSenderOf == [h \in Hashes |-> IF h = b0 THEN bob ELSE alice]

MCNonceOf == [h \in Hashes |-> 0]

(* Requests differ in nothing but their identity, and neither do the two  *)
(* senders, each taken with its transaction.                               *)
SystemSymmetry ==
  Permutations(Requests)
    \union {(a0 :> b0) @@ (b0 :> a0) @@ (alice :> bob) @@ (bob :> alice)}
=============================================================================
