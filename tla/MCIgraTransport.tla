-------------------------- MODULE MCIgraTransport --------------------------
(***************************************************************************)
(* Small instances of IgraTransport.  Two senders; alice has two signed    *)
(* transactions for nonce 0 (one replaces the other) and one for nonce 1,  *)
(* which is u64::MAX when MaxNonce is 1.                                   *)
(***************************************************************************)
EXTENDS IgraTransport, TLC

CONSTANTS alice, bob, a0, a0x, a1, b0

MCSenderOf == [h \in Hashes |-> IF h = b0 THEN bob ELSE alice]

MCNonceOf == [h \in Hashes |-> IF h = a1 THEN 1 ELSE 0]

(* Requests differ in nothing but their identity, *)
RequestSymmetry == Permutations(Requests)

(* and so do profiles: opening compares the stored one with the given one. *)
ProfileSymmetry == RequestSymmetry \union Permutations(Profiles)
=============================================================================
