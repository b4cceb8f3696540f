-------------------------- MODULE MCKaspaSubmitter --------------------------
(***************************************************************************)
(* Small instances of KaspaSubmitter.                                      *)
(***************************************************************************)
EXTENDS KaspaSubmitter, TLC

(* Submissions differ in nothing but their identity, and so do keys. *)
SubmitterSymmetry == Permutations(Submissions) \cup Permutations(Keys)
=============================================================================
