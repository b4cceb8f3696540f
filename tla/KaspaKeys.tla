----------------------------- MODULE KaspaKeys -----------------------------
(***************************************************************************)
(* crates/igra/src/keys.rs: where the Kaspa signing key comes from and     *)
(* which network names are known.  A setting is abstracted to the class of *)
(* values the code tells apart; "missing" is Option::None.                 *)
(***************************************************************************)

Networks == {"missing", "blank", "unknown", "custom", "padded", "known"}

(* A private key "offCurve" is well-formed hex of no curve point's secret. *)
IgraKaspaWalletConfig ==
  [ private_key      : {"missing", "invalid", "offCurve", "ok"},
    mnemonic         : {"missing", "invalid", "ok"},
    keystore         : {"missing", "unreadable", "ok"},
    keystore_account : {"missing", "ok"},
    password         : {"missing", "wrong", "ok"} ]

(* The operators named Mut... are plausible bugs, each placed before the   *)
(* definition it could have been; nothing but a mutation test uses them.   *)

(* Mutant: custom is mapped to some network instead of being refused. *)
MutKnownNetwork(network) == network \in {"known", "custom"}

(* kaspa_network_descriptor compares the name as it is, blanks included. *)
KnownNetwork(network) == network = "known"

(* A keystore path wins over an account, and an account names a file only  *)
(* under a keystore directory.                                             *)
KeystoreOpens(wallet, hasKeystoresDir) ==
  /\ IF wallet.keystore # "missing"
       THEN wallet.keystore = "ok"
       ELSE wallet.keystore_account = "ok" /\ hasKeystoresDir
  /\ wallet.password = "ok"

(* The first source that is present decides, also when it is faulty. *)
ResolvesKaspaPrivateKey(wallet, hasKeystoresDir) ==
  \/ wallet.private_key \in {"offCurve", "ok"}
  \/ wallet.private_key = "missing" /\ wallet.mnemonic = "ok"
  \/ /\ wallet.private_key = "missing"
     /\ wallet.mnemonic = "missing"
     /\ KeystoreOpens(wallet, hasKeystoresDir)

(* kaspa_address_from_private_key needs a point on the curve. *)
HasKaspaAddress(wallet) == wallet.private_key # "offCurve"
=============================================================================
