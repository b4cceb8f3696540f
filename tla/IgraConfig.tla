----------------------------- MODULE IgraConfig -----------------------------
(***************************************************************************)
(* crates/igra/src/config.rs, and the guardrail of errors.rs that runs     *)
(* before a command: which configurations validate accepts, and the field  *)
(* it reports otherwise.  A setting is the class of values that validate   *)
(* or one of its later readers tells apart; "missing" is Option::None.     *)
(***************************************************************************)
EXTENDS Naturals, Sequences, KaspaKeys

(* "padded" is a good URL between blanks.  "notGrpc" is the URL of a Kaspa *)
(* node that does not begin with grpc:// but with another scheme validate  *)
(* takes.                                                                  *)
ElUrls == {"missing", "blank", "malformed", "otherScheme", "padded", "ok"}
KaspaUrls == ElUrls \cup {"notGrpc"}
Numbers == {"missing", "zero", "positive"}

(* "bare0x" is 0x with nothing behind it, "prefixed" is 0x and even hex,   *)
(* "upper0X" is 0X and even hex, "padded" is even hex between blanks.      *)
Prefixes ==
  { "missing", "blank", "bare0x", "odd", "notHex", "prefixed", "upper0X", "padded",
    "hex" }
Compressions == {"missing", "blank", "none", "zlib", "other"}

Config ==
  [ enabled                   : BOOLEAN,
    el_rpc_url                : ElUrls,
    kaspa_rpc_url             : KaspaUrls,
    expected_el_chain_id      : Numbers,
    kaspa_network             : Networks,
    tx_id_prefix              : Prefixes,
    el_receipt_timeout_secs   : Numbers,
    sender_lock_timeout_secs  : Numbers,
    mining_timeout_secs       : Numbers,
    completed_retention_hours : Numbers,
    failed_retention_hours    : Numbers,
    max_db_size_mb            : Numbers,
    payload_compression       : Compressions,
    kaspa_wallet              : IgraKaspaWalletConfig ]

(* The names in checks that do not pass, in the order of checks. *)
FirstFailing(checks, passed) ==
  LET failing == {i \in DOMAIN checks : checks[i] \notin passed} IN
  IF failing = {} THEN "ok"
  ELSE checks[CHOOSE i \in failing : \A j \in failing : i <= j]

-----------------------------------------------------------------------------
(* validate *)

ValidationOrder ==
  << "el_rpc_url", "kaspa_rpc_url", "expected_el_chain_id", "kaspa_network",
     "tx_id_prefix", "el_receipt_timeout_secs", "sender_lock_timeout_secs",
     "mining_timeout_secs", "completed_retention_hours",
     "failed_retention_hours", "max_db_size_mb", "payload_compression" >>

PositiveOpt == {"missing", "positive"}
SupportedCompression == {"missing", "blank", "none"}

(* Mutant: 0x alone passes for a hex prefix. *)
MutAccepted ==
  [ el_rpc_url                |-> {"ok", "padded"},
    kaspa_rpc_url             |-> {"ok", "padded", "notGrpc"},
    expected_el_chain_id      |-> {"positive"},
    kaspa_network             |-> {"known", "padded", "custom"},
    tx_id_prefix              |-> {"hex", "padded", "prefixed", "bare0x"},
    el_receipt_timeout_secs   |-> {"positive"},
    sender_lock_timeout_secs  |-> PositiveOpt,
    mining_timeout_secs       |-> PositiveOpt,
    completed_retention_hours |-> PositiveOpt,
    failed_retention_hours    |-> PositiveOpt,
    max_db_size_mb            |-> PositiveOpt,
    payload_compression       |-> SupportedCompression ]

(* Required fields are compared after trimming. *)
Accepted ==
  [ el_rpc_url                |-> {"ok", "padded"},
    kaspa_rpc_url             |-> {"ok", "padded", "notGrpc"},
    expected_el_chain_id      |-> {"positive"},
    kaspa_network             |-> {"known", "padded", "custom"},
    tx_id_prefix              |-> {"hex", "padded"},
    el_receipt_timeout_secs   |-> {"positive"},
    sender_lock_timeout_secs  |-> PositiveOpt,
    mining_timeout_secs       |-> PositiveOpt,
    completed_retention_hours |-> PositiveOpt,
    failed_retention_hours    |-> PositiveOpt,
    max_db_size_mb            |-> PositiveOpt,
    payload_compression       |-> SupportedCompression ]

(* "ok", or the first field at fault.  Nothing is checked when disabled,   *)
(* and the wallet is never checked.                                        *)
Validate(c) ==
  IF ~c.enabled THEN "ok"
  ELSE FirstFailing(ValidationOrder,
                    {f \in DOMAIN Accepted : c[f] \in Accepted[f]})

(* ensure_supported_igra_signer_flow *)
GuardrailError(c, unlocked, browser) ==
  IF Validate(c) # "ok" THEN Validate(c)
  ELSE IF c.enabled /\ (unlocked \/ browser) THEN "IGRA_SIG_001" ELSE "ok"

-----------------------------------------------------------------------------
(* normalize_hex_prefix trims, strips 0x and then makes it lower case, so  *)
(* that 0X becomes the 0x which only another call strips.                  *)
NormalizeHexPrefix(prefix) ==
  IF prefix \in {"blank", "bare0x"} THEN "empty"
  ELSE IF prefix \in {"prefixed", "padded", "hex"} THEN "hex"
  ELSE IF prefix = "upper0X" THEN "prefixed" ELSE prefix

NormalPrefixes == {"missing", "empty", "odd", "notHex", "prefixed", "hex"}
=============================================================================
