--------------------------- MODULE MCIgraSession ---------------------------
(***************************************************************************)
(* A small instance of IgraSession.  The environments vary one dimension   *)
(* at a time around a session that can succeed, so that each dimension     *)
(* can be large.  The fees are those of payload.rs divided by a thousand.  *)
(***************************************************************************)
EXTENDS IgraSession, TLC

CONSTANTS r1, h1, h2, h3, s1, mainnet, testnet

MCSenderOf == [h \in Hashes |-> s1]
MCNonceOf == (h1 :> 0) @@ (h2 :> 0) @@ (h3 :> 1)

-----------------------------------------------------------------------------
(* Configurations: any two settings may be wrong together. *)

Wallet(privateKey) == [NoWallet EXCEPT !.private_key = privateKey]

GoodConfig ==
  [ enabled |-> TRUE, el_rpc_url |-> "ok", kaspa_rpc_url |-> "ok",
    expected_el_chain_id |-> "positive", kaspa_network |-> "known",
    tx_id_prefix |-> "hex", el_receipt_timeout_secs |-> "positive",
    sender_lock_timeout_secs |-> "missing", mining_timeout_secs |-> "missing",
    completed_retention_hours |-> "missing", failed_retention_hours |-> "missing",
    max_db_size_mb |-> "missing", payload_compression |-> "missing",
    kaspa_wallet |-> Wallet("ok") ]

FieldValues ==
  [ el_rpc_url |-> {"missing", "otherScheme", "padded"},
    kaspa_rpc_url |-> KaspaUrls,
    expected_el_chain_id |-> Numbers, kaspa_network |-> Networks,
    tx_id_prefix |-> Prefixes, el_receipt_timeout_secs |-> {"missing", "zero"},
    sender_lock_timeout_secs |-> {"zero"}, mining_timeout_secs |-> {"zero"},
    completed_retention_hours |-> {"zero"}, failed_retention_hours |-> {"zero"},
    max_db_size_mb |-> {"zero"}, payload_compression |-> Compressions ]

OneOff(c) ==
  UNION {{[c EXCEPT ![f] = v] : v \in FieldValues[f]} : f \in DOMAIN FieldValues}

Configs ==
  UNION {OneOff(c) : c \in OneOff(GoodConfig)} \cup
  {[c EXCEPT !.enabled = FALSE] : c \in OneOff(GoodConfig)}

Wallets ==
  [ private_key : {"missing", "invalid", "offCurve"},
    mnemonic : {"missing", "invalid", "ok"}, keystore : {"missing", "unreadable", "ok"},
    keystore_account : {"missing", "ok"}, password : {"missing", "wrong", "ok"} ]

-----------------------------------------------------------------------------
(* Packets: a single request or a batch of two. *)

Calls ==
  {[id |-> i, method |-> "eth_sendRawTransaction", rawTx |-> t] : i \in 1..2, t \in RawTxs}
  \cup {[id |-> i, method |-> m, rawTx |-> "empty"] :
          i \in 1..2, m \in Methods \ {"eth_sendRawTransaction"}}

Packets ==
  {[batch |-> b, requests |-> <<c>>] : b \in BOOLEAN, c \in {d \in Calls : d.id = 1}}
  \cup {[batch |-> TRUE, requests |-> <<c, d>>] :
          c \in {e \in Calls : e.id = 1}, d \in {e \in Calls : e.id = 2}}

RawSend ==
  [ batch |-> FALSE,
    requests |-> <<[id |-> 1, method |-> "eth_sendRawTransaction", rawTx |-> "eip1559"]>> ]

-----------------------------------------------------------------------------
(* Wallet reads: amounts at the boundaries of the fee of one to three      *)
(* inputs, equal amounts, dust that costs more than it brings, and a       *)
(* second read that differs.                                               *)

Utxos(amounts, first) ==
  [i \in DOMAIN amounts |-> [outpoint |-> first + i, amount |-> amounts[i]]]

Amounts ==
  { <<>>, <<220>>, <<221>>, <<223>>, <<241>>, <<242>>, <<5, 222>>, <<116, 116>>,
    <<115, 116>>, <<9, 115, 117>>, <<81, 81, 81>>, <<80, 81, 81>>, <<220, 10>>,
    <<220, 11>>, <<220, 12>>, <<1, 219, 10>>, <<200, 21, 21>>, <<90, 90, 62>> }

Reads ==
  {[a \in Attempt |-> Utxos(x, 0)] : x \in Amounts} \cup
  {[a \in Attempt |-> IF a = 0 THEN Utxos(x, 0) ELSE Utxos(y, 3)] :
     x \in {<<>>, <<222>>, <<116, 116>>}, y \in {<<>>, <<221>>, <<5, 116, 116>>}}

-----------------------------------------------------------------------------
(* Databases: three rows of any age around the retention periods. *)

Row(state) ==
  [ state |-> state, correlation |-> r1, profile |-> mainnet, payloadNonce |-> None,
    kaspaTxId |-> None, attempts |-> 0, lastErrorCode |-> "none" ]

NoRows ==
  [ txMap |-> [h \in Hashes |-> None], nextExpected |-> [s \in Senders |-> None],
    updatedAt |-> [h \in Hashes |-> 0], profile |-> mainnet, fileSize |-> EmptySize ]

Databases ==
  { [ txMap |-> (h1 :> Row(a)) @@ (h2 :> Row(b)) @@ (h3 :> Row(c)),
      nextExpected |-> [s \in Senders |-> 1],
      updatedAt |-> (h1 :> t) @@ (h2 :> u) @@ (h3 :> v),
      profile |-> p, fileSize |-> EmptySize + 3 ] :
    a \in {"KaspaBroadcasted"}, b \in {"FailedRecoverable"},
    c \in {"StaleReplacementCandidate", "ReceivedRawL2", "BlockedNonceGap"},
    t \in {3, 6}, u \in {3, 5, 8}, v \in {0, 7}, p \in {mainnet, testnet} }

-----------------------------------------------------------------------------
Base ==
  [ config |-> GoodConfig, guarded |-> TRUE, unlocked |-> FALSE, browser |-> FALSE,
    configured |-> TRUE, attach |-> "never", profile |-> mainnet,
    completedHours |-> 1, failedHours |-> 2, maxSize |-> EmptySize + 2,
    database |-> NoRows, packet |-> RawSend, rawLength |-> 3,
    reads |-> [a \in Attempt |-> Utxos(<<221>>, 0)] ]

StoreConfig ==
  [GoodConfig EXCEPT !.completed_retention_hours = "positive",
                     !.failed_retention_hours = "positive",
                     !.max_db_size_mb = "positive"]

Read == [RawSend EXCEPT !.requests[1].method = "read"]

MCEnvironments ==
  {[Base EXCEPT !.config = c, !.guarded = g] : c \in Configs, g \in BOOLEAN}
  \cup {[Base EXCEPT !.config.kaspa_wallet = w, !.guarded = g] : w \in Wallets, g \in BOOLEAN}
  \cup {[Base EXCEPT !.config.enabled = e, !.guarded = g, !.unlocked = u, !.browser = b] :
          e \in BOOLEAN, g \in BOOLEAN, u \in BOOLEAN, b \in BOOLEAN}
  \cup {[Base EXCEPT !.config.enabled = e, !.packet = p] : e \in BOOLEAN, p \in Packets}
  \cup {[Base EXCEPT !.rawLength = n, !.reads = w] : n \in {3, 4}, w \in Reads}
  \cup {[Base EXCEPT !.rawLength = n] : n \in {11, 12}}
  \cup {[Base EXCEPT !.configured = c, !.attach = a] :
          c \in BOOLEAN, a \in {"lenient", "strict"}}
  \cup {[Base EXCEPT !.config = StoreConfig, !.attach = "strict", !.packet = Read,
                     !.database = d, !.completedHours = c[1],
                     !.maxSize = EmptySize + c[2]] :
          d \in Databases, c \in {<<1, 1>>, <<1, 3>>, <<9, 1>>, <<20, 3>>}}
  \cup {[Base EXCEPT !.config.max_db_size_mb = "zero", !.attach = "lenient", !.packet = Read,
                     !.database = d] :
          d \in {e \in Databases : e.profile = mainnet}}
=============================================================================
