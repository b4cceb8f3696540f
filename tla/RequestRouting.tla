--------------------------- MODULE RequestRouting ---------------------------
(***************************************************************************)
(* What IgraTransport::call of crates/igra/src/transport.rs does with a    *)
(* JSON-RPC packet before any state changes: forward it to the execution   *)
(* layer, refuse it, or take it to Kaspa.                                  *)
(***************************************************************************)
EXTENDS Naturals, Sequences

(* "read" stands for every method the transport does not know;             *)
(* "eth_sendTransaction" for its Sync form too.                            *)
Methods ==
  { "eth_sendRawTransaction", "eth_sendRawTransactionSync", "eth_sendTransaction",
    "eth_maxPriorityFeePerGas", "eth_gasPrice", "read" }

(* The first parameter of a raw send: no hex string, no byte at all, an    *)
(* envelope by its first byte.  "undecodable" and "unsigned" begin like a  *)
(* supported envelope but fail the EIP-2718 decoding or the recovery of    *)
(* the signer.                                                             *)
RawTxs ==
  { "malformed", "empty", "undecodable", "unsigned", "legacy", "eip2930",
    "eip1559", "eip4844", "eip7702", "unknown" }

SignedEnvelopes == {"legacy", "eip2930", "eip1559"}
UnsupportedEnvelopes == {"eip4844", "eip7702", "unknown"}

Request == [ id : Nat, method : Methods, rawTx : RawTxs ]
Packet == [ batch : BOOLEAN, requests : Seq(Request) ]

IsPacket(packet) ==
  /\ packet \in Packet
  /\ packet.requests # <<>>
  /\ ~packet.batch => Len(packet.requests) = 1

RequestsOf(packet) == {packet.requests[i] : i \in DOMAIN packet.requests}

IsSingle(packet, method) ==
  ~packet.batch /\ packet.requests[1].method = method

(* The operators named Mut... are plausible bugs, each placed before the   *)
(* definition it could have been; nothing but a mutation test uses them.   *)

(* Mutant: the Sync form of the raw send is not known. *)
MutIsUnsupportedMethod(method) == method = "eth_sendTransaction"

IsUnsupportedMethod(method) ==
  method \in {"eth_sendTransaction", "eth_sendRawTransactionSync"}

(* request_rejection_reason, raw_tx_type and raw_tx_bytes *)
Rejected(request) ==
  \/ IsUnsupportedMethod(request.method)
  \/ /\ request.method = "eth_sendRawTransaction"
     /\ request.rawTx \in UnsupportedEnvelopes \cup {"malformed", "empty"}

(* raw_send_request: the signer and the nonce must be readable. *)
HasMetadata(request) == request.rawTx \in SignedEnvelopes

(* The fee estimate is answered with the gas price, under the same id. *)
FeeOverride(packet) ==
  [packet EXCEPT !.requests[1].method = "eth_gasPrice"]

Route(enabled, packet) ==
  IF ~enabled THEN "forward"
  ELSE IF IsSingle(packet, "eth_maxPriorityFeePerGas") THEN "override"
  ELSE IF \E request \in RequestsOf(packet) : Rejected(request) THEN "reject"
  ELSE IF ~IsSingle(packet, "eth_sendRawTransaction") THEN "forward"
  ELSE IF HasMetadata(packet.requests[1]) THEN "kaspa" ELSE "reject"
=============================================================================
