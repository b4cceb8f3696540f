--------------------------- MODULE PayloadBuilder ---------------------------
(***************************************************************************)
(* mine_and_build_signed_payload_transaction of crates/igra/src/payload.rs *)
(* and the fee estimate it uses: inputs are chosen largest first, then the *)
(* payload nonce is varied until the transaction id has the prefix.        *)
(*                                                                         *)
(* The transaction id is a function of the inputs, the output value and    *)
(* the nonce that nobody can predict: a candidate hits or misses freely    *)
(* the first time it is hashed, and as before from then on.  Amounts stay  *)
(* far below the 64 bits at which the sums of the code saturate.           *)
(***************************************************************************)
EXTENDS Integers, FiniteSets, Sequences

CONSTANTS
  BaseFee,        \* BASE_SUBMIT_FEE_SOMPI
  FeePerKib,      \* FEE_PER_KIB_SOMPI
  ExtraInputFee,  \* EXTRA_INPUT_FEE_SOMPI
  MinChange,      \* MIN_CHANGE_SOMPI
  Kib,            \* bytes in a KiB
  NonceRange      \* the number of values of the 4-byte payload nonce

ASSUME BuilderAssumption ==
  /\ BaseFee \in Nat
  /\ FeePerKib \in Nat
  /\ ExtraInputFee \in Nat
  /\ MinChange \in Nat \ {0}
  /\ Kib \in Nat \ {0}
  /\ NonceRange \in Nat \ {0}

VARIABLES
  build,    \* where the call is
  utxos,    \* the UTXOs it was given, in the order of the node's answer
  l2data,   \* the length of the L2 data in bytes
  picked,   \* selected: indices of utxos
  total,    \* total_input
  output,   \* the value of the one output
  nonce,    \* the payload nonce
  expired,  \* the mining timeout has elapsed
  tried,    \* history: the candidates of this call that missed
  misses,   \* history: the candidates of all calls that missed
  hits      \* history: the candidates of all calls that hit

builderVars ==
  <<build, utxos, l2data, picked, total, output, nonce, expired, tried, misses, hits>>

-----------------------------------------------------------------------------
Utxo == [ outpoint : Nat, amount : Nat ]

BuildStep == {"idle", "select", "mine", "sign", "built", "refused", "timeout", "unsigned"}

Transaction == [ inputs : SUBSET Utxo, output : Nat, nonce : Nat ]

BuilderTypeOK ==
  /\ build \in BuildStep
  /\ utxos \in Seq(Utxo)
  /\ l2data \in Nat
  /\ picked \subseteq DOMAIN utxos
  /\ total \in Nat
  /\ output \in Nat
  /\ nonce \in 0..(NonceRange - 1)
  /\ expired \in BOOLEAN
  /\ tried \subseteq Transaction
  /\ misses \subseteq Transaction
  /\ hits \subseteq Transaction

(* No call yet, for a raw transaction of n bytes. *)
BuilderInit(n) ==
  /\ build = "idle"
  /\ utxos = <<>>
  /\ l2data = n
  /\ picked = {}
  /\ total = 0
  /\ output = 0
  /\ nonce = 0
  /\ expired = FALSE
  /\ tried = {}
  /\ misses = {}
  /\ hits = {}

-----------------------------------------------------------------------------
(* build_payload_with_nonce: a header byte, the data and the nonce. *)
PayloadLength == 1 + l2data + 4

(* estimated_fee_sompi *)
EstimatedFee(inputs) ==
  BaseFee + ((PayloadLength + Kib - 1) \div Kib) * FeePerKib
          + (inputs - 1) * ExtraInputFee

(* The operators named Mut... are plausible bugs, each placed before the   *)
(* definition it could have been; nothing but a mutation test uses them.   *)

(* Mutant: the search starts from a random nonce. *)
MutBeginBuild(offer) ==
  /\ build' = "select"
  /\ utxos' = offer
  /\ picked' = {}
  /\ total' = 0
  /\ output' = 0
  /\ nonce' \in 0..(NonceRange - 1)
  /\ expired' = FALSE
  /\ tried' = {}
  /\ UNCHANGED <<l2data, misses, hits>>

BeginBuild(offer) ==
  /\ build' = "select"
  /\ utxos' = offer
  /\ picked' = {}
  /\ total' = 0
  /\ output' = 0
  /\ nonce' = 0
  /\ expired' = FALSE
  /\ tried' = {}
  /\ UNCHANGED <<l2data, misses, hits>>

Covered == total >= EstimatedFee(Cardinality(picked)) + MinChange

Rest == DOMAIN utxos \ picked

(* Mutant: the smallest UTXOs are spent first. *)
MutTake ==
  /\ build = "select"
  /\ picked = {} \/ ~Covered
  /\ \E i \in Rest :
       /\ \A j \in Rest : utxos[i].amount <= utxos[j].amount
       /\ picked' = picked \cup {i}
       /\ total' = total + utxos[i].amount
  /\ UNCHANGED <<build, utxos, l2data, output, nonce, expired, tried, misses, hits>>

(* One round of the selection: the sort is stable, so that the order of    *)
(* the answer decides between equal amounts.                               *)
Take ==
  /\ build = "select"
  /\ picked = {} \/ ~Covered
  /\ \E i \in Rest :
       /\ \A j \in Rest :
            \/ utxos[j].amount < utxos[i].amount
            \/ utxos[j].amount = utxos[i].amount /\ i <= j
       /\ picked' = picked \cup {i}
       /\ total' = total + utxos[i].amount
  /\ UNCHANGED <<build, utxos, l2data, output, nonce, expired, tried, misses, hits>>

Settle ==
  /\ build = "select"
  /\ picked # {}
  /\ Covered
  /\ build' = "mine"
  /\ output' = total - EstimatedFee(Cardinality(picked))
  /\ UNCHANGED <<utxos, l2data, picked, total, nonce, expired, tried, misses, hits>>

(* Insufficient UTXOs, when there is none to begin with too. *)
Refuse ==
  /\ build = "select"
  /\ Rest = {}
  /\ picked # {} => ~Covered
  /\ build' = "refused"
  /\ UNCHANGED <<utxos, l2data, picked, total, output, nonce, expired, tried, misses, hits>>

-----------------------------------------------------------------------------
Candidate ==
  [inputs |-> {utxos[i] : i \in picked}, output |-> output, nonce |-> nonce]

(* Mutant: a wrapped nonce changes nothing else. *)
MutMineMiss ==
  /\ build = "mine"
  /\ ~expired
  /\ Candidate \notin hits
  /\ tried' = tried \cup {Candidate}
  /\ misses' = misses \cup {Candidate}
  /\ nonce' = (nonce + 1) % NonceRange
  /\ UNCHANGED <<build, utxos, l2data, picked, total, output, expired, hits>>

(* Mutant: every miss costs one unit of change. *)
MutMineMissShaving ==
  /\ build = "mine"
  /\ ~expired
  /\ Candidate \notin hits
  /\ tried' = tried \cup {Candidate}
  /\ misses' = misses \cup {Candidate}
  /\ nonce' = (nonce + 1) % NonceRange
  /\ output' = IF output > 0 THEN output - 1 ELSE 0
  /\ UNCHANGED <<build, utxos, l2data, picked, total, expired, hits>>

(* Mutant: the loop does not look at the clock. *)
MutMineMissForever ==
  /\ build = "mine"
  /\ Candidate \notin hits
  /\ tried' = tried \cup {Candidate}
  /\ misses' = misses \cup {Candidate}
  /\ nonce' = (nonce + 1) % NonceRange
  /\ output' = IF nonce' = 0 /\ output > 0 THEN output - 1 ELSE output
  /\ UNCHANGED <<build, utxos, l2data, picked, total, expired, hits>>

(* Mutant: the subtraction does not stop at zero. *)
MutMineMissBelowZero ==
  /\ build = "mine"
  /\ ~expired
  /\ Candidate \notin hits
  /\ tried' = tried \cup {Candidate}
  /\ misses' = misses \cup {Candidate}
  /\ nonce' = (nonce + 1) % NonceRange
  /\ output' = IF nonce' = 0 THEN output - 1 ELSE output
  /\ UNCHANGED <<build, utxos, l2data, picked, total, expired, hits>>

(* A candidate without the prefix.  When the nonce wraps, one unit of the  *)
(* change is given up; the saturating subtraction stops at zero.           *)
MineMiss ==
  /\ build = "mine"
  /\ ~expired
  /\ Candidate \notin hits
  /\ tried' = tried \cup {Candidate}
  /\ misses' = misses \cup {Candidate}
  /\ nonce' = (nonce + 1) % NonceRange
  /\ output' = IF nonce' = 0 /\ output > 0 THEN output - 1 ELSE output
  /\ UNCHANGED <<build, utxos, l2data, picked, total, expired, hits>>

MineHit ==
  /\ build = "mine"
  /\ ~expired
  /\ Candidate \notin misses
  /\ hits' = hits \cup {Candidate}
  /\ build' = "sign"
  /\ UNCHANGED <<utxos, l2data, picked, total, output, nonce, expired, tried, misses>>

(* The clock of the mining loop runs out. *)
Expire ==
  /\ build = "mine"
  /\ ~expired
  /\ expired' = TRUE
  /\ UNCHANGED <<build, utxos, l2data, picked, total, output, nonce, tried, misses, hits>>

MiningTimeout ==
  /\ build = "mine"
  /\ expired
  /\ build' = "timeout"
  /\ UNCHANGED <<utxos, l2data, picked, total, output, nonce, expired, tried, misses, hits>>

(* The Kaspa crates sign, verify and weigh the transaction, or refuse it. *)
Sign ==
  /\ build = "sign"
  /\ build' \in {"built", "unsigned"}
  /\ UNCHANGED <<utxos, l2data, picked, total, output, nonce, expired, tried, misses, hits>>

Mine == MineMiss \/ MineHit \/ MiningTimeout

BuilderStep == Take \/ Settle \/ Refuse \/ Mine \/ Sign

-----------------------------------------------------------------------------
(* Properties. *)

(* Until the change is used up, no candidate is hashed twice: the wrap of  *)
(* the nonce always comes with another output value.                       *)
NoCandidateTwice ==
  build = "mine" /\ output > 0 => Candidate \notin tried

(* The inputs pay the estimated fee for their number and one unit more for *)
(* every full round of nonces that missed, never less and never more.      *)
EveryRoundCostsOne ==
  build \in {"mine", "sign", "built"} /\ output > 0 =>
    Cardinality(tried) =
      (total - EstimatedFee(Cardinality(picked)) - output) * NonceRange + nonce

(* Largest first finds what any choice of inputs could have found. *)
Payment == INSTANCE FeePayment WITH
  offered <- utxos,
  firstFee <- EstimatedFee(1),
  status <- CASE build \in {"mine", "sign", "built", "timeout", "unsigned"} -> "paid"
              [] build = "refused" -> "refused"
              [] OTHER -> "open",
  inputs <- IF build \in {"idle", "select", "refused"} THEN {} ELSE picked,
  change <- output

ImplementsFeePayment == Payment!Spec

-----------------------------------------------------------------------------
=============================================================================
