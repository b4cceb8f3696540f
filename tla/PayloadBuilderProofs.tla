------------------------ MODULE PayloadBuilderProofs ------------------------
(***************************************************************************)
(* What every step of PayloadBuilder preserves, whatever the fees, the     *)
(* UTXOs and the range of the nonce.  IgraSessionProofs builds on it.      *)
(***************************************************************************)
EXTENDS PayloadBuilder, AmountSums

Mining == {"mine", "sign", "built"}

(* The candidates of a call come in a strict order, downwards by output    *)
(* and upwards by nonce: each missed one lies before the current one.      *)
CandidateOrder ==
  build \in Mining /\ output > 0 =>
    \A c \in tried :
      c.output > output \/ (c.output = output /\ c.nonce < nonce)

BuilderInv ==
  /\ BuilderTypeOK
  /\ IsFiniteSet(tried)
  /\ build = "select" => tried = {} /\ nonce = 0
  /\ CandidateOrder
  /\ EveryRoundCostsOne

(* No candidate precedes itself. *)
LEMMA OrderIsStrict == BuilderInv => NoCandidateTwice
  BY DEF BuilderInv, CandidateOrder, Mining, NoCandidateTwice, Candidate, BuilderTypeOK

-----------------------------------------------------------------------------
(* The fee of any number of inputs is an integer.                          *)
LEMMA FeeIsInteger ==
  ASSUME l2data \in Nat, NEW n \in Int
  PROVE  EstimatedFee(n) \in Int
<1>1. PayloadLength + Kib - 1 \in Int
  BY BuilderAssumption DEF PayloadLength
<1>2. (PayloadLength + Kib - 1) \div Kib \in Int
  BY <1>1, BuilderAssumption
<1>3. ((PayloadLength + Kib - 1) \div Kib) * FeePerKib \in Int
  BY <1>2, BuilderAssumption
<1>4. (n - 1) * ExtraInputFee \in Int
  BY BuilderAssumption
<1> QED
  BY <1>3, <1>4, BuilderAssumption DEF EstimatedFee

(* The number of picked inputs is a natural number.                        *)
LEMMA PickedIsFinite ==
  ASSUME BuilderTypeOK
  PROVE  Cardinality(picked) \in Nat
<1>1. IsFiniteSet(1..Len(utxos))
  BY FS_Interval, 1 \in Int, Len(utxos) \in Int DEF BuilderTypeOK
<1>2. IsFiniteSet(picked)
  BY <1>1, FS_Subset DEF BuilderTypeOK
<1> QED
  BY <1>2, FS_CardinalityType

(* The candidate of a well-typed builder is a transaction.                 *)
LEMMA CandidateType ==
  ASSUME BuilderTypeOK
  PROVE  Candidate \in Transaction
<1>1. nonce \in Nat
  BY BuilderAssumption DEF BuilderTypeOK
<1>2. \A i \in picked : utxos[i] \in Utxo
  BY DEF BuilderTypeOK
<1> QED
  BY <1>1, <1>2 DEF BuilderTypeOK, Candidate, Transaction

-----------------------------------------------------------------------------
(* The invariant of the builder holds before the first build.              *)
LEMMA BuilderInitially ==
  ASSUME NEW n \in Nat, BuilderInit(n)
  PROVE  BuilderInv
<1>1. 0 \in 0..(NonceRange - 1)
  BY BuilderAssumption
<1>2. BuilderTypeOK
  <2>1. utxos \in Seq(Utxo)
    BY DEF BuilderInit
  <2>2. /\ build \in BuildStep /\ l2data \in Nat /\ total \in Nat /\ output \in Nat
        /\ expired \in BOOLEAN /\ nonce \in 0..(NonceRange - 1)
    BY <1>1 DEF BuilderInit, BuildStep
  <2>3. /\ picked \subseteq DOMAIN utxos
        /\ tried \subseteq Transaction /\ misses \subseteq Transaction
        /\ hits \subseteq Transaction
    BY DEF BuilderInit
  <2> QED
    BY <2>1, <2>2, <2>3 DEF BuilderTypeOK
<1> QED
  BY <1>2, FS_EmptySet
  DEF BuilderInit, BuilderInv, CandidateOrder, EveryRoundCostsOne, Mining

(* A new call starts over, whatever was left by the call before it. *)
LEMMA BeginBuildKeeps ==
  ASSUME BuilderInv, NEW offer \in Seq(Utxo), BeginBuild(offer)
  PROVE  BuilderInv'
<1>1. BuilderTypeOK'
  <2>1. 0 \in 0..(NonceRange - 1)
    BY BuilderAssumption
  <2>2. picked' \subseteq (DOMAIN utxos)' /\ tried' \subseteq Transaction
    BY DEF BeginBuild
  <2>3. utxos' \in Seq(Utxo)
    BY DEF BeginBuild
  <2> QED
    BY <2>1, <2>2, <2>3 DEF BuilderInv, BeginBuild, BuilderTypeOK, BuildStep
<1> QED
  BY <1>1, FS_EmptySet
  DEF BeginBuild, BuilderInv, CandidateOrder, EveryRoundCostsOne, Mining

(* The selection preserves the invariant of the builder.                   *)
LEMMA SelectKeeps ==
  ASSUME BuilderInv, Take \/ Settle \/ Refuse
  PROVE  BuilderInv'
<1>1. CASE Take
  <2>1. PICK i \in Rest : picked' = picked \cup {i} /\ total' = total + utxos[i].amount
    BY <1>1 DEF Take
  <2>2. utxos[i].amount \in Nat
    <3>1. i \in DOMAIN utxos /\ utxos \in Seq(Utxo)
      BY <2>1 DEF Rest, BuilderInv, BuilderTypeOK
    <3>2. utxos[i] \in Utxo
      BY <3>1
    <3> QED
      BY <3>2 DEF Utxo
  <2>3. BuilderTypeOK'
    BY <1>1, <2>1, <2>2 DEF Take, Rest, BuilderInv, BuilderTypeOK
  <2> QED
    BY <1>1, <2>3 DEF Take, BuilderInv, CandidateOrder, EveryRoundCostsOne, Mining
<1>2. CASE Settle
  <2> DEFINE fee == EstimatedFee(Cardinality(picked))
  <2>1. fee \in Int /\ total \in Nat
    BY PickedIsFinite, FeeIsInteger DEF BuilderInv, BuilderTypeOK
  <2>2. output' = total - fee /\ output' >= MinChange
    BY <1>2, <2>1, BuilderAssumption DEF Settle, Covered
  <2>3. BuilderTypeOK'
    <3>1. output' \in Nat
      BY <2>1, <2>2, BuilderAssumption
    <3> QED
      BY <1>2, <3>1 DEF Settle, BuilderInv, BuilderTypeOK, BuildStep
  <2>4. tried' = {} /\ nonce' = 0
    BY <1>2 DEF Settle, BuilderInv
  <2>5. EveryRoundCostsOne'
    <3>1. fee' = fee /\ total' = total
      BY <1>2 DEF Settle, EstimatedFee, PayloadLength
    <3>2. (total' - fee' - output') * NonceRange + nonce' = 0
      BY <2>1, <2>2, <2>4, <3>1, BuilderAssumption
    <3> QED
      BY <2>4, <3>2, FS_EmptySet DEF EveryRoundCostsOne
  <2> QED
    BY <1>2, <2>3, <2>4, <2>5, FS_EmptySet DEF Settle, BuilderInv, CandidateOrder
<1>3. CASE Refuse
  <2>1. BuilderTypeOK'
    BY <1>3 DEF Refuse, BuilderInv, BuilderTypeOK, BuildStep
  <2> QED
    BY <1>3, <2>1 DEF Refuse, BuilderInv, CandidateOrder, EveryRoundCostsOne, Mining
<1> QED
  BY <1>1, <1>2, <1>3

-----------------------------------------------------------------------------
(* The count of the candidates goes on by one, over the wrap too. *)
LEMMA RoundArithmetic ==
  ASSUME NEW T \in Int, NEW o \in Nat, NEW n \in 0..(NonceRange - 1),
         NEW m \in Nat, NEW p \in Nat,
         m = (n + 1) % NonceRange,
         p = IF m = 0 /\ o > 0 THEN o - 1 ELSE o,
         o > 0
  PROVE  (T - p) * NonceRange + m = (T - o) * NonceRange + n + 1
<1> USE BuilderAssumption
<1>1. CASE n + 1 = NonceRange
  <2>1. m = 0
    BY <1>1
  <2>2. T - p = (T - o) + 1
    BY <2>1
  <2>3. ((T - o) + 1) * NonceRange = (T - o) * NonceRange + NonceRange
    OBVIOUS
  <2> QED
    BY <1>1, <2>1, <2>2, <2>3
<1>2. CASE n + 1 < NonceRange
  <2>1. m = n + 1
    BY <1>2
  <2>2. p = o
    BY <2>1
  <2>3. (T - o) * NonceRange \in Int
    OBVIOUS
  <2> QED
    BY <2>1, <2>2, <2>3
<1> QED
  BY <1>1, <1>2

(* A miss preserves it: the next candidate is beyond all that were tried.  *)
LEMMA MissKeeps ==
  ASSUME BuilderInv, MineMiss
  PROVE  BuilderInv'
<1> USE BuilderAssumption
<1> DEFINE fee == EstimatedFee(Cardinality(picked))
<1>1. /\ nonce \in 0..(NonceRange - 1) /\ output \in Nat /\ total \in Nat
      /\ fee \in Int
  BY PickedIsFinite, FeeIsInteger DEF BuilderInv, BuilderTypeOK
<1>2. /\ nonce' = (nonce + 1) % NonceRange
      /\ output' = IF nonce' = 0 /\ output > 0 THEN output - 1 ELSE output
      /\ tried' = tried \cup {Candidate}
  BY DEF MineMiss
<1>3. nonce' \in 0..(NonceRange - 1) /\ output' \in Nat
  BY <1>1, <1>2
<1>4. BuilderTypeOK'
  BY <1>2, <1>3, CandidateType DEF MineMiss, BuilderInv, BuilderTypeOK
<1>5. IsFiniteSet(tried')
  BY <1>2, FS_AddElement DEF BuilderInv
<1>6. ASSUME output' > 0 PROVE output > 0
  BY <1>1, <1>2, <1>6
<1>7. CandidateOrder'
  <2> SUFFICES ASSUME output' > 0, NEW c \in tried'
               PROVE  c.output > output' \/ (c.output = output' /\ c.nonce < nonce')
    BY DEF CandidateOrder
  <2>1. CASE c \in tried
    <3>1. c.output > output \/ (c.output = output /\ c.nonce < nonce)
      BY <1>6, <2>1 DEF MineMiss, BuilderInv, CandidateOrder, Mining
    <3>2. c.output \in Nat /\ c.nonce \in Nat
      BY <2>1 DEF BuilderInv, BuilderTypeOK, Transaction
    <3>3. CASE nonce + 1 = NonceRange
      BY <1>1, <1>2, <1>6, <3>1, <3>2, <3>3
    <3>4. CASE nonce + 1 < NonceRange
      <4>1. nonce' = nonce + 1 /\ output' = output
        BY <1>1, <1>2, <3>4
      <4> QED
        BY <1>1, <3>1, <3>2, <4>1
    <3> QED
      BY <1>1, <3>3, <3>4
  <2>2. CASE c = Candidate
    <3>1. c.output = output /\ c.nonce = nonce
      BY <2>2 DEF Candidate
    <3>2. CASE nonce + 1 = NonceRange
      BY <1>1, <1>2, <1>6, <3>1, <3>2
    <3>3. CASE nonce + 1 < NonceRange
      BY <1>1, <1>2, <3>1, <3>3
    <3> QED
      BY <1>1, <3>2, <3>3
  <2> QED
    BY <1>2, <2>1, <2>2
<1>8. EveryRoundCostsOne'
  <2> SUFFICES ASSUME output' > 0
               PROVE  Cardinality(tried') = (total' - fee' - output') * NonceRange + nonce'
    BY DEF EveryRoundCostsOne
  <2>1. Candidate \notin tried
    BY <1>6, OrderIsStrict DEF NoCandidateTwice, MineMiss
  <2>2. Cardinality(tried') = Cardinality(tried) + 1
    BY <1>2, <2>1, FS_AddElement DEF BuilderInv
  <2>3. Cardinality(tried) = (total - fee - output) * NonceRange + nonce
    BY <1>6 DEF BuilderInv, EveryRoundCostsOne, MineMiss
  <2>4. (total - fee - output') * NonceRange + nonce'
          = (total - fee - output) * NonceRange + nonce + 1
    BY <1>1, <1>2, <1>3, <1>6, RoundArithmetic, total - fee \in Int
  <2>5. fee' = fee /\ total' = total
    BY DEF MineMiss, EstimatedFee, PayloadLength
  <2> QED
    BY <2>2, <2>3, <2>4, <2>5
<1> QED
  BY <1>4, <1>5, <1>7, <1>8 DEF BuilderInv, MineMiss

(* The end of mining and signing preserve it.                              *)
LEMMA EndOfMiningKeeps ==
  ASSUME BuilderInv, MineHit \/ MiningTimeout \/ Expire \/ Sign
  PROVE  BuilderInv'
<1>1. BuilderTypeOK'
  BY CandidateType
  DEF MineHit, MiningTimeout, Expire, Sign, BuilderInv, BuilderTypeOK, BuildStep
<1>2. /\ build' \in Mining => build \in Mining
      /\ build' # "select"
      /\ UNCHANGED <<tried, output, nonce, total, picked, l2data>>
  BY DEF MineHit, MiningTimeout, Expire, Sign, Mining
<1>3. EstimatedFee(Cardinality(picked))' = EstimatedFee(Cardinality(picked))
  BY <1>2 DEF EstimatedFee, PayloadLength
<1> QED
  BY <1>1, <1>2, <1>3 DEF BuilderInv, CandidateOrder, EveryRoundCostsOne, Mining

(* A step that leaves the builder alone preserves it.                      *)
LEMMA BuilderUnchanged ==
  ASSUME BuilderInv, UNCHANGED builderVars
  PROVE  BuilderInv'
<1>1. BuilderTypeOK'
  BY DEF BuilderInv, BuilderTypeOK, builderVars
<1>2. EstimatedFee(Cardinality(picked))' = EstimatedFee(Cardinality(picked))
  BY DEF builderVars, EstimatedFee, PayloadLength
<1> QED
  BY <1>1, <1>2 DEF BuilderInv, builderVars, CandidateOrder, EveryRoundCostsOne

(* Every step of a build preserves it.                                     *)
LEMMA BuilderStepKeeps ==
  ASSUME BuilderInv, BuilderStep \/ Expire
  PROVE  BuilderInv'
  BY SelectKeeps, MissKeeps, EndOfMiningKeeps DEF BuilderStep, Mine

-----------------------------------------------------------------------------
(* The selection.  These operators are about any sequence of UTXOs u and   *)
(* any set P of its indices.                                               *)

Spending == {"mine", "sign", "built", "timeout", "unsigned"}

(* In the order of the sort, i is j or comes before it. *)
Precedes(u, i, j) ==
  u[j].amount < u[i].amount \/ (u[j].amount = u[i].amount /\ i <= j)

LargestFirst(u, P) ==
  \A i \in P, j \in DOMAIN u \ P : Precedes(u, i, j)

MostValuable(u, P) ==
  \A T \in SUBSET (DOMAIN u) :
    Cardinality(T) = Cardinality(P) => SumOf(u, T) <= SumOf(u, P)

(* What the inputs are worth beyond the estimated fee. *)
Surplus(u, P) == SumOf(u, P) - EstimatedFee(Cardinality(P))

Pays(u, P) == P # {} /\ Surplus(u, P) >= MinChange

FewerDoNotPay(u, P) ==
  \A T \in SUBSET (DOMAIN u) : Cardinality(T) < Cardinality(P) => ~Pays(u, T)

SelectionInv ==
  /\ total = SumOf(utxos, picked)
  /\ LargestFirst(utxos, picked)
  /\ MostValuable(utxos, picked)
  /\ FewerDoNotPay(utxos, picked)
  /\ build \in Spending => Pays(utxos, picked) /\ output <= Surplus(utxos, picked)

(* What is known of a set of indices of a sequence of UTXOs. *)
LEMMA IndexSets ==
  ASSUME NEW u \in Seq(Utxo)
  PROVE  /\ IsFiniteSet(DOMAIN u)
         /\ \A T \in SUBSET (DOMAIN u) :
              /\ IsFiniteSet(T)
              /\ Cardinality(T) \in Nat
              /\ Cardinality(T) <= Cardinality(DOMAIN u)
              /\ \A i \in T : u[i].amount \in Nat
              /\ SumOf(u, T) \in Nat
<1>1. IsFiniteSet(DOMAIN u)
  BY FS_Interval, DOMAIN u = 1..Len(u), 1 \in Int, Len(u) \in Int
<1>2. ASSUME NEW T \in SUBSET (DOMAIN u)
      PROVE  /\ IsFiniteSet(T) /\ Cardinality(T) \in Nat
             /\ Cardinality(T) <= Cardinality(DOMAIN u)
             /\ \A i \in T : u[i].amount \in Nat
             /\ SumOf(u, T) \in Nat
  <2>1. IsFiniteSet(T) /\ Cardinality(T) <= Cardinality(DOMAIN u)
    BY <1>1, FS_Subset
  <2>2. \A i \in T : u[i].amount \in Nat
    <3> SUFFICES ASSUME NEW i \in T
                 PROVE  u[i].amount \in Nat
      OBVIOUS
    <3>1. u[i] \in Utxo
      OBVIOUS
    <3> QED
      BY <3>1 DEF Utxo
  <2> QED
    BY <2>1, <2>2, FS_CardinalityType, SumIsNatural
<1> QED
  BY <1>1, <1>2

(* What a choice of inputs is worth beyond its fee is an integer.          *)
LEMMA SurplusIsInteger ==
  ASSUME l2data \in Nat, NEW u \in Seq(Utxo), NEW T \in SUBSET (DOMAIN u)
  PROVE  /\ EstimatedFee(Cardinality(T)) \in Int
         /\ Surplus(u, T) \in Int
         /\ Surplus(u, T) + EstimatedFee(Cardinality(T)) = SumOf(u, T)
<1>1. Cardinality(T) \in Int /\ SumOf(u, T) \in Int
  BY IndexSets
<1>2. EstimatedFee(Cardinality(T)) \in Int
  BY <1>1, FeeIsInteger
<1> QED
  BY <1>1, <1>2 DEF Surplus

(* The guard of the rounds is the question whether the inputs pay. *)
LEMMA CoveredMeans ==
  ASSUME BuilderTypeOK, total = SumOf(utxos, picked), picked # {}
  PROVE  Covered <=> Pays(utxos, picked)
<1>1. /\ EstimatedFee(Cardinality(picked)) \in Int
      /\ total \in Int /\ MinChange \in Int
      /\ Surplus(utxos, picked) = total - EstimatedFee(Cardinality(picked))
  BY SurplusIsInteger, BuilderAssumption DEF BuilderTypeOK, Surplus
<1> QED
  BY <1>1 DEF Covered, Pays

(* The fee depends on the length of the data only, which never changes. *)
LEMMA FeeUnchanged ==
  ASSUME UNCHANGED l2data, NEW u, NEW P
  PROVE  /\ \A n \in Int : EstimatedFee(n)' = EstimatedFee(n)
         /\ Surplus(u, P)' = Surplus(u, P)
         /\ Pays(u, P)' <=> Pays(u, P)
         /\ FewerDoNotPay(u, P)' <=> FewerDoNotPay(u, P)
  BY DEF EstimatedFee, PayloadLength, Surplus, Pays, FewerDoNotPay

-----------------------------------------------------------------------------
(* Before anything is picked the invariant of the selection holds.         *)
LEMMA SelectionBegins ==
  ASSUME utxos = <<>>, picked = {}, total = 0, build \notin Spending
  PROVE  SelectionInv
<1>1. \A T \in SUBSET (DOMAIN utxos) : T = {}
  OBVIOUS
<1>2. SumOf(utxos, {}) = 0
  BY SumOfNothing
<1>3. MostValuable(utxos, picked)
  <2> SUFFICES ASSUME NEW T \in SUBSET (DOMAIN utxos)
               PROVE  SumOf(utxos, T) <= SumOf(utxos, picked)
    BY DEF MostValuable
  <2>1. SumOf(utxos, T) = 0 /\ SumOf(utxos, picked) = 0
    BY <1>1, <1>2
  <2> QED
    BY <2>1
<1>4. LargestFirst(utxos, picked)
  BY DEF LargestFirst
<1>5. FewerDoNotPay(utxos, picked)
  BY <1>1 DEF FewerDoNotPay, Pays
<1> QED
  BY <1>2, <1>3, <1>4, <1>5 DEF SelectionInv

(* With nothing picked, nothing is worth more and nothing is smaller. *)
LEMMA NothingPicked ==
  ASSUME NEW u \in Seq(Utxo)
  PROVE  LargestFirst(u, {}) /\ MostValuable(u, {}) /\ FewerDoNotPay(u, {})
<1>1. \A T \in SUBSET (DOMAIN u) : IsFiniteSet(T) /\ Cardinality(T) \in Nat
  BY IndexSets
<1>2. \A T \in SUBSET (DOMAIN u) : Cardinality(T) = 0 => T = {}
  BY <1>1, FS_EmptySet
<1>3. SumOf(u, {}) = 0 /\ Cardinality({}) = 0
  BY SumOfNothing, FS_EmptySet
<1>4. MostValuable(u, {})
  <2> SUFFICES ASSUME NEW T \in SUBSET (DOMAIN u), Cardinality(T) = Cardinality({})
               PROVE  SumOf(u, T) <= SumOf(u, {})
    BY DEF MostValuable
  <2>1. T = {}
    BY <1>2, <1>3
  <2> QED
    BY <1>3, <2>1
<1>5. FewerDoNotPay(u, {})
  BY <1>1, <1>3 DEF FewerDoNotPay
<1> QED
  BY <1>4, <1>5 DEF LargestFirst

(* The next largest element keeps the choice the most valuable of its      *)
(* size: a rival has an element that is not picked yet, worth at most the  *)
(* new one, and what is left of it is worth at most what was picked.       *)
LEMMA NextLargest ==
  ASSUME NEW u \in Seq(Utxo), NEW P \in SUBSET (DOMAIN u), NEW i \in DOMAIN u \ P,
         \A j \in DOMAIN u \ P : Precedes(u, i, j),
         LargestFirst(u, P), MostValuable(u, P)
  PROVE  /\ Cardinality(P \cup {i}) = Cardinality(P) + 1
         /\ SumOf(u, P \cup {i}) = SumOf(u, P) + u[i].amount
         /\ LargestFirst(u, P \cup {i})
         /\ MostValuable(u, P \cup {i})
<1> DEFINE Q == P \cup {i}
<1>1. Q \in SUBSET (DOMAIN u) /\ IsFiniteSet(P)
  BY IndexSets
<1>2. Cardinality(Q) = Cardinality(P) + 1
  BY <1>1, FS_AddElement
<1>3. SumOf(u, Q) = SumOf(u, P) + u[i].amount
  <2>1. SumOf(u, Q) = u[i].amount + SumOf(u, Q \ {i})
    <3>1. IsFiniteSet(Q) /\ \A k \in Q : u[k].amount \in Nat
      BY <1>1, IndexSets
    <3> QED
      BY <3>1, SumTakesOut
  <2>2. Q \ {i} = P
    OBVIOUS
  <2>3. u[i].amount \in Nat /\ SumOf(u, P) \in Nat
    BY IndexSets
  <2>4. SumOf(u, Q) = u[i].amount + SumOf(u, P)
    BY <2>1, <2>2
  <2> HIDE DEF Q
  <2> QED
    BY <2>3, <2>4
<1>4. LargestFirst(u, Q)
  BY DEF LargestFirst
<1>5. ASSUME NEW T \in SUBSET (DOMAIN u), Cardinality(T) = Cardinality(Q)
      PROVE  SumOf(u, T) <= SumOf(u, Q)
  <2>1. /\ IsFiniteSet(T) /\ Cardinality(P) \in Nat
        /\ \A k \in T : u[k].amount \in Nat
    BY IndexSets
  <2>2. PICK t \in T : t \notin P
    <3>1. ~(T \subseteq P)
      BY <1>1, <1>2, <1>5, <2>1, FS_Subset
    <3> QED
      BY <3>1
  <2>3. Cardinality(T \ {t}) = Cardinality(P)
    <3>1. Cardinality(T \ {t}) = Cardinality(T) - 1
      BY <2>1, FS_RemoveElement
    <3> HIDE DEF Q
    <3> QED
      BY <1>2, <1>5, <2>1, <3>1
  <2>4. SumOf(u, T \ {t}) <= SumOf(u, P)
    BY <2>3 DEF MostValuable
  <2>5. SumOf(u, T) = u[t].amount + SumOf(u, T \ {t})
    BY <2>1, SumTakesOut
  <2>6. u[t].amount <= u[i].amount
    <3>1. t \in DOMAIN u \ P
      BY <2>2
    <3>2. Precedes(u, i, t)
      BY <3>1
    <3>3. u[t].amount \in Nat /\ u[i].amount \in Nat
      BY <3>1, IndexSets
    <3> QED
      BY <3>2, <3>3 DEF Precedes
  <2>7. /\ u[t].amount \in Nat /\ u[i].amount \in Nat
        /\ SumOf(u, T \ {t}) \in Nat /\ SumOf(u, P) \in Nat
    BY <1>1, IndexSets
  <2> QED
    BY <1>3, <2>4, <2>5, <2>6, <2>7
<1> QED
  BY <1>2, <1>3, <1>4, <1>5 DEF MostValuable

(* What does not pay although it is the most valuable of its size shows    *)
(* that nothing of that size or smaller pays.                              *)
LEMMA MoreIsNeeded ==
  ASSUME l2data \in Nat, NEW u \in Seq(Utxo), NEW P \in SUBSET (DOMAIN u),
         MostValuable(u, P), FewerDoNotPay(u, P), ~Pays(u, P)
  PROVE  \A T \in SUBSET (DOMAIN u) : Cardinality(T) <= Cardinality(P) => ~Pays(u, T)
<1> SUFFICES ASSUME NEW T \in SUBSET (DOMAIN u), Cardinality(T) <= Cardinality(P),
                    Pays(u, T)
             PROVE  FALSE
  OBVIOUS
<1>1. /\ Cardinality(T) \in Nat /\ Cardinality(P) \in Nat
      /\ IsFiniteSet(T) /\ IsFiniteSet(P)
  BY IndexSets
<1>2. Cardinality(T) = Cardinality(P)
  BY <1>1 DEF FewerDoNotPay
<1>3. SumOf(u, T) <= SumOf(u, P)
  BY <1>2 DEF MostValuable
<1>4. /\ SumOf(u, T) \in Int /\ SumOf(u, P) \in Int
      /\ EstimatedFee(Cardinality(P)) \in Int /\ MinChange \in Int
  BY IndexSets, SurplusIsInteger, BuilderAssumption
<1>5. Surplus(u, T) <= Surplus(u, P)
  BY <1>2, <1>3, <1>4 DEF Surplus
<1>6. Surplus(u, T) \in Int /\ Surplus(u, P) \in Int
  BY SurplusIsInteger
<1>7. P # {}
  BY <1>1, <1>2, FS_EmptySet DEF Pays
<1> QED
  BY <1>4, <1>5, <1>6, <1>7 DEF Pays

(* Taking the largest entry that is left preserves it.                     *)
LEMMA TakeKeepsSelection ==
  ASSUME BuilderTypeOK, SelectionInv, Take
  PROVE  SelectionInv'
<1>1. PICK i \in Rest :
        /\ \A j \in Rest : Precedes(utxos, i, j)
        /\ picked' = picked \cup {i}
        /\ total' = total + utxos[i].amount
  BY DEF Take, Precedes
<1>2. /\ utxos \in Seq(Utxo) /\ l2data \in Nat /\ picked \in SUBSET (DOMAIN utxos)
      /\ Cardinality(picked) \in Nat
  BY PickedIsFinite DEF BuilderTypeOK
<1>3. UNCHANGED <<utxos, l2data, build>> /\ build \notin Spending
  BY DEF Take, Spending
<1>4. /\ Cardinality(picked') = Cardinality(picked) + 1
      /\ total' = SumOf(utxos, picked')
      /\ LargestFirst(utxos, picked')
      /\ MostValuable(utxos, picked')
  BY <1>1, <1>2, NextLargest DEF Rest, SelectionInv
<1>5. FewerDoNotPay(utxos, picked')
  <2>1. ~Pays(utxos, picked)
    BY CoveredMeans DEF Take, SelectionInv, Pays
  <2>2. \A T \in SUBSET (DOMAIN utxos) :
          Cardinality(T) <= Cardinality(picked) => ~Pays(utxos, T)
    BY <1>2, <2>1, MoreIsNeeded DEF SelectionInv
  <2>3. \A T \in SUBSET (DOMAIN utxos) : Cardinality(T) \in Nat
    BY <1>2, IndexSets
  <2> QED
    BY <1>2, <1>4, <2>2, <2>3 DEF FewerDoNotPay
<1>6. FewerDoNotPay(utxos, picked)'
  BY <1>3, <1>5, FeeUnchanged
<1> QED
  BY <1>3, <1>4, <1>6 DEF SelectionInv, LargestFirst, MostValuable

(* A new build starts its selection afresh.                                *)
LEMMA BeginBuildSelects ==
  ASSUME NEW offer \in Seq(Utxo), BeginBuild(offer)
  PROVE  SelectionInv'
<1>1. /\ utxos' = offer /\ picked' = {} /\ total' = 0 /\ build' \notin Spending
      /\ UNCHANGED l2data
  BY DEF BeginBuild, Spending
<1>2. LargestFirst(offer, {}) /\ MostValuable(offer, {}) /\ FewerDoNotPay(offer, {})
  BY NothingPicked
<1>3. FewerDoNotPay(offer, {})'
  BY <1>1, <1>2, FeeUnchanged
<1>4. LargestFirst(utxos, picked)' /\ MostValuable(utxos, picked)'
  BY <1>1, <1>2 DEF LargestFirst, MostValuable
<1>5. FewerDoNotPay(utxos, picked)'
  BY <1>1, <1>3 DEF FewerDoNotPay, Pays, Surplus, EstimatedFee, PayloadLength
<1>6. total' = SumOf(utxos', picked')
  BY <1>1, SumOfNothing
<1> QED
  BY <1>1, <1>4, <1>5, <1>6 DEF SelectionInv

(* From then on only the build step and the output change. *)
LEMMA SelectionStays ==
  ASSUME SelectionInv, UNCHANGED <<utxos, l2data, picked, total>>,
         build' \in Spending =>
           /\ Pays(utxos, picked)
           /\ output' <= Surplus(utxos, picked)
  PROVE  SelectionInv'
<1>1. /\ FewerDoNotPay(utxos, picked)' <=> FewerDoNotPay(utxos, picked)
      /\ Pays(utxos, picked)' <=> Pays(utxos, picked)
      /\ Surplus(utxos, picked)' = Surplus(utxos, picked)
  BY DEF FewerDoNotPay, Pays, Surplus, EstimatedFee, PayloadLength
<1>2. /\ LargestFirst(utxos, picked)' <=> LargestFirst(utxos, picked)
      /\ MostValuable(utxos, picked)' <=> MostValuable(utxos, picked)
  BY DEF LargestFirst, MostValuable
<1>3. SumOf(utxos, picked)' = SumOf(utxos, picked)
  OBVIOUS
<1> QED
  BY <1>1, <1>2, <1>3 DEF SelectionInv

(* A settled output is the whole surplus. *)
LEMMA SettlePays ==
  ASSUME BuilderTypeOK, SelectionInv, Settle
  PROVE  Pays(utxos, picked) /\ output' = Surplus(utxos, picked)
  BY CoveredMeans DEF Settle, SelectionInv, Surplus

(* A miss keeps the output or gives up one unit of it.                     *)
LEMMA MissLowersOutput ==
  ASSUME BuilderTypeOK, MineMiss
  PROVE  /\ output' \in Nat /\ output \in Nat
         /\ output' = output \/ (output > 0 /\ output' = output - 1)
         /\ output' <= output
  BY DEF MineMiss, BuilderTypeOK

(* Every step of a build preserves the invariant of the selection.         *)
LEMMA SelectionKept ==
  ASSUME BuilderTypeOK, SelectionInv,
         BuilderStep \/ Expire \/ UNCHANGED builderVars
  PROVE  SelectionInv'
<1>1. CASE Take
  BY <1>1, TakeKeepsSelection
<1>2. CASE Settle
  <2>1. Pays(utxos, picked) /\ output' = Surplus(utxos, picked)
    BY <1>2, SettlePays
  <2>2. Surplus(utxos, picked) \in Int
    BY SurplusIsInteger DEF BuilderTypeOK
  <2> QED
    BY <1>2, <2>1, <2>2, SelectionStays DEF Settle
<1>3. CASE Refuse
  BY <1>3, SelectionStays DEF Refuse, Spending
<1>4. CASE MineMiss
  <2>1. Pays(utxos, picked) /\ output <= Surplus(utxos, picked)
    BY <1>4 DEF MineMiss, SelectionInv, Spending
  <2>2. Surplus(utxos, picked) \in Int
    BY SurplusIsInteger DEF BuilderTypeOK
  <2>3. output' <= Surplus(utxos, picked)
    BY <1>4, <2>1, <2>2, MissLowersOutput
  <2> QED
    BY <1>4, <2>1, <2>3, SelectionStays DEF MineMiss
<1>5. CASE MineHit \/ MiningTimeout \/ Expire \/ Sign \/ UNCHANGED builderVars
  <2>1. UNCHANGED <<utxos, l2data, picked, total, output>>
    BY <1>5 DEF MineHit, MiningTimeout, Expire, Sign, builderVars
  <2>2. build' \in Spending => build \in Spending
    BY <1>5 DEF MineHit, MiningTimeout, Expire, Sign, builderVars, Spending
  <2> QED
    BY <2>1, <2>2, SelectionStays DEF SelectionInv
<1> QED
  BY <1>1, <1>2, <1>3, <1>4, <1>5 DEF BuilderStep, Mine

-----------------------------------------------------------------------------
(* The selection implements FeePayment. *)

(* FeePayment sums up as the builder does.                                 *)
LEMMA PaymentSums ==
  ASSUME NEW T
  PROVE  Payment!Sum(T) = SumOf(utxos, T)
  BY DEF Payment!Sum, Payment!MapThenSumSet, Payment!MapThenFoldSet,
         SumOf, MapThenSumSet, MapThenFoldSet

(* FeePayment counts as the builder does.                                  *)
LEMMA PaymentCounts ==
  ASSUME NEW T
  PROVE  Payment!Cardinality(T) = Cardinality(T)
  BY DEF Payment!Cardinality, Cardinality

(* The fee of FeePayment is the estimated fee.                             *)
LEMMA PaymentFees ==
  ASSUME BuilderTypeOK, NEW T \in SUBSET (DOMAIN utxos)
  PROVE  Payment!Fee(T) = EstimatedFee(Cardinality(T))
<1> DEFINE first == BaseFee + ((PayloadLength + Kib - 1) \div Kib) * FeePerKib
           n == Cardinality(T)
           extra == (n - 1) * ExtraInputFee
<1>1. n \in Int
  BY IndexSets DEF BuilderTypeOK
<1>2. PayloadLength + Kib - 1 \in Int
  BY BuilderAssumption DEF PayloadLength, BuilderTypeOK
<1>3. first \in Int /\ extra \in Int /\ (1 - 1) * ExtraInputFee = 0
  BY <1>1, <1>2, BuilderAssumption
<1>4. EstimatedFee(1) = first + (1 - 1) * ExtraInputFee
  BY DEF EstimatedFee
<1>5. EstimatedFee(n) = first + extra
  BY DEF EstimatedFee
<1>6. Payment!Fee(T) = EstimatedFee(1) + extra
  BY PaymentCounts DEF Payment!Fee
<1> HIDE DEF first, extra
<1> QED
  BY <1>3, <1>4, <1>5, <1>6

(* The inputs that pay in FeePayment are those that pay here.              *)
LEMMA PaymentInputs ==
  ASSUME BuilderTypeOK, NEW T
  PROVE  T \in Payment!PayingInputs <=> T \in SUBSET (DOMAIN utxos) /\ Pays(utxos, T)
<1>1. CASE T \in SUBSET (DOMAIN utxos)
  <2>1. /\ EstimatedFee(Cardinality(T)) \in Int /\ SumOf(utxos, T) \in Int
        /\ MinChange \in Int
    BY <1>1, SurplusIsInteger, IndexSets, BuilderAssumption DEF BuilderTypeOK
  <2>2. /\ Payment!Sum(T) = SumOf(utxos, T)
        /\ Payment!Fee(T) = EstimatedFee(Cardinality(T))
    BY <1>1, PaymentSums, PaymentFees
  <2>3. Payment!Sum(T) >= Payment!Fee(T) + MinChange
          <=> Surplus(utxos, T) >= MinChange
    BY <2>1, <2>2 DEF Surplus
  <2> QED
    BY <1>1, <2>3 DEF Payment!PayingInputs, Pays
<1>2. CASE T \notin SUBSET (DOMAIN utxos)
  BY <1>2 DEF Payment!PayingInputs
<1> QED
  BY <1>1, <1>2

(* Without an element left, everything was picked. *)
LEMMA RefusePays ==
  ASSUME BuilderTypeOK, SelectionInv, Refuse
  PROVE  Payment!PayingInputs = {}
<1> SUFFICES ASSUME NEW T \in SUBSET (DOMAIN utxos), Pays(utxos, T)
             PROVE  FALSE
  BY PaymentInputs DEF Payment!PayingInputs
<1>1. /\ utxos \in Seq(Utxo) /\ l2data \in Nat /\ picked = DOMAIN utxos
  BY DEF Refuse, Rest, BuilderTypeOK
<1>2. Cardinality(T) <= Cardinality(picked)
  BY <1>1, IndexSets
<1>3. ~Pays(utxos, picked)
  BY CoveredMeans DEF Refuse, SelectionInv, Pays
<1> QED
  BY <1>1, <1>2, <1>3, MoreIsNeeded DEF SelectionInv

(* Settling pays with as few inputs as any choice could. *)
LEMMA SettleIsPay ==
  ASSUME BuilderTypeOK, SelectionInv, Settle
  PROVE  Payment!Pay
<1>1. Pays(utxos, picked) /\ output' = Surplus(utxos, picked)
  BY SettlePays
<1>2. picked \in Payment!PayingInputs
  BY <1>1, PaymentInputs DEF BuilderTypeOK
<1>3. \A T \in Payment!PayingInputs : Cardinality(picked) <= Cardinality(T)
  <2> SUFFICES ASSUME NEW T \in SUBSET (DOMAIN utxos), Pays(utxos, T)
               PROVE  Cardinality(picked) <= Cardinality(T)
    BY PaymentInputs
  <2>1. Cardinality(T) \in Nat /\ Cardinality(picked) \in Nat
    BY IndexSets DEF BuilderTypeOK
  <2> QED
    BY <2>1 DEF SelectionInv, FewerDoNotPay
<1>4. output' = Payment!Sum(picked) - Payment!Fee(picked)
  BY <1>1, PaymentSums, PaymentFees DEF Surplus, BuilderTypeOK
<1>5. /\ build = "select" /\ build' = "mine"
      /\ UNCHANGED <<utxos, l2data, picked>>
  BY DEF Settle
<1>6. EstimatedFee(1)' = EstimatedFee(1)
  BY <1>5 DEF EstimatedFee, PayloadLength
<1>7. \A T \in Payment!PayingInputs :
        Payment!Cardinality(picked) <= Payment!Cardinality(T)
  BY <1>3, PaymentCounts
<1> QED
  BY <1>2, <1>4, <1>5, <1>6, <1>7 DEF Payment!Pay

(* Every step of the builder is one of FeePayment's, or none. *)
LEMMA BuilderImplementsPayment ==
  ASSUME BuilderTypeOK, SelectionInv,
         \/ BuilderStep \/ Expire \/ UNCHANGED builderVars
         \/ \E offer \in Seq(Utxo) : BeginBuild(offer)
  PROVE  [Payment!Next]_(Payment!paymentVars)
<1>1. UNCHANGED l2data => EstimatedFee(1)' = EstimatedFee(1)
  BY DEF EstimatedFee, PayloadLength
<1>2. CASE \E offer \in Seq(Utxo) : BeginBuild(offer)
  <2>1. build' = "select" /\ output' = 0
    BY <1>2 DEF BeginBuild
  <2> QED
    BY <2>1 DEF Payment!Offer, Payment!Next
<1>3. CASE Take
  BY <1>1, <1>3 DEF Take, Payment!paymentVars
<1>4. CASE Settle
  BY <1>4, SettleIsPay DEF Payment!Next
<1>5. CASE Refuse
  <2>1. Payment!PayingInputs = {}
    BY <1>5, RefusePays
  <2>2. build = "select" /\ build' = "refused" /\ UNCHANGED <<utxos, l2data, output>>
    BY <1>5 DEF Refuse
  <2> QED
    BY <1>1, <2>1, <2>2 DEF Payment!Refuse, Payment!Next
<1>6. CASE MineMiss
  <2>1. build = "mine" /\ build' = "mine" /\ UNCHANGED <<utxos, l2data, picked>>
    BY <1>6 DEF MineMiss
  <2>2. output' = output \/ (output > 0 /\ output' = output - 1)
    BY <1>6, MissLowersOutput
  <2>3. CASE output' = output
    BY <1>1, <2>1, <2>3 DEF Payment!paymentVars
  <2>4. CASE output > 0 /\ output' = output - 1
    BY <1>1, <2>1, <2>4 DEF Payment!Shave, Payment!Next
  <2> QED
    BY <2>2, <2>3, <2>4
<1>7. CASE MineHit \/ MiningTimeout \/ Expire \/ Sign
  <2>1. /\ build \in Spending /\ build' \in Spending
        /\ UNCHANGED <<utxos, l2data, picked, output>>
    BY <1>7 DEF MineHit, MiningTimeout, Expire, Sign, Spending
  <2> QED
    BY <1>1, <2>1 DEF Payment!paymentVars, Spending
<1>8. CASE UNCHANGED builderVars
  BY <1>1, <1>8 DEF builderVars, Payment!paymentVars
<1> QED
  BY <1>2, <1>3, <1>4, <1>5, <1>6, <1>7, <1>8 DEF BuilderStep, Mine

(* No call is an open payment. *)
LEMMA PaymentInitially ==
  ASSUME NEW n \in Nat, BuilderInit(n)
  PROVE  SelectionInv /\ Payment!Init
<1>1. build \notin Spending /\ SelectionInv
  BY SelectionBegins DEF BuilderInit, Spending
<1> QED
  BY <1>1 DEF BuilderInit, Payment!Init

-----------------------------------------------------------------------------
(* The search.  A choice of inputs fixes the order in which the candidates *)
(* are hashed; what is signed is the first of them that hits.              *)

(* The transaction of output v and nonce m that spends the inputs P of u. *)
Spend(u, P, v, m) ==
  [inputs |-> {u[i] : i \in P}, output |-> v, nonce |-> m]

(* The candidate of output v and nonce m comes before that of o and n. *)
Before(v, m, o, n) == v > o \/ (v = o /\ m < n)

Searched(u, P, o, n) ==
  \A v \in 0..Surplus(u, P), m \in 0..(NonceRange - 1) :
    Before(v, m, o, n) => Spend(u, P, v, m) \in misses

SearchInv ==
  /\ hits \cap misses = {}
  /\ build \in Mining => Searched(utxos, picked, output, nonce)
  /\ build \in {"sign", "built"} => Candidate \in hits

(* The sets of inputs that the selection can end with. *)
Chosen(u, P) == LargestFirst(u, P) /\ Pays(u, P) /\ FewerDoNotPay(u, P)

(* The transaction is the first hit of a choice of inputs from u. *)
FirstHit(u, P, o, n) ==
  /\ Chosen(u, P)
  /\ Spend(u, P, o, n) \in hits
  /\ Searched(u, P, o, n)

(* The selection has at most one result: of two sets of first elements one *)
(* holds the other, and the smaller one would have paid.                   *)
LEMMA ChoiceIsUnique ==
  ASSUME NEW u \in Seq(Utxo), NEW P \in SUBSET (DOMAIN u), NEW Q \in SUBSET (DOMAIN u),
         Chosen(u, P), Chosen(u, Q)
  PROVE  P = Q
<1>1. /\ IsFiniteSet(P) /\ IsFiniteSet(Q)
      /\ Cardinality(P) \in Nat /\ Cardinality(Q) \in Nat
  BY IndexSets
<1>2. P \subseteq Q \/ Q \subseteq P
  <2> SUFFICES ASSUME NEW p \in P \ Q, NEW q \in Q \ P
               PROVE  FALSE
    OBVIOUS
  <2>1. Precedes(u, p, q) /\ Precedes(u, q, p)
    BY DEF Chosen, LargestFirst
  <2>2. u[p].amount \in Nat /\ u[q].amount \in Nat
    BY IndexSets
  <2>3. p <= q /\ q <= p
    BY <2>1, <2>2 DEF Precedes
  <2>4. p \in Int /\ q \in Int /\ p # q
    OBVIOUS
  <2> QED
    BY <2>3, <2>4
<1>3. ~(Cardinality(P) < Cardinality(Q)) /\ ~(Cardinality(Q) < Cardinality(P))
  BY DEF Chosen, FewerDoNotPay
<1>4. Cardinality(P) = Cardinality(Q)
  BY <1>1, <1>3
<1> QED
  BY <1>1, <1>2, <1>4, FS_Subset

(* Neither of two first hits comes before the other. *)
LEMMA FirstHitIsUnique ==
  ASSUME BuilderTypeOK, hits \cap misses = {}, NEW u \in Seq(Utxo),
         NEW P \in SUBSET (DOMAIN u), NEW Q \in SUBSET (DOMAIN u),
         NEW o \in 0..Surplus(u, P), NEW n \in 0..(NonceRange - 1), FirstHit(u, P, o, n),
         NEW v \in 0..Surplus(u, Q), NEW m \in 0..(NonceRange - 1), FirstHit(u, Q, v, m)
  PROVE  Spend(u, P, o, n) = Spend(u, Q, v, m)
<1>1. P = Q
  BY ChoiceIsUnique DEF FirstHit
<1>2. ~Before(v, m, o, n) /\ ~Before(o, n, v, m)
  BY <1>1 DEF FirstHit, Searched
<1>3. NonceRange \in Int /\ Surplus(u, P) \in Int
  BY SurplusIsInteger, BuilderAssumption DEF BuilderTypeOK
<1>4. o = v /\ n = m
  BY <1>1, <1>2, <1>3 DEF Before
<1> QED
  BY <1>1, <1>4

(* What missed stays missed, so that a search is never undone. *)
LEMMA SearchedStays ==
  ASSUME UNCHANGED l2data, misses \subseteq misses', NEW u, NEW P, NEW o, NEW n,
         Searched(u, P, o, n)
  PROVE  Searched(u, P, o, n)'
  BY DEF Searched, Surplus, EstimatedFee, PayloadLength, Spend, Before

(* Nor is the first hit of a search undone.                                *)
LEMMA FirstHitStays ==
  ASSUME UNCHANGED l2data, misses \subseteq misses', hits \subseteq hits',
         NEW u, NEW P, NEW o, NEW n, FirstHit(u, P, o, n)
  PROVE  FirstHit(u, P, o, n)'
<1>1. Chosen(u, P)' <=> Chosen(u, P)
  BY DEF Chosen, LargestFirst, Pays, FewerDoNotPay, Surplus, EstimatedFee, PayloadLength
<1>2. Searched(u, P, o, n)'
  BY SearchedStays DEF FirstHit
<1>3. (Spend(u, P, o, n) \in hits)'
  BY DEF FirstHit, Spend
<1> QED
  BY <1>1, <1>2, <1>3 DEF FirstHit

(* The histories only grow, and the length of the data is fixed. *)
LEMMA HistoriesGrow ==
  ASSUME \/ BuilderStep \/ Expire \/ UNCHANGED builderVars
         \/ \E offer \in Seq(Utxo) : BeginBuild(offer)
  PROVE  UNCHANGED l2data /\ misses \subseteq misses' /\ hits \subseteq hits'
  BY DEF BuilderStep, Mine, Take, Settle, Refuse, MineMiss, MineHit, MiningTimeout, Sign,
         Expire, BeginBuild, builderVars

(* A miss leaves no candidate out before the next one.                     *)
LEMMA MissKeepsSearch ==
  ASSUME BuilderTypeOK, SelectionInv, SearchInv, MineMiss
  PROVE  SearchInv'
<1>1. /\ build = "mine" /\ build' = "mine"
      /\ UNCHANGED <<utxos, l2data, picked, hits>>
      /\ misses' = misses \cup {Candidate}
      /\ Candidate \notin hits
      /\ nonce' = (nonce + 1) % NonceRange
  BY DEF MineMiss
<1>2. hits' \cap misses' = {}
  BY <1>1 DEF SearchInv
<1>3. Surplus(utxos, picked)' = Surplus(utxos, picked)
  BY <1>1 DEF Surplus, EstimatedFee, PayloadLength
<1>4. ASSUME NEW v \in 0..Surplus(utxos, picked), NEW m \in 0..(NonceRange - 1),
             Before(v, m, output', nonce')
      PROVE  Spend(utxos, picked, v, m) \in misses'
  <2>1. /\ nonce \in 0..(NonceRange - 1) /\ NonceRange \in Nat \ {0}
        /\ v \in Int /\ m \in Int /\ m <= NonceRange - 1
        /\ output' \in Nat /\ output \in Nat
        /\ output' = IF nonce' = 0 /\ output > 0 THEN output - 1 ELSE output
    BY BuilderAssumption, MissLowersOutput DEF BuilderTypeOK, MineMiss
  <2>2. Before(v, m, output, nonce) \/ (v = output /\ m = nonce)
    <3>1. CASE nonce + 1 = NonceRange
      <4>1. nonce' = 0
        BY <1>1, <2>1, <3>1
      <4> QED
        BY <1>4, <2>1, <3>1, <4>1 DEF Before
    <3>2. CASE nonce + 1 < NonceRange
      <4>1. nonce' = nonce + 1 /\ output' = output
        BY <1>1, <2>1, <3>2
      <4> QED
        BY <1>4, <2>1, <4>1 DEF Before
    <3> QED
      BY <2>1, <3>1, <3>2
  <2>3. CASE Before(v, m, output, nonce)
    <3>1. Spend(utxos, picked, v, m) \in misses
      BY <1>1, <2>3 DEF SearchInv, Searched, Mining
    <3> QED
      BY <1>1, <3>1
  <2>4. CASE v = output /\ m = nonce
    BY <1>1, <2>4 DEF Spend, Candidate
  <2> QED
    BY <2>2, <2>3, <2>4
<1>5. Searched(utxos, picked, output, nonce)'
  BY <1>1, <1>3, <1>4 DEF Searched, Spend, Before
<1> QED
  BY <1>1, <1>2, <1>5 DEF SearchInv

(* Every step of a build, and the start of one, preserves the search.      *)
LEMMA SearchKept ==
  ASSUME BuilderTypeOK, SelectionInv, SearchInv, nonce = 0 \/ build # "select",
         \/ BuilderStep \/ Expire \/ UNCHANGED builderVars
         \/ \E offer \in Seq(Utxo) : BeginBuild(offer)
  PROVE  SearchInv'
<1>1. CASE MineMiss
  BY <1>1, MissKeepsSearch
<1>2. CASE Settle
  <2>1. /\ output' = Surplus(utxos, picked) /\ nonce' = 0 /\ build' = "mine"
        /\ UNCHANGED <<utxos, l2data, picked, hits, misses>>
    BY <1>2, SettlePays DEF Settle
  <2>2. Surplus(utxos, picked)' = Surplus(utxos, picked)
    BY <2>1 DEF Surplus, EstimatedFee, PayloadLength
  <2>3. Surplus(utxos, picked) \in Int /\ NonceRange \in Int
    BY SurplusIsInteger, BuilderAssumption DEF BuilderTypeOK
  <2>4. \A v \in 0..Surplus(utxos, picked), m \in 0..(NonceRange - 1) :
          ~Before(v, m, output', nonce')
    BY <2>1, <2>3 DEF Before
  <2>5. Searched(utxos, picked, output, nonce)'
    BY <2>2, <2>4 DEF Searched, Before
  <2> QED
    BY <2>1, <2>5 DEF SearchInv
<1>3. CASE MineHit
  <2>1. /\ hits' = hits \cup {Candidate} /\ Candidate \notin misses
        /\ build = "mine" /\ build' = "sign"
        /\ UNCHANGED <<utxos, l2data, picked, output, nonce, misses>>
    BY <1>3 DEF MineHit
  <2>2. Candidate' = Candidate
    BY <2>1 DEF Candidate
  <2>3. Searched(utxos, picked, output, nonce)'
    BY <2>1 DEF SearchInv, Mining, Searched, Surplus, EstimatedFee, PayloadLength, Spend,
                Before
  <2> QED
    BY <2>1, <2>2, <2>3 DEF SearchInv
<1>4. CASE \/ Take \/ Refuse \/ MiningTimeout
           \/ \E offer \in Seq(Utxo) : BeginBuild(offer)
  <2>1. UNCHANGED <<hits, misses>> /\ build' \notin Mining
    BY <1>4 DEF Take, Refuse, MiningTimeout, BeginBuild, Mining
  <2> QED
    BY <2>1 DEF SearchInv, Mining
<1>5. CASE Sign \/ Expire \/ UNCHANGED builderVars
  <2>1. /\ UNCHANGED <<utxos, l2data, picked, output, nonce, hits, misses>>
        /\ build' \in Mining => build \in Mining
        /\ build' \in {"sign", "built"} => build \in {"sign", "built"}
    BY <1>5 DEF Sign, Expire, builderVars, Mining
  <2>2. Candidate' = Candidate
    BY <2>1 DEF Candidate
  <2>3. Searched(utxos, picked, output, nonce)' <=> Searched(utxos, picked, output, nonce)
    BY <2>1 DEF Searched, Surplus, EstimatedFee, PayloadLength, Spend, Before
  <2> QED
    BY <2>1, <2>2, <2>3 DEF SearchInv
<1> QED
  BY <1>1, <1>2, <1>3, <1>4, <1>5 DEF BuilderStep, Mine

(* What was built is the first hit of its inputs. *)
LEMMA BuiltIsFirstHit ==
  ASSUME BuilderTypeOK, SelectionInv, SearchInv, build = "built"
  PROVE  /\ Candidate = Spend(utxos, picked, output, nonce)
         /\ picked \in SUBSET (DOMAIN utxos)
         /\ output \in 0..Surplus(utxos, picked)
         /\ nonce \in 0..(NonceRange - 1)
         /\ FirstHit(utxos, picked, output, nonce)
<1>1. Candidate = Spend(utxos, picked, output, nonce)
  BY DEF Candidate, Spend
<1>2. output \in 0..Surplus(utxos, picked)
  <2>1. output <= Surplus(utxos, picked) /\ Surplus(utxos, picked) \in Int
    BY SurplusIsInteger DEF SelectionInv, Spending, BuilderTypeOK
  <2> QED
    BY <2>1 DEF BuilderTypeOK
<1>3. Chosen(utxos, picked)
  BY DEF SelectionInv, Spending, Chosen
<1> QED
  BY <1>1, <1>2, <1>3 DEF SearchInv, Mining, FirstHit, BuilderTypeOK
=============================================================================
