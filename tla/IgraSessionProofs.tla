------------------------- MODULE IgraSessionProofs -------------------------
(***************************************************************************)
(* Theorems about IgraSession, for every set of environments, every fee    *)
(* schedule and every database.                                            *)
(*                                                                         *)
(*   1. helpers: the first failing check, the store operations             *)
(*   2. TypeOK, with the invariant of the builder                          *)
(*   3. what a session spends: the selection, the search, the retry        *)
(*   4. what each stage knows about the configuration and the packet       *)
(*   5. the opening of the store                                           *)
(***************************************************************************)
EXTENDS IgraSession, PayloadBuilderProofs, WellFoundedInduction

-----------------------------------------------------------------------------
(* 1. Helpers. *)

(* The order of the naturals, as the relation the library speaks of.       *)
LEMMA LessThanPair ==
  \A i, j \in Nat : i < j => <<i, j>> \in OpToRel(<, Nat)
  BY Zenon DEF OpToRel

(* A set of naturals that is not empty has a smallest member.              *)
LEMMA Smallest ==
  ASSUME NEW S \in SUBSET Nat, S # {}
  PROVE  \E i \in S : \A j \in S : i <= j
<1>1. PICK i \in S : \A j \in S : ~(<<j, i>> \in OpToRel(<, Nat))
  BY NatLessThanWellFounded, WFMin
<1>2. \A j \in S : ~(j < i)
  BY <1>1, LessThanPair
<1> QED
  BY <1>2

(* FirstFailing is "ok" only if everything passed, else a failing check. *)
LEMMA FirstFailingFinds ==
  ASSUME NEW checks, DOMAIN checks \subseteq Nat, NEW passed
  PROVE  LET first == FirstFailing(checks, passed) IN
         \/ first = "ok" /\ \A i \in DOMAIN checks : checks[i] \in passed
         \/ first \notin passed /\ \E i \in DOMAIN checks : first = checks[i]
<1> DEFINE failing == {i \in DOMAIN checks : checks[i] \notin passed}
<1>1. CASE failing = {}
  BY <1>1 DEF FirstFailing
<1>2. CASE failing # {}
  <2>1. failing \in SUBSET Nat
    OBVIOUS
  <2>2. PICK i \in failing : i = CHOOSE k \in failing : \A j \in failing : k <= j
    BY <1>2, <2>1, Smallest
  <2>3. FirstFailing(checks, passed) = checks[i]
    BY <1>2, <2>2 DEF FirstFailing
  <2> QED
    BY <2>2, <2>3
<1> QED
  BY <1>1, <1>2

(* What the guardrail lets pass is accepted field by field. *)
LEMMA GuardrailAccepts ==
  ASSUME NEW c \in Config, NEW unlocked \in BOOLEAN, NEW browser \in BOOLEAN,
         GuardrailError(c, unlocked, browser) = "ok", c.enabled
  PROVE  /\ ~unlocked /\ ~browser
         /\ c.kaspa_rpc_url \in Accepted.kaspa_rpc_url
         /\ c.kaspa_network \in Accepted.kaspa_network
         /\ c.tx_id_prefix \in Accepted.tx_id_prefix
         /\ c.payload_compression \in Accepted.payload_compression
<1> DEFINE passed == {f \in DOMAIN Accepted : c[f] \in Accepted[f]}
<1>1. FirstFailing(ValidationOrder, passed) = "ok"
  BY DEF GuardrailError, Validate
<1>2. /\ DOMAIN ValidationOrder = 1..12
      /\ ValidationOrder[1] # "ok" /\ ValidationOrder[2] # "ok"
      /\ ValidationOrder[3] # "ok" /\ ValidationOrder[4] # "ok"
      /\ ValidationOrder[5] # "ok" /\ ValidationOrder[6] # "ok"
      /\ ValidationOrder[7] # "ok" /\ ValidationOrder[8] # "ok"
      /\ ValidationOrder[9] # "ok" /\ ValidationOrder[10] # "ok"
      /\ ValidationOrder[11] # "ok" /\ ValidationOrder[12] # "ok"
  BY DEF ValidationOrder
<1>3. \A i \in DOMAIN ValidationOrder : ValidationOrder[i] # "ok"
  <2>1. \A i \in 1..12 : \/ i = 1 \/ i = 2 \/ i = 3 \/ i = 4 \/ i = 5 \/ i = 6
                        \/ i = 7 \/ i = 8 \/ i = 9 \/ i = 10 \/ i = 11 \/ i = 12
    OBVIOUS
  <2> QED
    BY <1>2, <2>1
<1>4. \A i \in DOMAIN ValidationOrder : ValidationOrder[i] \in passed
  BY <1>1, <1>2, <1>3, FirstFailingFinds
<1>5. {"kaspa_rpc_url", "kaspa_network", "tx_id_prefix", "payload_compression"}
        \subseteq passed
  <2>1. /\ {2, 4, 5, 12} \subseteq DOMAIN ValidationOrder
        /\ ValidationOrder[2] = "kaspa_rpc_url"
        /\ ValidationOrder[4] = "kaspa_network"
        /\ ValidationOrder[5] = "tx_id_prefix"
        /\ ValidationOrder[12] = "payload_compression"
    BY DEF ValidationOrder
  <2> QED
    BY <1>4, <2>1
<1> QED
  BY <1>5 DEF GuardrailError

(* submit_payload goes on only if every check passed. *)
LEMMA SubmitCheck ==
  LET error == FirstFailing(SubmitChecks, Passed) IN
  /\ error = "ok" =>
       {"tx_id_prefix", "payload_compression", "IGRA_PAYLOAD_001", "kaspa_rpc_url",
        "kaspa_network", "key"} \subseteq Passed
  /\ error # "ok" => /\ error \notin Passed
                     /\ error \in ConfigErrors \cup {"IGRA_PAYLOAD_001", "key"}
<1>2. /\ DOMAIN SubmitChecks = 1..6
      /\ SubmitChecks[1] = "tx_id_prefix" /\ SubmitChecks[2] = "payload_compression"
      /\ SubmitChecks[3] = "IGRA_PAYLOAD_001" /\ SubmitChecks[4] = "kaspa_rpc_url"
      /\ SubmitChecks[5] = "kaspa_network" /\ SubmitChecks[6] = "key"
  BY DEF SubmitChecks
<1>3. \A i \in DOMAIN SubmitChecks :
        /\ SubmitChecks[i] \in ConfigErrors \cup {"IGRA_PAYLOAD_001", "key"}
        /\ SubmitChecks[i] # "ok"
  <2>1. \A i \in 1..6 : i = 1 \/ i = 2 \/ i = 3 \/ i = 4 \/ i = 5 \/ i = 6
    OBVIOUS
  <2> QED
    BY <1>2, <2>1 DEF ConfigErrors
<1>4. CASE \A i \in DOMAIN SubmitChecks : SubmitChecks[i] \in Passed
  <2>1. {"tx_id_prefix", "payload_compression", "IGRA_PAYLOAD_001", "kaspa_rpc_url",
         "kaspa_network", "key"} \subseteq Passed
    BY <1>2, <1>4
  <2> QED
    BY <1>2, <1>3, <1>4, <2>1, FirstFailingFinds
<1>5. CASE ~\A i \in DOMAIN SubmitChecks : SubmitChecks[i] \in Passed
  BY <1>2, <1>3, <1>5, FirstFailingFinds
<1> QED
  BY <1>4, <1>5

-----------------------------------------------------------------------------
(* The store operations that a session runs or meets. *)
StoreStep ==
  \/ Reconcile(env.profile)
  \/ PruneByAge(CompletedState, CompletedHours)
  \/ PruneByAge(FailedState, FailedHours)
  \/ PruneBatch
  \/ \E h \in Hashes : WriteRow(h)

(* Deleting rows leaves the store well typed.                              *)
LEMMA DeleteRowsTypes ==
  ASSUME StoreTypeOK, NEW D, DeleteRows(D)
  PROVE  StoreTypeOK'
  BY DEF StoreTypeOK, DeleteRows

(* The rows stored after a step can be counted.                            *)
LEMMA StoredIsFiniteNext == Cardinality(Stored') \in Nat
<1>1. IsFiniteSet(Stored')
  BY MaintenanceAssumption, FS_Subset, Stored' \subseteq Hashes DEF Stored
<1> QED
  BY <1>1, FS_CardinalityType

(* Every statement of the opening leaves the store well typed.             *)
LEMMA StoreStepTypes ==
  ASSUME MaintenanceTypeOK, env \in Environment, StoreStep \/ UNCHANGED maintenanceVars
  PROVE  MaintenanceTypeOK'
<1>1. CASE Reconcile(env.profile)
  <2>1. StoreTypeOK'
    BY <1>1 DEF Environment, MaintenanceTypeOK, Reconcile, OpenHandle, StoreTypeOK
  <2> QED
    BY <1>1, <2>1 DEF MaintenanceTypeOK, Reconcile
<1>2. ASSUME NEW states, NEW hours, PruneByAge(states, hours)
      PROVE  MaintenanceTypeOK'
  BY <1>2, DeleteRowsTypes DEF MaintenanceTypeOK, PruneByAge
<1>3. CASE PruneBatch
  <2>1. StoreTypeOK'
    BY <1>3, DeleteRowsTypes DEF MaintenanceTypeOK, PruneBatch
  <2>2. fileSize' \in Nat
    BY <1>3, StoredIsFiniteNext, MaintenanceAssumption DEF MaintenanceTypeOK, PruneBatch
  <2> QED
    BY <1>3, <2>1, <2>2 DEF MaintenanceTypeOK, PruneBatch
<1>4. ASSUME NEW h \in Hashes, WriteRow(h)
      PROVE  MaintenanceTypeOK'
  <2>1. PICK r \in Requests, state \in TxLifecycleState :
          PersistTransition(h, r, storeProfile, state, None, None, "none", 0)
    BY <1>4 DEF WriteRow
  <2>2. Attempts(h) + 0 \in Nat
    BY DEF MaintenanceTypeOK, StoreTypeOK, TxMapRecord, Attempts
  <2>3. txMap' \in [Hashes -> TxMapRecord \cup {None}]
    BY <2>1, <2>2
    DEF PersistTransition, MaintenanceTypeOK, StoreTypeOK, TxMapRecord, KaspaRef, ErrorCode
  <2>4. StoreTypeOK'
    BY <1>4, <2>3 DEF WriteRow, MaintenanceTypeOK, StoreTypeOK
  <2>5. updatedAt' \in [Hashes -> 0..Now] /\ fileSize' \in Nat
    BY <1>4, MaintenanceAssumption DEF WriteRow, MaintenanceTypeOK
  <2> QED
    BY <1>4, <2>4, <2>5 DEF WriteRow, MaintenanceTypeOK
<1>5. CASE UNCHANGED maintenanceVars
  BY <1>5 DEF MaintenanceTypeOK, StoreTypeOK, maintenanceVars, storeVars
<1> QED
  BY <1>1, <1>2, <1>3, <1>4, <1>5 DEF StoreStep

-----------------------------------------------------------------------------
(* 2. Types. *)

(* Every step is a store step or leaves the store alone. *)
LEMMA StoreFrame ==
  ASSUME [Next]_vars
  PROVE  StoreStep \/ UNCHANGED maintenanceVars
<1>1. ASSUME SessionStep PROVE StoreStep \/ UNCHANGED maintenanceVars
  <2>1. CASE ReconcileProfile
    BY <2>1 DEF ReconcileProfile, StoreStep
  <2>2. CASE PruneCompleted
    BY <2>2 DEF PruneCompleted, StoreStep
  <2>3. CASE PruneFailed
    BY <2>3 DEF PruneFailed, StoreStep
  <2>4. CASE EnforceBudget
    BY <2>4 DEF EnforceBudget, StoreStep
  <2> QED
    BY <1>1, <2>1, <2>2, <2>3, <2>4
    DEF SessionStep, Guard, Configure, Attach, EndBudget, OpenFails, Call, Blocked,
        Submit, Connect, LoadUtxos, Build, EndBuild, Broadcast
<1>2. ASSUME OtherWrite PROVE StoreStep
  BY <1>2 DEF OtherWrite, StoreStep
<1> QED
  BY <1>1, <1>2 DEF Next, MiningClock, vars

(* Every step is a builder step, the start of a call, or leaves it alone. *)
LEMMA BuilderFrame ==
  ASSUME [Next]_vars
  PROVE  \/ BuilderStep \/ Expire \/ UNCHANGED builderVars
         \/ stage = "load" /\ BeginBuild(env.reads[attempt])
  BY DEF Next, SessionStep, vars, OtherWrite, MiningClock, Guard, Configure, Attach,
         ReconcileProfile, PruneCompleted, PruneFailed, EnforceBudget, EndBudget, OpenStep,
         OpenFails, Call, Blocked, Submit, Connect, LoadUtxos, Build, EndBuild, Broadcast

(* Every step of a session preserves the invariant of the builder.         *)
LEMMA BuilderPreserved ==
  ASSUME BuilderInv, env \in Environment, attempt \in Attempt, [Next]_vars
  PROVE  BuilderInv'
<1>1. env.reads[attempt] \in Seq(Utxo)
  BY DEF Environment
<1> QED
  BY <1>1, BuilderFrame, BuilderStepKeeps, BuilderUnchanged, BeginBuildKeeps

(* An override replaces one method and keeps everything else. *)
LEMMA FeeOverrideKeeps ==
  ASSUME NEW packet, IsPacket(packet)
  PROVE  LET new == FeeOverride(packet) IN
         /\ new \in Packet
         /\ new.batch = packet.batch
         /\ Len(new.requests) = Len(packet.requests)
         /\ DOMAIN new.requests = DOMAIN packet.requests
         /\ new.requests[1].method = "eth_gasPrice"
         /\ \A i \in DOMAIN packet.requests :
              /\ new.requests[i].id = packet.requests[i].id
              /\ i # 1 => new.requests[i] = packet.requests[i]
<1> DEFINE reqs == packet.requests
           first == [reqs[1] EXCEPT !.method = "eth_gasPrice"]
           changed == [reqs EXCEPT ![1] = first]
<1>1. reqs \in Seq(Request) /\ reqs # <<>> /\ packet.batch \in BOOLEAN
  BY DEF IsPacket, Packet
<1>2. 1 \in DOMAIN reqs /\ reqs[1] \in Request
  BY <1>1
<1>3. first \in Request /\ first.id = reqs[1].id /\ first.method = "eth_gasPrice"
  BY <1>2 DEF Request, Methods
<1>4. /\ changed \in Seq(Request) /\ Len(changed) = Len(reqs)
      /\ DOMAIN changed = DOMAIN reqs
      /\ changed[1] = first
      /\ \A i \in DOMAIN reqs : i # 1 => changed[i] = reqs[i]
  BY <1>1, <1>2, <1>3
<1>5. FeeOverride(packet) = [packet EXCEPT !.requests = changed]
  BY DEF FeeOverride
<1>6. /\ FeeOverride(packet).batch = packet.batch
      /\ FeeOverride(packet).requests = changed
      /\ FeeOverride(packet) \in Packet
  BY <1>1, <1>4, <1>5 DEF IsPacket, Packet
<1> QED
  BY <1>3, <1>4, <1>6

SessionInv ==
  /\ TypeOK
  /\ BuilderInv
  /\ env \in Environments

(* The environment of a session is one of those that were assumed.         *)
LEMMA KnownEnvironment ==
  ASSUME env \in Environments
  PROVE  env \in Environment /\ IsPacket(env.packet) /\ env.packet \in Packet
  BY SessionAssumption DEF IsPacket

(* A session starts well typed.                                            *)
LEMMA InitialTypes == Init => SessionInv
<1> SUFFICES ASSUME Init PROVE SessionInv
  OBVIOUS
<1>1. env \in Environments /\ env \in Environment
  BY KnownEnvironment DEF Init
<1>2. BuilderInv
  <2>1. env.rawLength \in Nat
    BY <1>1 DEF Environment
  <2> QED
    BY <2>1, BuilderInitially DEF Init
<1>3. MaintenanceTypeOK
  <2>1. env.database \in Database
    BY <1>1 DEF Environment
  <2> QED
    BY <2>1 DEF Init, Database, MaintenanceTypeOK, StoreTypeOK
<1>4. settings \in TransportSettings
  BY DEF Init, NewTransport, NoWallet, TransportSettings, NormalPrefixes, ElUrls, KaspaUrls, Networks,
         Compressions, IgraKaspaWalletConfig
<1>5. /\ stage \in Stage /\ handle \in BOOLEAN /\ attempt \in Attempt
      /\ drafts \in [Attempt -> Transaction \cup {None}]
      /\ forwarded \in Packet \cup {None} /\ answer \in Answers
  <2>1. stage \in Stage /\ answer \in Answers /\ handle \in BOOLEAN /\ attempt \in Attempt
    <3>1. stage = "guard" /\ answer = "none" /\ handle = FALSE /\ attempt = 0
      BY DEF Init
    <3>2. handle \in BOOLEAN
      BY <3>1, Zenon
    <3> QED
      BY <3>1, <3>2 DEF Stage, Attempt, Answers
  <2>2. drafts \in [Attempt -> Transaction \cup {None}] /\ forwarded \in Packet \cup {None}
    BY DEF Init
  <2> QED
    BY <2>1, <2>2
<1> QED
  BY <1>1, <1>2, <1>3, <1>4, <1>5 DEF SessionInv, TypeOK, BuilderInv

(* A step leaves the settings well typed.                                  *)
LEMMA SettingsTypes ==
  ASSUME SessionInv, [Next]_vars
  PROVE  settings' \in TransportSettings
<1>1. settings \in TransportSettings /\ env.config \in Config
  BY KnownEnvironment DEF SessionInv, TypeOK, Environment
<1>2. NormalizeHexPrefix(env.config.tx_id_prefix) \in NormalPrefixes
  BY <1>1 DEF Config, Prefixes, NormalizeHexPrefix, NormalPrefixes
<1>3. CASE Configure
  BY <1>1, <1>2, <1>3 DEF Configure, TransportSettings, Config
<1>4. CASE Attach
  BY <1>1, <1>4 DEF Attach, TransportSettings, Config, OrElse
<1>5. CASE ~Configure /\ ~Attach
  BY <1>1, <1>5
  DEF Next, SessionStep, vars, sessionVars, OtherWrite, MiningClock, Guard, ReconcileProfile,
      PruneCompleted, PruneFailed, EnforceBudget, EndBudget, OpenStep, OpenFails, Call, Forward,
      Blocked, Submit, Connect, LoadUtxos, Retry, Build, EndBuild, Broadcast, Answer
<1> QED
  BY <1>3, <1>4, <1>5

(* No step changes the environment.                                        *)
LEMMA SettingsFixed ==
  ASSUME [Next]_vars
  PROVE  env' = env
  BY DEF Next, SessionStep, vars, sessionVars, OtherWrite, MiningClock, Guard, Configure,
      Attach, ReconcileProfile, PruneCompleted, PruneFailed, EnforceBudget, EndBudget, OpenStep,
      OpenFails, Call, Forward, Blocked, Submit, Connect, LoadUtxos, Retry, Build, EndBuild,
      Broadcast, Answer

(* A step leaves stage, answer, handle and attempt well typed.             *)
LEMMA AnswerTypes ==
  ASSUME SessionInv, [Next]_vars
  PROVE  /\ stage' \in Stage /\ answer' \in Answers
         /\ handle' \in BOOLEAN /\ attempt' \in Attempt
<1>1. stage \in Stage /\ answer \in Answers /\ handle \in BOOLEAN /\ attempt \in Attempt
  BY DEF SessionInv, TypeOK
<1>2. CASE Submit
  BY <1>1, <1>2, SubmitCheck DEF Submit, Answer, Goto, Stage, Answers
<1>3. CASE Guard \/ Configure \/ Attach \/ Call
  BY <1>1, <1>3
  DEF Guard, Configure, Attach, Call, Forward, Answer, Goto, Stage, OpenStage, Answers
<1>4. CASE \/ ReconcileProfile \/ PruneCompleted \/ PruneFailed \/ EnforceBudget
           \/ EndBudget \/ OpenFails
  BY <1>1, <1>4
  DEF ReconcileProfile, PruneCompleted, PruneFailed, EnforceBudget, EndBudget, OpenFails,
      OpenStep, Answer, Goto, Stage, OpenStage, Answers
<1>5. CASE Blocked \/ Connect \/ LoadUtxos \/ EndBuild \/ Broadcast
  BY <1>1, <1>5
  DEF Blocked, Connect, LoadUtxos, Retry, EndBuild, Broadcast, Answer, Goto, Stage, Answers,
      ConfigErrors, NodeAnswers, Attempt
<1>6. CASE Build \/ MiningClock \/ OtherWrite \/ UNCHANGED vars
  BY <1>1, <1>6 DEF Build, MiningClock, OtherWrite, vars, sessionVars
<1> QED
  BY <1>2, <1>3, <1>4, <1>5, <1>6 DEF Next, SessionStep

(* A step leaves the drafts and the forwarded packet well typed.           *)
LEMMA HistoryTypes ==
  ASSUME SessionInv, [Next]_vars
  PROVE  /\ drafts' \in [Attempt -> Transaction \cup {None}]
         /\ forwarded' \in Packet \cup {None}
<1>1. /\ drafts \in [Attempt -> Transaction \cup {None}]
      /\ forwarded \in Packet \cup {None}
      /\ attempt \in Attempt /\ BuilderTypeOK
  BY DEF SessionInv, TypeOK
<1>2. CASE EndBuild
  BY <1>1, <1>2, CandidateType DEF EndBuild, Answer
<1>3. CASE Call
  BY <1>1, <1>3, KnownEnvironment, FeeOverrideKeeps DEF SessionInv, Call, Forward, Answer
<1>4. CASE ~EndBuild /\ ~Call
  BY <1>1, <1>4
  DEF Next, SessionStep, vars, sessionVars, OtherWrite, MiningClock, Guard, Configure, Attach,
      ReconcileProfile, PruneCompleted, PruneFailed, EnforceBudget, EndBudget, OpenStep,
      OpenFails, Blocked, Submit, Connect, LoadUtxos, Retry, Build, Broadcast, Answer
<1> QED
  BY <1>2, <1>3, <1>4

(* Together: every step leaves the session well typed.                     *)
LEMMA TypesPreserved == SessionInv /\ [Next]_vars => SessionInv'
<1> SUFFICES ASSUME SessionInv, [Next]_vars PROVE SessionInv'
  OBVIOUS
<1>1. env \in Environments /\ env \in Environment /\ env' = env
  BY KnownEnvironment, SettingsFixed DEF SessionInv
<1>2. BuilderInv'
  BY <1>1, BuilderPreserved DEF SessionInv, TypeOK
<1>3. MaintenanceTypeOK'
  BY <1>1, StoreFrame, StoreStepTypes DEF SessionInv, TypeOK
<1> QED
  BY <1>1, <1>2, <1>3, SettingsTypes, AnswerTypes, HistoryTypes
  DEF SessionInv, TypeOK, BuilderInv

(* Hence the session stays well typed.                                     *)
LEMMA SessionAlways == Spec => []SessionInv
  BY InitialTypes, TypesPreserved, PTL DEF Spec

(* Every reachable state of a session is well typed; in particular the     *)
(* output of the transaction never falls below zero and the nonce stays    *)
(* in its four bytes.                                                      *)
THEOREM SpecTypeOK == Spec => []TypeOK
  BY SessionAlways, PTL DEF SessionInv

(* Mining never hashes the same candidate twice, as long as there is       *)
(* change to give up.                                                      *)
THEOREM SpecNoCandidateTwice == Spec => []NoCandidateTwice
<1>1. SessionInv => NoCandidateTwice
  BY OrderIsStrict DEF SessionInv
<1> QED
  BY <1>1, SessionAlways, PTL

(* The transaction pays the estimated fee and one unit more for each full  *)
(* round of nonces.                                                        *)
THEOREM SpecEveryRoundCostsOne == Spec => []EveryRoundCostsOne
<1>1. SessionInv => EveryRoundCostsOne
  BY DEF SessionInv, BuilderInv
<1> QED
  BY <1>1, SessionAlways, PTL

-----------------------------------------------------------------------------
(* 3. What a session spends: the selection, and the search of each attempt. *)

(* The transaction of an attempt is the first hit of the best choice from  *)
(* what that attempt read.                                                 *)
DraftKnown(a) ==
  drafts[a] # None =>
    \E P \in SUBSET (DOMAIN env.reads[a]), n \in 0..(NonceRange - 1) :
      \E o \in 0..Surplus(env.reads[a], P) :
        /\ drafts[a] = Spend(env.reads[a], P, o, n)
        /\ FirstHit(env.reads[a], P, o, n)

BuildsFromRead == stage \in {"build", "broadcast"} => utxos = env.reads[attempt]

ChoiceInv ==
  /\ SessionInv
  /\ SelectionInv
  /\ SearchInv
  /\ BuildsFromRead
  /\ \A a \in Attempt : DraftKnown(a)

(* What an attempt reads is a sequence of UTXOs.                           *)
LEMMA ReadsTypes ==
  ASSUME SessionInv
  PROVE  attempt \in Attempt /\ \A a \in Attempt : env.reads[a] \in Seq(Utxo)
  BY KnownEnvironment DEF SessionInv, TypeOK, Environment

(* What happens to the builder in a step of the session. *)
LEMMA BuilderMoves ==
  ASSUME SessionInv, [Next]_vars
  PROVE  \/ BuilderStep \/ Expire \/ UNCHANGED builderVars
         \/ \E offer \in Seq(Utxo) : BeginBuild(offer)
  BY BuilderFrame, ReadsTypes

(* While an attempt builds and broadcasts it works with what it read.      *)
LEMMA BuildFrame ==
  ASSUME BuildsFromRead, [Next]_vars
  PROVE  BuildsFromRead'
<1>1. CASE LoadUtxos
  BY <1>1 DEF LoadUtxos, BuildsFromRead, BeginBuild, Goto, Answer, Retry
<1>2. CASE Build \/ MiningClock
  BY <1>2 DEF Build, MiningClock, sessionVars, BuilderStep, Mine, Take, Settle, Refuse,
              MineMiss, MineHit, MiningTimeout, Sign, Expire, BuildsFromRead
<1>3. CASE EndBuild \/ Broadcast \/ UNCHANGED vars
  BY <1>3 DEF EndBuild, Broadcast, Goto, Answer, Retry, vars, sessionVars, builderVars,
              BuildsFromRead
<1>4. CASE OtherWrite
  BY <1>4 DEF OtherWrite, sessionVars, builderVars, BuildsFromRead
<1>5. CASE \/ Guard \/ Configure \/ Attach
           \/ ReconcileProfile \/ PruneCompleted \/ PruneFailed \/ EnforceBudget
           \/ EndBudget \/ OpenFails \/ Call \/ Blocked \/ Submit \/ Connect
  <2>1. stage' \notin {"build", "broadcast"}
    BY <1>5 DEF Guard, Configure, Attach, ReconcileProfile, PruneCompleted, PruneFailed,
                EnforceBudget, EndBudget, OpenFails, Call, Forward, Blocked, Submit,
                Connect, Goto, Answer, OpenStep
  <2> QED
    BY <2>1 DEF BuildsFromRead
<1> QED
  BY <1>1, <1>2, <1>3, <1>4, <1>5 DEF Next, SessionStep

(* Only the end of a build records a transaction. *)
LEMMA DraftFrame ==
  ASSUME [Next]_vars
  PROVE  \/ drafts' = drafts
         \/ /\ stage = "build" /\ build = "built"
            /\ drafts' = [drafts EXCEPT ![attempt] = Candidate]
            /\ UNCHANGED builderVars
<1>1. CASE EndBuild
  BY <1>1 DEF EndBuild, Goto, Answer
<1>2. CASE OtherWrite \/ MiningClock \/ Build \/ UNCHANGED vars
  BY <1>2 DEF OtherWrite, MiningClock, Build, sessionVars, vars
<1>3. CASE \/ Guard \/ Configure \/ Attach
           \/ ReconcileProfile \/ PruneCompleted \/ PruneFailed \/ EnforceBudget
           \/ EndBudget \/ OpenFails
  BY <1>3 DEF Guard, Configure, Attach, ReconcileProfile, PruneCompleted, PruneFailed,
              EnforceBudget, EndBudget, OpenFails, OpenStep, Answer
<1>4. CASE Call \/ Blocked \/ Submit \/ Connect \/ LoadUtxos \/ Broadcast
  BY <1>4 DEF Call, Forward, Blocked, Submit, Connect, LoadUtxos, Retry, Broadcast, Answer
<1> QED
  BY <1>1, <1>2, <1>3, <1>4 DEF Next, SessionStep

(* A session starts with no draft and no choice.                           *)
LEMMA ChoiceInitially == Init => ChoiceInv
<1> SUFFICES ASSUME Init PROVE ChoiceInv
  OBVIOUS
<1>1. SessionInv
  BY InitialTypes
<1>2. SelectionInv
  <2>1. env.rawLength \in Nat
    BY <1>1, KnownEnvironment DEF SessionInv, Environment
  <2> QED
    BY <2>1, PaymentInitially DEF Init
<1>3. SearchInv
  BY DEF Init, BuilderInit, SearchInv, Mining
<1>4. \A a \in Attempt : drafts[a] = None
  BY DEF Init
<1> QED
  BY <1>1, <1>2, <1>3, <1>4 DEF ChoiceInv, DraftKnown, BuildsFromRead, Init

(* A draft is written only when built, and then stays a first hit.         *)
LEMMA DraftsPreserved ==
  ASSUME ChoiceInv, [Next]_vars, NEW a \in Attempt
  PROVE  DraftKnown(a)'
<1>1. /\ UNCHANGED l2data /\ misses \subseteq misses' /\ hits \subseteq hits'
      /\ env' = env
  BY BuilderMoves, HistoriesGrow, SettingsFixed DEF ChoiceInv
<1> DEFINE u == env.reads[a]
<1>2. ASSUME NEW c, NEW P \in SUBSET (DOMAIN u), NEW n \in 0..(NonceRange - 1),
             NEW o \in 0..Surplus(u, P), c = Spend(u, P, o, n), FirstHit(u, P, o, n),
             drafts'[a] = c
      PROVE  DraftKnown(a)'
  <2>1. FirstHit(u, P, o, n)'
    <3>1. Searched(u, P, o, n)'
      BY <1>1, <1>2 DEF FirstHit, Searched, Surplus, EstimatedFee, PayloadLength, Spend,
                        Before
    <3>2. Chosen(u, P)'
      BY <1>1, <1>2 DEF FirstHit, Chosen, LargestFirst, Pays, FewerDoNotPay, Surplus,
                        EstimatedFee, PayloadLength
    <3>3. (Spend(u, P, o, n) \in hits)'
      BY <1>1, <1>2 DEF FirstHit, Spend
    <3> QED
      BY <3>1, <3>2, <3>3 DEF FirstHit
  <2>2. Surplus(u, P)' = Surplus(u, P)
    BY <1>1 DEF Surplus, EstimatedFee, PayloadLength
  <2>3. Spend(u, P, o, n)' = Spend(u, P, o, n)
    BY <1>1 DEF Spend
  <2> QED
    BY <1>1, <1>2, <2>1, <2>2, <2>3 DEF DraftKnown
<1>3. CASE drafts'[a] = drafts[a]
  <2>1. CASE drafts[a] = None
    BY <1>3, <2>1 DEF DraftKnown
  <2>2. CASE drafts[a] # None
    <3>1. PICK P \in SUBSET (DOMAIN u), n \in 0..(NonceRange - 1) :
            \E o \in 0..Surplus(u, P) :
              drafts[a] = Spend(u, P, o, n) /\ FirstHit(u, P, o, n)
      BY <2>2 DEF ChoiceInv, DraftKnown
    <3>2. PICK o \in 0..Surplus(u, P) :
            drafts[a] = Spend(u, P, o, n) /\ FirstHit(u, P, o, n)
      BY <3>1
    <3> QED
      BY <1>2, <1>3, <3>2
  <2> QED
    BY <2>1, <2>2
<1>4. CASE /\ stage = "build" /\ build = "built"
           /\ drafts' = [drafts EXCEPT ![attempt] = Candidate]
           /\ a = attempt
  <2>1. utxos = u
    BY <1>4 DEF ChoiceInv, BuildsFromRead
  <2>2. drafts'[a] = Candidate
    BY <1>4 DEF ChoiceInv, SessionInv, TypeOK
  <2>3. /\ Candidate = Spend(u, picked, output, nonce)
        /\ picked \in SUBSET (DOMAIN u)
        /\ output \in 0..Surplus(u, picked)
        /\ nonce \in 0..(NonceRange - 1)
        /\ FirstHit(u, picked, output, nonce)
    BY <1>4, <2>1, BuiltIsFirstHit DEF ChoiceInv, SessionInv, TypeOK
  <2> QED
    BY <1>2, <2>2, <2>3
<1> QED
  <2>1. a # attempt /\ drafts' = [drafts EXCEPT ![attempt] = Candidate]
          => drafts'[a] = drafts[a]
    BY DEF ChoiceInv, SessionInv, TypeOK
  <2> QED
    BY <1>3, <1>4, <2>1, DraftFrame

(* Every step preserves what is known of choices and drafts.               *)
LEMMA ChoicePreserved == ChoiceInv /\ [Next]_vars => ChoiceInv'
<1> SUFFICES ASSUME ChoiceInv, [Next]_vars PROVE ChoiceInv'
  OBVIOUS
<1>1. SessionInv'
  BY TypesPreserved DEF ChoiceInv
<1>2. BuilderTypeOK /\ (nonce = 0 \/ build # "select")
  BY DEF ChoiceInv, SessionInv, BuilderInv
<1>3. SelectionInv'
  BY <1>2, BuilderMoves, SelectionKept, BeginBuildSelects DEF ChoiceInv
<1>4. SearchInv'
  BY <1>2, BuilderMoves, SearchKept DEF ChoiceInv
<1>5. BuildsFromRead'
  BY BuildFrame DEF ChoiceInv
<1> QED
  BY <1>1, <1>3, <1>4, <1>5, DraftsPreserved DEF ChoiceInv

(* Hence it is known in every reachable state.                             *)
LEMMA ChoiceAlways == Spec => []ChoiceInv
  BY ChoiceInitially, ChoicePreserved, PTL DEF Spec

(* What an attempt broadcasts is determined by what it read: its inputs    *)
(* are the fewest largest ones that pay, and of the candidates with these  *)
(* inputs, in the order of falling output and rising nonce, it is the      *)
(* first whose id has the prefix.                                          *)
THEOREM SpecDraftsAreFirstHits == Spec => [](\A a \in Attempt : DraftKnown(a))
  BY ChoiceAlways, PTL DEF ChoiceInv

(* If the second read of the wallet is the same as the first one, both     *)
(* attempts broadcast the same transaction: each is the first hit of the   *)
(* same search, and what missed for the one has missed for the other.      *)
THEOREM SpecRetryRebuilds == Spec => []RetryRebuilds
<1>1. ASSUME ChoiceInv, env.reads[0] = env.reads[1], drafts[0] # None, drafts[1] # None
      PROVE  drafts[0] = drafts[1]
  <2> DEFINE u == env.reads[0]
  <2>1. /\ DraftKnown(0) /\ DraftKnown(1) /\ u \in Seq(Utxo)
        /\ BuilderTypeOK /\ hits \cap misses = {}
    BY <1>1, ReadsTypes DEF ChoiceInv, Attempt, SessionInv, TypeOK, SearchInv
  <2>2. PICK P \in SUBSET (DOMAIN u), n \in 0..(NonceRange - 1) :
          \E o \in 0..Surplus(u, P) :
            drafts[0] = Spend(u, P, o, n) /\ FirstHit(u, P, o, n)
    BY <1>1, <2>1 DEF DraftKnown
  <2>3. PICK o \in 0..Surplus(u, P) :
          drafts[0] = Spend(u, P, o, n) /\ FirstHit(u, P, o, n)
    BY <2>2
  <2>4. PICK Q \in SUBSET (DOMAIN u), m \in 0..(NonceRange - 1) :
          \E v \in 0..Surplus(u, Q) :
            drafts[1] = Spend(u, Q, v, m) /\ FirstHit(u, Q, v, m)
    BY <1>1, <2>1 DEF DraftKnown
  <2>5. PICK v \in 0..Surplus(u, Q) :
          drafts[1] = Spend(u, Q, v, m) /\ FirstHit(u, Q, v, m)
    BY <2>4
  <2> QED
    BY <2>1, <2>3, <2>5, FirstHitIsUnique
<1>2. ChoiceInv => RetryRebuilds
  BY <1>1 DEF RetryRebuilds
<1> QED
  BY <1>2, ChoiceAlways, PTL

(* The inputs that are spent are as few as could pay, a refusal means that *)
(* no choice could have paid, and afterwards change is given up one unit   *)
(* at a time: largest first implements FeePayment, through both attempts.  *)
THEOREM SpecImplementsFeePayment == Spec => ImplementsFeePayment
<1>1. Init => Payment!Init
  <2> SUFFICES ASSUME Init PROVE Payment!Init
    OBVIOUS
  <2>1. env.rawLength \in Nat
    BY KnownEnvironment DEF Init, Environment
  <2> QED
    BY <2>1, PaymentInitially DEF Init
<1>2. ChoiceInv /\ [Next]_vars => [Payment!Next]_(Payment!paymentVars)
  <2> SUFFICES ASSUME ChoiceInv, [Next]_vars
               PROVE  [Payment!Next]_(Payment!paymentVars)
    OBVIOUS
  <2>1. BuilderTypeOK /\ SelectionInv
    BY DEF ChoiceInv, SessionInv, BuilderInv
  <2> QED
    BY <2>1, BuilderMoves, BuilderImplementsPayment DEF ChoiceInv
<1> QED
  BY <1>1, <1>2, ChoiceAlways, PTL DEF Spec, ImplementsFeePayment, Payment!Spec

-----------------------------------------------------------------------------
(* 4. What each stage knows about the configuration and the packet. *)

Refusals == {"invalidConfig", "IGRA_SIG_001"}
Checks ==
  {"tx_id_prefix", "payload_compression", "IGRA_PAYLOAD_001", "kaspa_rpc_url",
   "kaspa_network", "key"}

Packed == Route(Enabled, env.packet)

AnswerLast == stage # "answered" => answer = "none"

LengthKept == l2data = env.rawLength

PastGuard ==
  stage # "guard" /\ answer \notin Refusals /\ env.guarded =>
    GuardrailError(env.config, env.unlocked, env.browser) = "ok"

(* The fields are those of the configuration, or there is no prefix. *)
SettingsKnown ==
  /\ stage \in {"guard", "configure"} => settings = NewTransport
  /\ stage \notin {"guard", "configure"} /\ answer \notin Refusals =>
       /\ env.configured =>
            /\ settings.tx_id_prefix = NormalizeHexPrefix(env.config.tx_id_prefix)
            /\ settings.kaspa_rpc_url = env.config.kaspa_rpc_url
            /\ settings.kaspa_network = env.config.kaspa_network
            /\ settings.payload_compression = env.config.payload_compression
            /\ settings.kaspa_wallet = env.config.kaspa_wallet
       /\ ~env.configured => settings.tx_id_prefix = "missing"

RouteKnown ==
  /\ \/ stage \in {"submit", "connect", "load", "build", "broadcast"}
     \/ answer \in ConfigErrors \cup NodeAnswers \cup {"url", "key"}
     => Packed = "kaspa"
  /\ answer = "rejected" => Packed = "reject"
  /\ forwarded # None =>
       \/ Packed = "forward" /\ forwarded = env.packet
       \/ Packed = "override" /\ forwarded = FeeOverride(env.packet)

ChecksPassed ==
  /\ stage \in {"connect", "load", "build", "broadcast"} \/ answer \in NodeAnswers =>
       Checks \subseteq Passed
  /\ stage \in {"load", "build", "broadcast"} \/ answer \in NodeAnswers =>
       settings.tx_id_prefix \in {"prefixed", "hex"} /\ settings.kaspa_rpc_url = "ok"

(* An error about a setting names the check that failed. *)
ErrorJustified ==
  /\ answer \in ConfigErrors \cup {"key"} =>
       \/ answer \notin Passed
       \/ answer = "tx_id_prefix" /\ NormalizeHexPrefix(settings.tx_id_prefix) # "hex"
  /\ answer = "url" => ~GrpcClientTakes(settings.kaspa_rpc_url)

FlowInv ==
  /\ SessionInv
  /\ AnswerLast
  /\ LengthKept
  /\ PastGuard
  /\ SettingsKnown
  /\ RouteKnown
  /\ ChecksPassed
  /\ ErrorJustified

(* Nothing is known before the first stage.                                *)
LEMMA FlowInitially == Init => FlowInv
<1> SUFFICES ASSUME Init PROVE FlowInv
  OBVIOUS
<1>1. /\ stage = "guard" /\ answer = "none" /\ settings = NewTransport
      /\ l2data = env.rawLength /\ forwarded = None
  BY DEF Init, BuilderInit
<1> QED
  BY <1>1, InitialTypes
  DEF FlowInv, AnswerLast, LengthKept, PastGuard, SettingsKnown, RouteKnown, ChecksPassed,
      ErrorJustified, ConfigErrors, NodeAnswers

(* The length of the raw transaction is fixed.                             *)
LEMMA LengthFixed ==
  ASSUME FlowInv, [Next]_vars
  PROVE  LengthKept'
<1>1. l2data' = l2data
  BY BuilderFrame
  DEF BuilderStep, Mine, Take, Settle, Refuse, MineMiss, MineHit, MiningTimeout, Sign, Expire,
      BeginBuild, builderVars
<1> QED
  BY <1>1, SettingsFixed DEF FlowInv, LengthKept

(* The checks depend on the settings and the length of the data only. *)
LEMMA PassedFixed ==
  ASSUME l2data' = l2data, settings' = settings
  PROVE  Passed' = Passed
  BY DEF Passed, KnownNetwork, ResolvesKaspaPrivateKey, KeystoreOpens, HasKaspaAddress

(* The session up to the routing of its packet. *)
LEMMA PreparationKeepsFlow ==
  ASSUME FlowInv, Guard \/ Configure \/ Attach,
         SessionInv', LengthKept'
  PROVE  FlowInv'
<1> USE DEF Goto, Answer
<1>1. env' = env /\ answer = "none" /\ forwarded' = forwarded
  BY DEF Guard, Configure, Attach, FlowInv, AnswerLast
<1>2. CASE Guard
  <2>1. stage = "guard" /\ settings' = settings /\ settings = NewTransport
    BY <1>2 DEF Guard, FlowInv, SettingsKnown
  <2>2. \/ stage' = "configure" /\ answer' = "none"
           /\ (env.guarded => GuardrailError(env.config, env.unlocked, env.browser) = "ok")
        \/ stage' = "answered" /\ answer' \in Refusals
    BY <1>1, <1>2 DEF Guard, Refusals
  <2> QED
    BY <1>1, <2>1, <2>2
    DEF FlowInv, AnswerLast, PastGuard, SettingsKnown, RouteKnown, ChecksPassed, Packed, Enabled,
        ErrorJustified, ConfigErrors, NodeAnswers, Refusals
<1>3. CASE Configure
  <2>1. stage = "configure" /\ stage' = "attach" /\ answer' = "none"
    BY <1>1, <1>3 DEF Configure
  <2>2. SettingsKnown'
    BY <1>1, <1>3, <2>1
    DEF Configure, FlowInv, SettingsKnown, NewTransport
  <2> QED
    BY <1>1, <2>1, <2>2
    DEF FlowInv, AnswerLast, PastGuard, RouteKnown, ChecksPassed, Packed, Enabled,
        ErrorJustified, ConfigErrors, NodeAnswers, Refusals
<1>4. CASE Attach
  <2>1. /\ stage = "attach" /\ stage' \in {"reconcile", "route"} /\ answer' = "none"
    BY <1>1, <1>4 DEF Attach
  <2>2. /\ settings'.tx_id_prefix = settings.tx_id_prefix
        /\ settings'.payload_compression = settings.payload_compression
        /\ settings'.kaspa_wallet = settings.kaspa_wallet
        /\ settings'.kaspa_rpc_url \in
             {settings.kaspa_rpc_url, OrElse(settings.kaspa_rpc_url, env.config.kaspa_rpc_url)}
        /\ settings'.kaspa_network \in
             {settings.kaspa_network, OrElse(settings.kaspa_network, env.config.kaspa_network)}
    BY <1>4 DEF Attach, FlowInv, SessionInv, TypeOK, TransportSettings
  <2>3. SettingsKnown'
    BY <1>1, <2>1, <2>2 DEF FlowInv, SettingsKnown, OrElse, Refusals
  <2> QED
    BY <1>1, <2>1, <2>3
    DEF FlowInv, AnswerLast, PastGuard, RouteKnown, ChecksPassed, Packed, Enabled,
        ErrorJustified, ConfigErrors, NodeAnswers, Refusals
<1> QED
  BY <1>2, <1>3, <1>4

(* From here on the settings do not change. *)
LEMMA OpeningKeepsFlow ==
  ASSUME FlowInv,
         \/ ReconcileProfile \/ PruneCompleted \/ PruneFailed \/ EnforceBudget
         \/ EndBudget \/ OpenFails,
         SessionInv', LengthKept'
  PROVE  FlowInv'
<1>1. /\ env' = env /\ settings' = settings /\ forwarded' = forwarded
      /\ stage \in OpenStage /\ stage' \in OpenStage \cup {"route", "answered"}
      /\ answer = "none"
      /\ answer' \in {"none", "store"}
      /\ stage' # "answered" => answer' = "none"
  BY DEF ReconcileProfile, PruneCompleted, PruneFailed, EnforceBudget, EndBudget, OpenFails,
         OpenStep, Goto, Answer, FlowInv, AnswerLast, OpenStage
<1> QED
  BY <1>1
  DEF FlowInv, AnswerLast, PastGuard, SettingsKnown, RouteKnown, ChecksPassed, Packed, Enabled,
      ErrorJustified, ConfigErrors, NodeAnswers, Refusals, OpenStage

(* Routing a packet preserves what the stages know.                        *)
LEMMA CallKeepsFlow ==
  ASSUME FlowInv, Call, SessionInv', LengthKept'
  PROVE  FlowInv'
<1>1. /\ env' = env /\ settings' = settings /\ stage = "route" /\ answer = "none"
      /\ forwarded = None \/ Packed \in {"forward", "override"}
  BY DEF Call, Forward, Goto, Answer, FlowInv, AnswerLast, RouteKnown
<1>2. \/ /\ stage' = "answered" /\ answer' = "forwarded"
         /\ \/ Packed = "forward" /\ forwarded' = env.packet
            \/ Packed = "override" /\ forwarded' = FeeOverride(env.packet)
      \/ /\ Packed = "reject" /\ stage' = "answered" /\ answer' = "rejected"
         /\ forwarded' = forwarded
      \/ /\ Packed = "kaspa" /\ stage' = "submit" /\ answer' = "none"
         /\ forwarded' = forwarded
  BY <1>1 DEF Call, Forward, Goto, Answer, Packed
<1>3. Packed' = Packed /\ FeeOverride(env.packet)' = FeeOverride(env.packet)
  BY <1>1 DEF Packed, Enabled, FeeOverride
<1> QED
  BY <1>1, <1>2, <1>3
  DEF FlowInv, AnswerLast, PastGuard, SettingsKnown, RouteKnown, ChecksPassed,
      ErrorJustified, ConfigErrors, NodeAnswers, Refusals

(* So do the stages of a submission.                                       *)
LEMMA SubmissionKeepsFlow ==
  ASSUME FlowInv,
         Submit \/ Blocked \/ Connect \/ LoadUtxos \/ EndBuild \/ Broadcast,
         SessionInv', LengthKept'
  PROVE  FlowInv'
<1>1. /\ env' = env /\ settings' = settings /\ forwarded' = forwarded
      /\ stage \in {"submit", "connect", "load", "build", "broadcast"}
      /\ answer = "none"
      /\ stage' \in {"submit", "connect", "load", "build", "broadcast", "answered"}
      /\ stage' # "answered" => answer' = "none"
      /\ answer' \notin Refusals
      /\ answer' # "rejected"
  <2>1. CASE Submit
    BY <2>1, SubmitCheck
    DEF Submit, Goto, Answer, FlowInv, AnswerLast, Refusals, ConfigErrors
  <2>2. CASE Blocked \/ Connect \/ LoadUtxos \/ EndBuild \/ Broadcast
    BY <2>2
    DEF Blocked, Connect, LoadUtxos, Retry, EndBuild, Broadcast, Goto, Answer,
        FlowInv, AnswerLast, Refusals
  <2> QED
    BY <2>1, <2>2
<1>2. Packed' = Packed /\ FeeOverride(env.packet)' = FeeOverride(env.packet)
  BY <1>1 DEF Packed, Enabled, FeeOverride
<1>3. Passed' = Passed
  BY <1>1, PassedFixed DEF FlowInv, LengthKept
<1>4. RouteKnown'
  BY <1>1, <1>2 DEF FlowInv, RouteKnown
<1>5. ChecksPassed' /\ ErrorJustified'
  <2>1. CASE Submit
    <3>1. \/ stage' = "connect" /\ answer' = "none" /\ Checks \subseteq Passed
          \/ stage' = "answered" /\ answer' \notin Passed
             /\ answer' \in ConfigErrors \cup {"IGRA_PAYLOAD_001", "key"}
      BY <1>1, <2>1, SubmitCheck DEF Submit, Goto, Answer, Checks
    <3> QED
      BY <1>1, <1>3, <3>1 DEF ChecksPassed, ErrorJustified, ConfigErrors, NodeAnswers
  <2>2. CASE Connect
    <3>1. \/ stage' = "answered" /\ answer' = "connect"
          \/ stage' = "answered" /\ answer' = "url"
             /\ ~GrpcClientTakes(settings.kaspa_rpc_url)
          \/ stage' = "answered" /\ answer' = "tx_id_prefix"
             /\ NormalizeHexPrefix(settings.tx_id_prefix) # "hex"
          \/ stage' = "load" /\ answer' = "none"
             /\ NormalizeHexPrefix(settings.tx_id_prefix) = "hex"
             /\ GrpcClientTakes(settings.kaspa_rpc_url)
      BY <1>1, <2>2 DEF Connect, Goto, Answer
    <3>2. settings.tx_id_prefix \in NormalPrefixes
      BY DEF FlowInv, SessionInv, TypeOK, TransportSettings
    <3>3. NormalizeHexPrefix(settings.tx_id_prefix) = "hex"
            => settings.tx_id_prefix \in {"prefixed", "hex"}
      BY <3>2 DEF NormalizeHexPrefix, NormalPrefixes
    <3>4. Checks \subseteq Passed
      BY <2>2 DEF Connect, Goto, Answer, FlowInv, ChecksPassed
    <3> QED
      BY <1>1, <1>3, <3>1, <3>3, <3>4
      DEF ChecksPassed, ErrorJustified, ConfigErrors, NodeAnswers, GrpcClientTakes
  <2>3. CASE Blocked
    <3>1. stage' = "answered" /\ answer' = "blocked"
      BY <2>3 DEF Blocked, Goto, Answer
    <3> QED
      BY <3>1 DEF ChecksPassed, ErrorJustified, ConfigErrors, NodeAnswers
  <2>4. CASE LoadUtxos \/ EndBuild \/ Broadcast
    <3>1. stage \in {"load", "build", "broadcast"}
          /\ answer' \notin ConfigErrors \cup {"url", "key"}
      BY <1>1, <2>4
      DEF LoadUtxos, Retry, EndBuild, Broadcast, Goto, Answer, ConfigErrors
    <3> QED
      BY <1>1, <1>3, <3>1 DEF FlowInv, ChecksPassed, ErrorJustified
  <2> QED
    BY <2>1, <2>2, <2>3, <2>4
<1> QED
  BY <1>1, <1>4, <1>5
  DEF FlowInv, AnswerLast, PastGuard, SettingsKnown, Refusals

(* Every step preserves what the stages know.                              *)
LEMMA FlowPreserved == FlowInv /\ [Next]_vars => FlowInv'
<1> SUFFICES ASSUME FlowInv, [Next]_vars PROVE FlowInv'
  OBVIOUS
<1>1. SessionInv' /\ LengthKept'
  BY TypesPreserved, LengthFixed DEF FlowInv
<1>2. CASE UNCHANGED sessionVars
  <2>1. Passed' = Passed
    BY <1>1, <1>2, PassedFixed DEF sessionVars, FlowInv, LengthKept
  <2>2. Packed' = Packed /\ FeeOverride(env.packet)' = FeeOverride(env.packet)
    BY <1>2 DEF sessionVars, Packed, Enabled, FeeOverride
  <2> QED
    BY <1>1, <1>2, <2>1, <2>2
    DEF sessionVars, FlowInv, AnswerLast, PastGuard, SettingsKnown, RouteKnown, ChecksPassed,
        ErrorJustified
<1> QED
  BY <1>1, <1>2, PreparationKeepsFlow, OpeningKeepsFlow, CallKeepsFlow, SubmissionKeepsFlow
  DEF Next, SessionStep, Build, MiningClock, OtherWrite, vars

(* Hence the stages know it in every reachable state.                      *)
LEMMA FlowAlways == Spec => []FlowInv
  BY FlowInitially, FlowPreserved, PTL DEF Spec

(* A check that passed means that its setting holds.                       *)
LEMMA PassedMeans ==
  /\ "tx_id_prefix" \in Passed <=> settings.tx_id_prefix # "missing"
  /\ "payload_compression" \in Passed <=>
       settings.payload_compression \in SupportedCompression
  /\ "IGRA_PAYLOAD_001" \in Passed <=> l2data <= MaxL2Data
  /\ "kaspa_rpc_url" \in Passed <=> settings.kaspa_rpc_url # "missing"
  /\ "kaspa_network" \in Passed <=> KnownNetwork(settings.kaspa_network)
  /\ "key" \in Passed <=>
       /\ ResolvesKaspaPrivateKey(settings.kaspa_wallet, FALSE)
       /\ HasKaspaAddress(settings.kaspa_wallet)
  BY DEF Passed

(* Only an enabled transport takes a packet to Kaspa or refuses one. *)
LEMMA RouteMeans ==
  /\ Packed \in {"kaspa", "override", "reject"} => Enabled
  /\ Packed = "kaspa" =>
       /\ IsSingle(env.packet, "eth_sendRawTransaction")
       /\ HasMetadata(env.packet.requests[1])
  BY DEF Packed, Route

(* A configuration the guardrail accepted fails in the submission path on  *)
(* nothing but a network name, a Kaspa URL or a wallet of the classes that *)
(* validate does not look at as closely as their later readers.            *)
THEOREM SpecValidationGaps == Spec => []ValidationGaps
<1>1. ASSUME FlowInv PROVE ValidationGaps
  <2> SUFFICES ASSUME env.guarded, env.configured, answer \in ConfigErrors \cup {"url", "key"}
               PROVE  /\ answer \notin ConfigErrors \ {"kaspa_network"}
                      /\ answer = "kaspa_network" =>
                           env.config.kaspa_network \in {"custom", "padded"}
                      /\ answer = "url" => env.config.kaspa_rpc_url \in {"padded", "notGrpc"}
                      /\ answer = "key" => ~SoundWallet(env.config.kaspa_wallet)
    BY DEF ValidationGaps, ConfigErrors
  <2>1. env \in Environment
    BY <1>1, KnownEnvironment DEF FlowInv, SessionInv
  <2>2. stage = "answered" /\ answer \notin Refusals
    BY <1>1 DEF FlowInv, AnswerLast, ConfigErrors, Refusals
  <2>3. env.config.enabled
    BY <1>1, RouteMeans DEF FlowInv, RouteKnown, Enabled
  <2>4. /\ env.config.kaspa_rpc_url \in Accepted.kaspa_rpc_url
        /\ env.config.kaspa_network \in Accepted.kaspa_network
        /\ env.config.tx_id_prefix \in Accepted.tx_id_prefix
        /\ env.config.payload_compression \in Accepted.payload_compression
    <3>1. GuardrailError(env.config, env.unlocked, env.browser) = "ok"
      BY <1>1, <2>2 DEF FlowInv, PastGuard
    <3> QED
      BY <2>1, <2>3, <3>1, GuardrailAccepts DEF Environment
  <2>5. /\ settings.tx_id_prefix = "hex"
        /\ settings.kaspa_rpc_url = env.config.kaspa_rpc_url
        /\ settings.kaspa_rpc_url \in {"ok", "padded", "notGrpc"}
        /\ settings.kaspa_network = env.config.kaspa_network
        /\ settings.payload_compression \in SupportedCompression
        /\ settings.kaspa_wallet = env.config.kaspa_wallet
    BY <1>1, <2>2, <2>4 DEF FlowInv, SettingsKnown, Accepted, NormalizeHexPrefix
  <2>6. CASE answer = "url"
    BY <1>1, <2>5, <2>6 DEF FlowInv, ErrorJustified, GrpcClientTakes, ConfigErrors
  <2>7. CASE answer # "url"
    <3>1. answer \notin Passed
      BY <1>1, <2>5, <2>7 DEF FlowInv, ErrorJustified, NormalizeHexPrefix
    <3>2. answer \in {"kaspa_network", "key"}
      BY <2>5, <2>7, <3>1, PassedMeans DEF ConfigErrors
    <3>3. CASE answer = "kaspa_network"
      <4>1. settings.kaspa_network # "known"
        BY <3>1, <3>3, PassedMeans DEF KnownNetwork
      <4> QED
        BY <2>4, <2>5, <3>3, <4>1 DEF Accepted
    <3>4. CASE answer = "key"
      <4>1. ~(/\ ResolvesKaspaPrivateKey(env.config.kaspa_wallet, FALSE)
              /\ HasKaspaAddress(env.config.kaspa_wallet))
        BY <2>5, <3>1, <3>4, PassedMeans
      <4> QED
        BY <3>4, <4>1
        DEF SoundWallet, ResolvesKaspaPrivateKey, HasKaspaAddress, KeystoreOpens, ConfigErrors
    <3> QED
      BY <3>2, <3>3, <3>4
  <2> QED
    BY <2>6, <2>7
<1> QED
  BY <1>1, FlowAlways, PTL

(* Kaspa funds are read and spent only with the settings, the key and the  *)
(* envelope that the submission needs, guardrail or not.                   *)
THEOREM SpecOnlySoundConfigBuilds == Spec => []OnlySoundConfigBuilds
<1>1. ASSUME FlowInv PROVE OnlySoundConfigBuilds
  <2> SUFFICES ASSUME stage \in {"load", "build", "broadcast"} \/ answer \in NodeAnswers
               PROVE  OnlySoundConfigBuilds
    BY DEF OnlySoundConfigBuilds
  <2> DEFINE wallet == env.config.kaspa_wallet
  <2>1. env \in Environment /\ env.config \in Config
    BY <1>1, KnownEnvironment DEF FlowInv, SessionInv, Environment
  <2>2. /\ stage \notin {"guard", "configure"} /\ answer \notin Refusals
    BY <1>1 DEF FlowInv, AnswerLast, NodeAnswers, Refusals
  <2>3. /\ Packed = "kaspa" /\ Checks \subseteq Passed
        /\ settings.tx_id_prefix \in {"prefixed", "hex"} /\ settings.kaspa_rpc_url = "ok"
    BY <1>1 DEF FlowInv, RouteKnown, ChecksPassed
  <2>4. env.configured
    BY <1>1, <2>2, <2>3 DEF FlowInv, SettingsKnown
  <2>5. /\ env.config.kaspa_network = "known" /\ env.config.kaspa_rpc_url = "ok"
        /\ env.config.payload_compression \notin {"zlib", "other"}
        /\ l2data <= MaxL2Data
        /\ ResolvesKaspaPrivateKey(wallet, FALSE)
        /\ HasKaspaAddress(wallet)
    BY <1>1, <2>2, <2>3, <2>4, PassedMeans
    DEF FlowInv, SettingsKnown, Checks, KnownNetwork, SupportedCompression
  <2>6. env.config.tx_id_prefix \in {"prefixed", "upper0X", "padded", "hex"}
    <3>1. NormalizeHexPrefix(env.config.tx_id_prefix) \in {"prefixed", "hex"}
      BY <1>1, <2>2, <2>3, <2>4 DEF FlowInv, SettingsKnown
    <3> QED
      BY <2>1, <3>1 DEF Config, Prefixes, NormalizeHexPrefix
  <2>7. SoundWallet(wallet)
    BY <2>5 DEF SoundWallet, ResolvesKaspaPrivateKey, HasKaspaAddress, KeystoreOpens
  <2>8. env.config.enabled
    BY <2>3, RouteMeans DEF Enabled
  <2>9. /\ ~env.packet.batch
        /\ env.packet.requests[1].method = "eth_sendRawTransaction"
        /\ env.packet.requests[1].rawTx \in SignedEnvelopes
    BY <2>3, RouteMeans DEF IsSingle, HasMetadata
  <2>10. env.guarded => ~env.unlocked /\ ~env.browser
    <3>1. env.guarded => GuardrailError(env.config, env.unlocked, env.browser) = "ok"
      BY <1>1, <2>2 DEF FlowInv, PastGuard
    <3>2. env.unlocked \in BOOLEAN /\ env.browser \in BOOLEAN
      BY <2>1 DEF Environment
    <3> QED
      BY <2>1, <2>8, <3>1, <3>2, GuardrailAccepts
  <2>11. env.rawLength <= MaxL2Data
    BY <1>1, <2>5 DEF FlowInv, LengthKept
  <2> QED
    BY <2>4, <2>5, <2>6, <2>7, <2>8, <2>9, <2>10, <2>11 DEF OnlySoundConfigBuilds
<1> QED
  BY <1>1, FlowAlways, PTL

(* What the execution layer gets is the caller's packet, in its shape and  *)
(* with its ids, and a write only as a raw send inside a batch.            *)
THEOREM SpecWritesThroughKaspa == Spec => []WritesThroughKaspa
<1>1. ASSUME FlowInv PROVE WritesThroughKaspa
  <2> DEFINE packet == env.packet
             Clean(request) ==
               request.method \in Writes =>
                 /\ packet.batch
                 /\ request.method = "eth_sendRawTransaction"
                 /\ request.rawTx \notin UnsupportedEnvelopes
  <2>1. env \in Environment /\ IsPacket(packet)
    BY <1>1, KnownEnvironment DEF FlowInv, SessionInv
  <2>2. /\ packet.requests \in Seq(Request) /\ packet.requests # <<>>
        /\ 1 \in DOMAIN packet.requests
        /\ ~packet.batch => DOMAIN packet.requests = {1}
    BY <2>1 DEF IsPacket, Packet
  <2>3. ASSUME forwarded # None, Packed = "forward", forwarded = packet
        PROVE  WritesThroughKaspa
    <3>1. ASSUME Enabled, NEW i \in DOMAIN packet.requests
          PROVE  Clean(packet.requests[i])
      <4>1. packet.requests[i] \in RequestsOf(packet)
        BY DEF RequestsOf
      <4>2. ~Rejected(packet.requests[i]) /\ ~IsSingle(packet, "eth_sendRawTransaction")
        BY <2>3, <3>1, <4>1 DEF Packed, Route
      <4> QED
        BY <2>2, <3>1, <4>2
        DEF Rejected, IsUnsupportedMethod, IsSingle, Writes, UnsupportedEnvelopes
    <3>2. answer # "rejected"
      BY <1>1, <2>3 DEF FlowInv, RouteKnown
    <3> QED
      BY <2>3, <3>1, <3>2 DEF WritesThroughKaspa, RequestsOf
  <2>4. ASSUME forwarded # None, Packed = "override", forwarded = FeeOverride(packet)
        PROVE  WritesThroughKaspa
    <3>1. Enabled /\ ~packet.batch
      BY <2>4, RouteMeans DEF Packed, Route, IsSingle
    <3>2. RequestsOf(forwarded) = {forwarded.requests[1]}
      BY <2>1, <2>2, <2>4, <3>1, FeeOverrideKeeps DEF RequestsOf
    <3>3. forwarded.requests[1].method \notin Writes
      BY <2>1, <2>4, FeeOverrideKeeps DEF Writes
    <3>4. answer # "rejected"
      BY <1>1, <2>4 DEF FlowInv, RouteKnown
    <3>5. /\ forwarded.batch = packet.batch
          /\ Len(forwarded.requests) = Len(packet.requests)
          /\ \A i \in DOMAIN forwarded.requests :
               forwarded.requests[i].id = packet.requests[i].id
      BY <2>1, <2>4, FeeOverrideKeeps
    <3> QED
      BY <3>1, <3>2, <3>3, <3>4, <3>5 DEF WritesThroughKaspa
  <2>5. ASSUME forwarded = None
        PROVE  WritesThroughKaspa
    <3>1. ASSUME answer = "rejected"
          PROVE  \E request \in RequestsOf(packet) : request.method \in Writes
      <4>1. Packed = "reject"
        BY <1>1, <3>1 DEF FlowInv, RouteKnown
      <4>2. \/ \E request \in RequestsOf(packet) : Rejected(request)
            \/ IsSingle(packet, "eth_sendRawTransaction")
        BY <4>1 DEF Packed, Route
      <4>3. packet.requests[1] \in RequestsOf(packet)
        BY <2>2 DEF RequestsOf
      <4> QED
        BY <4>2, <4>3 DEF Rejected, IsUnsupportedMethod, IsSingle, Writes
    <3> QED
      BY <2>5, <3>1 DEF WritesThroughKaspa
  <2> QED
    BY <1>1, <2>3, <2>4, <2>5 DEF FlowInv, RouteKnown
<1> QED
  BY <1>1, FlowAlways, PTL

-----------------------------------------------------------------------------
(* 5. The opening of the store. *)

(* Opening a handle statement by statement, with other processes writing   *)
(* in between, is what IgraTransport takes for it: a wipe by a new profile *)
(* and the deletion of finished rows, in any order and portions.           *)
THEOREM SpecImplementsOpenHandle == Spec => ImplementsOpenHandle
<1> DEFINE Opens == \E p \in Profiles, D \in SUBSET Prunable : OpenHandle(p, D)
           Writes2 ==
             /\ UNCHANGED <<nextExpected, locks, storeProfile, base>>
             /\ \E h \in Hashes, r \in Requests, p \in Profiles, state \in TxLifecycleState :
                  PersistTransition(h, r, p, state, None, None, "none", 0)
<1>1. ASSUME SessionInv, [Next]_vars
      PROVE  Opens \/ Writes2 \/ UNCHANGED storeVars
  <2>1. storeProfile \in Profiles /\ env.profile \in Profiles
    BY <1>1, KnownEnvironment
    DEF SessionInv, TypeOK, MaintenanceTypeOK, StoreTypeOK, Environment
  <2>2. CASE Reconcile(env.profile)
    BY <2>1, <2>2 DEF Reconcile
  <2>3. ASSUME NEW D \in SUBSET Prunable, DeleteRows(D)
        PROVE  Opens
    <3>1. OpenHandle(storeProfile, D)
      BY <2>3 DEF DeleteRows, OpenHandle
    <3> QED
      BY <2>1, <3>1
  <2>4. ASSUME NEW states \in SUBSET FinalState, NEW hours, PruneByAge(states, hours)
        PROVE  Opens
    BY <2>3, <2>4 DEF PruneByAge, InState, Prunable
  <2>5. CompletedState \subseteq FinalState /\ FailedState \subseteq FinalState
    BY DEF CompletedState, FailedState, FinalState
  <2>6. CASE PruneBatch
    BY <2>3, <2>6 DEF PruneBatch
  <2>7. ASSUME NEW h \in Hashes, WriteRow(h)
        PROVE  Writes2
    BY <2>1, <2>7 DEF WriteRow
  <2> QED
    BY <1>1, <2>2, <2>4, <2>5, <2>6, <2>7, StoreFrame DEF StoreStep, maintenanceVars
<1> QED
  BY <1>1, SessionAlways, PTL DEF Spec, ImplementsOpenHandle

(* The retention settings are natural numbers.                             *)
LEMMA HoursTypes ==
  ASSUME env \in Environment
  PROVE  CompletedHours \in Nat /\ FailedHours \in Nat /\ MaxSize \in Nat
  BY SessionAssumption
  DEF Environment, Config, Numbers, Setting, CompletedHours, FailedHours, MaxSize

(* Within the retention period a row is not older than the cutoff, though  *)
(* the hours are cast and every step saturates.                            *)
LEMMA CutoffKeeps ==
  ASSUME NEW hours \in Nat, hours <= I64Max,
         NEW t \in 0..Now, Now - t <= hours * HourMs
  PROVE  ~(t < Cutoff(hours))
<1> USE MaintenanceAssumption
<1> DEFINE period == hours * HourMs
<1>1. period \in Nat /\ AsI64(hours) = hours /\ I64Max \in Nat /\ Now \in 0..I64Max
  BY DEF AsI64
<1>2. Saturate(period) = IF period > I64Max THEN I64Max ELSE period
  BY <1>1 DEF Saturate
<1>3. Cutoff(hours) = Saturate(Now - Saturate(period))
  BY <1>1 DEF Cutoff
<1> HIDE DEF period
<1>4. CASE period > I64Max
  <2>1. Cutoff(hours) = Now - I64Max
    BY <1>1, <1>2, <1>3, <1>4 DEF Saturate
  <2> QED
    BY <1>1, <2>1
<1>5. CASE period <= I64Max
  <2>1. Cutoff(hours) = Now - period
    BY <1>1, <1>2, <1>3, <1>5 DEF Saturate
  <2> QED
    BY <1>1, <2>1 DEF period
<1> QED
  BY <1>1, <1>4, <1>5

(* A row that nobody wrote is as it was found, or gone. *)
RowsKept ==
  env.database.profile = env.profile =>
    /\ storeProfile = env.profile
    /\ \A h \in Hashes \ touched :
         /\ updatedAt[h] = env.database.updatedAt[h]
         /\ txMap[h] \in {env.database.txMap[h], None}

RetentionInv == SessionInv /\ RowsKept /\ RetentionKept

(* Before the opening every row is as it was found.                        *)
LEMMA RetentionInitially == Init => RetentionInv
<1> SUFFICES ASSUME Init PROVE RetentionInv
  OBVIOUS
<1>1. /\ txMap = env.database.txMap /\ updatedAt = env.database.updatedAt
      /\ storeProfile = env.database.profile /\ touched = {}
  BY DEF Init
<1> QED
  BY <1>1, InitialTypes DEF RetentionInv, RowsKept, RetentionKept

(* Every step preserves what is known of the rows.                         *)
LEMMA RetentionPreserved == RetentionInv /\ [Next]_vars => RetentionInv'
<1> SUFFICES ASSUME RetentionInv, [Next]_vars PROVE RetentionInv'
  OBVIOUS
<1>1. SessionInv' /\ env' = env
  BY TypesPreserved, SettingsFixed DEF RetentionInv
<1>2. /\ updatedAt \in [Hashes -> 0..Now] /\ env \in Environment
      /\ txMap \in [Hashes -> TxMapRecord \cup {None}]
      /\ touched \subseteq Hashes
  BY KnownEnvironment DEF RetentionInv, SessionInv, TypeOK, MaintenanceTypeOK, StoreTypeOK
<1>3. /\ CompletedHours \in Nat /\ FailedHours \in Nat
      /\ CompletedHours' = CompletedHours /\ FailedHours' = FailedHours
  BY <1>1, <1>2, HoursTypes DEF CompletedHours, FailedHours
<1>4. \A state, t : WithinRetention(state, t)' = WithinRetention(state, t)
  BY <1>3 DEF WithinRetention
<1>5. CASE env.database.profile # env.profile
  BY <1>1, <1>5 DEF RetentionInv, RowsKept, RetentionKept
<1>6. ASSUME env.database.profile = env.profile
      PROVE  RetentionInv'
  <2>1. storeProfile = env.profile
    BY <1>6 DEF RetentionInv, RowsKept
  (* Rows that are deleted by age are beyond their retention period. *)
  <2>2. ASSUME NEW D \in SUBSET Hashes, DeleteRows(D),
               UNCHANGED <<updatedAt, touched, batches>>,
               \A h \in D : /\ txMap[h] # None
                            /\ ~WithinRetention(txMap[h].state, updatedAt[h])
        PROVE  RetentionInv'
    <3>1. Prunable' \subseteq Prunable
      BY <2>2 DEF DeleteRows, Prunable
    <3>2. RowsKept'
      BY <1>1, <2>2 DEF DeleteRows, RetentionInv, RowsKept
    <3>3. RetentionKept'
      <4> SUFFICES ASSUME NEW h \in Hashes,
                          env.database.txMap[h] # None, h \notin touched,
                          WithinRetention(env.database.txMap[h].state,
                                          env.database.updatedAt[h]),
                          txMap'[h] = None
                   PROVE  /\ batches'
                          /\ env.database.txMap[h].state \in FinalState
                          /\ \A g \in Prunable' : updatedAt'[h] <= updatedAt'[g]
        BY <1>1, <1>4, <2>2 DEF RetentionKept
      <4>1. updatedAt[h] = env.database.updatedAt[h]
            /\ txMap[h] \in {env.database.txMap[h], None}
        BY <1>6 DEF RetentionInv, RowsKept
      <4>2. txMap[h] = None
        BY <2>2, <4>1 DEF DeleteRows
      <4> QED
        BY <1>6, <2>2, <3>1, <4>2 DEF RetentionInv, RetentionKept
    <3> QED
      BY <1>1, <3>2, <3>3 DEF RetentionInv
  <2>3. CASE PruneByAge(CompletedState, CompletedHours)
    <3> DEFINE D == {h \in InState(CompletedState) : updatedAt[h] < Cutoff(CompletedHours)}
    <3>1. \A h \in D : txMap[h] # None /\ ~WithinRetention(txMap[h].state, updatedAt[h])
      BY <1>2, <1>3, CutoffKeeps DEF InState, WithinRetention
    <3>2. D \subseteq Hashes /\ DeleteRows(D) /\ UNCHANGED <<updatedAt, touched, batches>>
      BY <2>3 DEF PruneByAge, InState
    <3> HIDE DEF D
    <3> QED
      BY <2>2, <3>1, <3>2
  <2>4. CASE PruneByAge(FailedState, FailedHours)
    <3> DEFINE D == {h \in InState(FailedState) : updatedAt[h] < Cutoff(FailedHours)}
    <3>1. \A h \in D : txMap[h] # None /\ ~WithinRetention(txMap[h].state, updatedAt[h])
      BY <1>2, <1>3, CutoffKeeps DEF InState, WithinRetention
    <3>2. D \subseteq Hashes /\ DeleteRows(D) /\ UNCHANGED <<updatedAt, touched, batches>>
      BY <2>4 DEF PruneByAge, InState
    <3> HIDE DEF D
    <3> QED
      BY <2>2, <3>1, <3>2
  <2>5. CASE Reconcile(env.profile) \/ UNCHANGED maintenanceVars
    <3>1. UNCHANGED <<txMap, storeProfile, updatedAt, touched, batches>>
      BY <1>2, <2>1, <2>5 DEF Reconcile, OpenHandle, maintenanceVars, storeVars
    <3>2. DeleteRows({}) \/ UNCHANGED <<txMap, storeProfile, updatedAt, touched, batches>>
      BY <3>1
    <3>3. Prunable' = Prunable
      BY <3>1 DEF Prunable
    <3> QED
      BY <1>1, <1>4, <3>1, <3>3 DEF RetentionInv, RowsKept, RetentionKept
  (* A round of the size budget takes the oldest finished rows. *)
  <2>6. CASE PruneBatch
    <3>1. PICK D \in SUBSET Prunable :
            /\ \A h \in D, g \in Prunable \ D : updatedAt[h] <= updatedAt[g]
            /\ DeleteRows(D)
      BY <2>6 DEF PruneBatch
    <3>2. batches' /\ UNCHANGED <<updatedAt, touched>>
      BY <2>6 DEF PruneBatch
    <3>3. Prunable' \subseteq Prunable \ D
      BY <3>1 DEF DeleteRows, Prunable
    <3>4. RowsKept'
      BY <1>1, <3>1, <3>2 DEF DeleteRows, RetentionInv, RowsKept
    <3>5. RetentionKept'
      <4> SUFFICES ASSUME NEW h \in Hashes,
                          env.database.txMap[h] # None, h \notin touched,
                          WithinRetention(env.database.txMap[h].state,
                                          env.database.updatedAt[h]),
                          txMap'[h] = None
                   PROVE  /\ env.database.txMap[h].state \in FinalState
                          /\ \A g \in Prunable' : updatedAt[h] <= updatedAt[g]
        BY <1>1, <1>4, <3>2 DEF RetentionKept
      <4>1. CASE txMap[h] = None
        BY <1>6, <3>3, <4>1 DEF RetentionInv, RetentionKept
      <4>2. CASE txMap[h] # None
        <5>1. txMap[h] = env.database.txMap[h]
          BY <1>6, <4>2 DEF RetentionInv, RowsKept
        <5>2. h \in D
          BY <3>1, <4>2 DEF DeleteRows
        <5> QED
          BY <3>1, <3>3, <5>1, <5>2 DEF Prunable
      <4> QED
        BY <4>1, <4>2
    <3> QED
      BY <1>1, <3>4, <3>5 DEF RetentionInv
  (* What others write is younger than what was deleted. *)
  <2>7. ASSUME NEW w \in Hashes, WriteRow(w)
        PROVE  RetentionInv'
    <3>1. /\ touched' = touched \cup {w} /\ batches' = batches
          /\ storeProfile' = storeProfile
          /\ updatedAt' = [updatedAt EXCEPT ![w] = Now]
          /\ \A h \in Hashes : h # w => txMap'[h] = txMap[h]
      BY <1>2, <2>7 DEF WriteRow, PersistTransition
    <3>2. Prunable' \subseteq Prunable \cup {w}
      BY <3>1 DEF Prunable
    <3>3. RowsKept'
      BY <1>1, <1>2, <3>1 DEF RetentionInv, RowsKept
    <3>4. RetentionKept'
      <4> SUFFICES ASSUME NEW h \in Hashes,
                          env.database.txMap[h] # None, h \notin touched, h # w,
                          WithinRetention(env.database.txMap[h].state,
                                          env.database.updatedAt[h]),
                          txMap[h] = None
                   PROVE  /\ batches
                          /\ env.database.txMap[h].state \in FinalState
                          /\ \A g \in Prunable' : updatedAt'[h] <= updatedAt'[g]
        BY <1>1, <1>4, <3>1 DEF RetentionKept
      <4>1. /\ batches
            /\ env.database.txMap[h].state \in FinalState
            /\ \A g \in Prunable : updatedAt[h] <= updatedAt[g]
        BY <1>6 DEF RetentionInv, RetentionKept
      <4>2. updatedAt'[h] = updatedAt[h] /\ updatedAt'[w] = Now /\ updatedAt[h] <= Now
        <5>1. updatedAt[h] \in 0..Now /\ Now \in Nat
          BY <1>2, MaintenanceAssumption
        <5> QED
          BY <1>2, <3>1, <5>1
      <4>3. \A g \in Prunable' : g # w => updatedAt'[g] = updatedAt[g]
        BY <1>2, <3>1, <3>2 DEF Prunable
      <4> QED
        BY <3>2, <4>1, <4>2, <4>3
    <3> QED
      BY <1>1, <3>3, <3>4 DEF RetentionInv
  <2> QED
    BY <2>3, <2>4, <2>5, <2>6, <2>7, StoreFrame DEF StoreStep
<1> QED
  BY <1>5, <1>6

(* Opening the store deletes no row of its own profile that is within its  *)
(* retention period, except the oldest finished ones of a file that was    *)
(* over its budget, whatever other processes write meanwhile.              *)
THEOREM SpecRetentionKept == Spec => []RetentionKept
<1>1. RetentionInv => RetentionKept
  BY DEF RetentionInv
<1> QED
  BY <1>1, RetentionInitially, RetentionPreserved, PTL DEF Spec
=============================================================================
