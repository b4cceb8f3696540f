---------------------------- MODULE IgraSession ----------------------------
(***************************************************************************)
(* One command of a patched Foundry, from its configuration to its answer: *)
(* the guardrail of errors.rs, the construction of an IgraTransport, the   *)
(* opening of its store, the routing of one JSON-RPC packet and, for a raw *)
(* send, the body of submit_payload with both attempts.  Composes          *)
(* IgraConfig, KaspaKeys, RequestRouting, StoreMaintenance and             *)
(* PayloadBuilder.  The store writes around the submission and the UTXO    *)
(* cache under it are the subject of IgraTransport and KaspaSubmitter.     *)
(*                                                                         *)
(* What the user, the caller and the world bring to a session is one       *)
(* record, env; it never changes.                                          *)
(***************************************************************************)
EXTENDS IgraConfig, RequestRouting, PayloadBuilder, StoreMaintenance

CONSTANTS
  Environments,               \* the environments a session may meet
  MaxL2Data,                  \* IGRA_MAX_L2DATA_BYTES
  DefaultCompletedRetention,  \* DEFAULT_COMPLETED_RETENTION_HOURS
  DefaultFailedRetention,     \* DEFAULT_FAILED_RETENTION_HOURS
  DefaultMaxSize              \* DEFAULT_MAX_DB_SIZE_MB, in rows

VARIABLES
  env,
  stage,      \* where the session is
  settings,   \* the fields of the transport
  handle,     \* the transport has a store
  attempt,    \* of the retry loop of submit_payload
  drafts,     \* history: per attempt, the transaction that was broadcast
  forwarded,  \* the packet the execution layer got, or None
  answer      \* what the caller gets, "none" before

sessionVars == <<env, stage, settings, handle, attempt, drafts, forwarded, answer>>
vars == <<sessionVars, builderVars, maintenanceVars>>

-----------------------------------------------------------------------------
Attempt == 0..1

(* The database a session finds. *)
Database ==
  [ txMap : [Hashes -> TxMapRecord \cup {None}],
    nextExpected : [Senders -> 0..MaxNonce \cup {None}],
    updatedAt : [Hashes -> 0..Now],
    profile : Profiles,
    fileSize : Nat ]

Environment ==
  [ config : Config,
    guarded : BOOLEAN,        \* the command calls the guardrail
    unlocked : BOOLEAN,
    browser : BOOLEAN,
    configured : BOOLEAN,     \* with_transport_config is called
    attach : {"never", "lenient", "strict"}, \* (try_)with_store_config
    profile : Profiles,
    completedHours : Nat,     \* the positive values of the settings
    failedHours : Nat,
    maxSize : Nat,
    database : Database,
    packet : Packet,
    rawLength : Nat,          \* bytes of the raw transaction
    reads : [Attempt -> Seq(Utxo)] ] \* the UTXO set of each attempt

ASSUME SessionAssumption ==
  /\ Environments \subseteq Environment
  /\ \A e \in Environments : IsPacket(e.packet)
  /\ MaxL2Data \in Nat
  /\ DefaultCompletedRetention \in Nat
  /\ DefaultFailedRetention \in Nat
  /\ DefaultMaxSize \in Nat

TransportSettings ==
  [ tx_id_prefix : NormalPrefixes, kaspa_rpc_url : KaspaUrls, kaspa_network : Networks,
    payload_compression : Compressions, kaspa_wallet : IgraKaspaWalletConfig ]

OpenStage == {"reconcile", "pruneCompleted", "pruneFailed", "budget"}

Stage ==
  {"guard", "configure", "attach", "route", "submit", "connect", "load", "build",
   "broadcast", "answered"} \cup OpenStage

(* The configuration errors of the submission path, its other checks, its  *)
(* failures after the node was reached, and the rest.                      *)
ConfigErrors == {"payload_compression", "kaspa_rpc_url", "kaspa_network", "tx_id_prefix"}
NodeAnswers ==
  {"utxos", "insufficient", "IGRA_MINING_001", "unsigned", "broadcast", "ok"}
Answers ==
  ConfigErrors \cup NodeAnswers \cup
  {"none", "invalidConfig", "IGRA_SIG_001", "store", "forwarded", "rejected",
   "IGRA_PAYLOAD_001", "key", "url", "connect", "blocked"}

TypeOK ==
  /\ BuilderTypeOK
  /\ MaintenanceTypeOK
  /\ env \in Environment
  /\ stage \in Stage
  /\ settings \in TransportSettings
  /\ handle \in BOOLEAN
  /\ attempt \in Attempt
  /\ drafts \in [Attempt -> Transaction \cup {None}]
  /\ forwarded \in Packet \cup {None}
  /\ answer \in Answers

ASSUME SessionNoneAssumption ==
  /\ None \notin Transaction
  /\ None \notin Packet

(* IgraTransport::new *)
NoWallet ==
  [ private_key |-> "missing", mnemonic |-> "missing", keystore |-> "missing",
    keystore_account |-> "missing", password |-> "missing" ]

NewTransport ==
  [ tx_id_prefix |-> "missing", kaspa_rpc_url |-> "missing",
    kaspa_network |-> "missing", payload_compression |-> "missing",
    kaspa_wallet |-> NoWallet ]

Init ==
  /\ env \in Environments
  /\ stage = "guard"
  /\ settings = NewTransport
  /\ handle = FALSE
  /\ attempt = 0
  /\ drafts = [a \in Attempt |-> None]
  /\ forwarded = None
  /\ answer = "none"
  /\ BuilderInit(env.rawLength)
  /\ txMap = env.database.txMap
  /\ nextExpected = env.database.nextExpected
  /\ base = env.database.nextExpected
  /\ locks = [s \in Senders |-> None]
  /\ storeProfile = env.database.profile
  /\ updatedAt = env.database.updatedAt
  /\ fileSize = env.database.fileSize
  /\ touched = {}
  /\ batches = FALSE

-----------------------------------------------------------------------------
Goto(from, to) ==
  /\ stage = from
  /\ stage' = to

Answer(from, what) ==
  /\ Goto(from, "answered")
  /\ answer' = what
  /\ UNCHANGED <<env, settings, handle, attempt, drafts, forwarded>>

Enabled == env.config.enabled

(* A command that does not call the guardrail goes straight on. *)
Guard ==
  LET error == GuardrailError(env.config, env.unlocked, env.browser)
      passed == env.guarded => error = "ok"
  IN
  /\ IF passed
       THEN /\ Goto("guard", "configure")
            /\ UNCHANGED <<env, settings, handle, attempt, drafts, forwarded, answer>>
       ELSE Answer("guard", IF error = "IGRA_SIG_001" THEN error ELSE "invalidConfig")
  /\ UNCHANGED <<builderVars, maintenanceVars>>

(* with_transport_config *)
Configure ==
  /\ Goto("configure", "attach")
  /\ settings' =
       IF env.configured
         THEN [ tx_id_prefix |-> NormalizeHexPrefix(env.config.tx_id_prefix),
                kaspa_rpc_url |-> env.config.kaspa_rpc_url,
                kaspa_network |-> env.config.kaspa_network,
                payload_compression |-> env.config.payload_compression,
                kaspa_wallet |-> env.config.kaspa_wallet ]
         ELSE settings
  /\ UNCHANGED <<env, handle, attempt, drafts, forwarded, answer, builderVars, maintenanceVars>>

OrElse(value, default) == IF value = "missing" THEN default ELSE value

(* with_store_config and try_with_store_config fill in what is missing,    *)
(* and open the store only for an enabled transport.                       *)
Attach ==
  /\ Goto("attach", IF env.attach # "never" /\ Enabled THEN "reconcile" ELSE "route")
  /\ settings' =
       IF env.attach # "never"
         THEN [settings EXCEPT
                 !.kaspa_rpc_url = OrElse(@, env.config.kaspa_rpc_url),
                 !.kaspa_network = OrElse(@, env.config.kaspa_network)]
         ELSE settings
  /\ UNCHANGED <<env, handle, attempt, drafts, forwarded, answer, builderVars, maintenanceVars>>

-----------------------------------------------------------------------------
(* IgraStore::new *)

Setting(class, value, default) ==
  CASE class = "missing" -> default
    [] class = "zero" -> 0
    [] class = "positive" -> value

CompletedHours ==
  Setting(env.config.completed_retention_hours, env.completedHours,
          DefaultCompletedRetention)
FailedHours ==
  Setting(env.config.failed_retention_hours, env.failedHours, DefaultFailedRetention)
MaxSize == Setting(env.config.max_db_size_mb, env.maxSize, DefaultMaxSize)

OpenStep(from, to) ==
  /\ Goto(from, to)
  /\ UNCHANGED <<env, settings, handle, attempt, drafts, forwarded, answer, builderVars>>

ReconcileProfile ==
  /\ OpenStep("reconcile", "pruneCompleted")
  /\ Reconcile(env.profile)

PruneCompleted ==
  /\ OpenStep("pruneCompleted", "pruneFailed")
  /\ PruneByAge(CompletedState, CompletedHours)

(* The operators named Mut... are plausible bugs, each placed before the   *)
(* definition it could have been; nothing but a mutation test uses them.   *)

(* Mutant: failed rows are kept as long as completed ones. *)
MutPruneFailed ==
  /\ OpenStep("pruneFailed", "budget")
  /\ PruneByAge(FailedState, CompletedHours)

PruneFailed ==
  /\ OpenStep("pruneFailed", "budget")
  /\ PruneByAge(FailedState, FailedHours)

(* Zero means no budget. *)
OverBudget == MaxSize > 0 /\ fileSize > MaxSize

(* enforce_size_budget *)
EnforceBudget ==
  /\ OpenStep("budget", "budget")
  /\ OverBudget
  /\ PruneBatch

EndBudget ==
  /\ Goto("budget", "route")
  /\ OverBudget => Prunable = {}
  /\ handle' = TRUE
  /\ UNCHANGED <<env, settings, attempt, drafts, forwarded, answer, builderVars,
                 maintenanceVars>>

(* A busy or failing database, in any statement.  What was committed       *)
(* before stays; the lenient caller goes on without a store.               *)
OpenFails ==
  /\ stage \in OpenStage
  /\ \/ env.attach = "lenient" /\ OpenStep(stage, "route")
     \/ env.attach = "strict" /\ Answer(stage, "store") /\ UNCHANGED builderVars
  /\ UNCHANGED maintenanceVars

(* Other processes use the database meanwhile. *)
OtherWrite ==
  /\ stage \in OpenStage
  /\ \E h \in Hashes : WriteRow(h)
  /\ UNCHANGED <<sessionVars, builderVars>>

-----------------------------------------------------------------------------
(* call *)

Forward(packet) ==
  /\ Goto("route", "answered")
  /\ forwarded' = packet
  /\ answer' = "forwarded"
  /\ UNCHANGED <<env, settings, handle, attempt, drafts>>

Call ==
  LET route == Route(Enabled, env.packet) IN
  /\ \/ route = "forward" /\ Forward(env.packet)
     \/ route = "override" /\ Forward(FeeOverride(env.packet))
     \/ route = "reject" /\ Answer("route", "rejected")
     \/ /\ route = "kaspa"
        /\ Goto("route", "submit")
        /\ UNCHANGED <<env, settings, handle, attempt, drafts, forwarded, answer>>
  /\ UNCHANGED <<builderVars, maintenanceVars>>

-----------------------------------------------------------------------------
(* The checks before the node is called: the transport wants a prefix,     *)
(* submit_payload the rest.                                                *)
SubmitChecks ==
  << "tx_id_prefix", "payload_compression", "IGRA_PAYLOAD_001", "kaspa_rpc_url",
     "kaspa_network", "key" >>

Passed ==
  {check \in {"tx_id_prefix", "payload_compression", "IGRA_PAYLOAD_001",
              "kaspa_rpc_url", "kaspa_network", "key"} :
     CASE check = "tx_id_prefix" -> settings.tx_id_prefix # "missing"
       [] check = "payload_compression" ->
            settings.payload_compression \in SupportedCompression
       [] check = "IGRA_PAYLOAD_001" -> l2data <= MaxL2Data
       [] check = "kaspa_rpc_url" -> settings.kaspa_rpc_url # "missing"
       [] check = "kaspa_network" -> KnownNetwork(settings.kaspa_network)
       [] check = "key" ->
            /\ ResolvesKaspaPrivateKey(settings.kaspa_wallet, FALSE)
            /\ HasKaspaAddress(settings.kaspa_wallet)}

Submit ==
  LET error == FirstFailing(SubmitChecks, Passed) IN
  /\ IF error # "ok"
       THEN Answer("submit", error)
       ELSE /\ Goto("submit", "connect")
            /\ UNCHANGED <<env, settings, handle, attempt, drafts, forwarded, answer>>
  /\ UNCHANGED <<builderVars, maintenanceVars>>

(* A request that is tracked may be stopped by the sender lock or the      *)
(* nonce order, after the transport's own check and before the others.     *)
Blocked ==
  /\ handle
  /\ settings.tx_id_prefix # "missing"
  /\ Answer("submit", "blocked")
  /\ UNCHANGED <<builderVars, maintenanceVars>>

(* GrpcClient::connect wants grpc:// at the very start and a URL behind it. *)
GrpcClientTakes(url) == url = "ok"

(* The setting is handed over as it is, blanks included.  Whether a node   *)
(* answers is up to the world.                                             *)
Connect ==
  /\ \/ /\ ~GrpcClientTakes(settings.kaspa_rpc_url)
        /\ Answer("connect", "url")
     \/ /\ GrpcClientTakes(settings.kaspa_rpc_url)
        /\ Answer("connect", "connect")
     \/ /\ GrpcClientTakes(settings.kaspa_rpc_url)
        /\ IF NormalizeHexPrefix(settings.tx_id_prefix) # "hex"
             THEN Answer("connect", "tx_id_prefix")
             ELSE /\ Goto("connect", "load")
                  /\ UNCHANGED <<env, settings, handle, attempt, drafts, forwarded, answer>>
  /\ UNCHANGED <<builderVars, maintenanceVars>>

Retry ==
  /\ attempt = 0
  /\ attempt' = 1
  /\ stage' = "load"
  /\ UNCHANGED <<env, settings, handle, drafts, forwarded, answer>>

(* An empty set is worth a second read. *)
LoadUtxos ==
  /\ stage = "load"
  /\ \/ Answer("load", "utxos") /\ UNCHANGED builderVars
     \/ /\ env.reads[attempt] = <<>>
        /\ Retry \/ (attempt = 1 /\ Answer("load", "insufficient"))
        /\ UNCHANGED builderVars
     \/ /\ env.reads[attempt] # <<>>
        /\ Goto("load", "build")
        /\ BeginBuild(env.reads[attempt])
        /\ UNCHANGED <<env, settings, handle, attempt, drafts, forwarded, answer>>
  /\ UNCHANGED maintenanceVars

Build ==
  /\ stage = "build"
  /\ BuilderStep
  /\ UNCHANGED <<sessionVars, maintenanceVars>>

MiningClock ==
  /\ stage = "build"
  /\ Expire
  /\ UNCHANGED <<sessionVars, maintenanceVars>>

EndBuild ==
  /\ \/ build = "refused" /\ Answer("build", "insufficient")
     \/ build = "timeout" /\ Answer("build", "IGRA_MINING_001")
     \/ build = "unsigned" /\ Answer("build", "unsigned")
     \/ /\ build = "built"
        /\ Goto("build", "broadcast")
        /\ drafts' = [drafts EXCEPT ![attempt] = Candidate]
        /\ UNCHANGED <<env, settings, handle, attempt, forwarded, answer>>
  /\ UNCHANGED <<builderVars, maintenanceVars>>

(* The node takes the transaction, or refuses it or does not answer. *)
Broadcast ==
  /\ stage = "broadcast"
  /\ \/ Answer("broadcast", "ok")
     \/ Retry
     \/ attempt = 1 /\ Answer("broadcast", "broadcast")
  /\ UNCHANGED <<builderVars, maintenanceVars>>

-----------------------------------------------------------------------------
SessionStep ==
  \/ Guard \/ Configure \/ Attach
  \/ ReconcileProfile \/ PruneCompleted \/ PruneFailed \/ EnforceBudget
  \/ EndBudget \/ OpenFails
  \/ Call \/ Blocked \/ Submit \/ Connect \/ LoadUtxos \/ Build \/ EndBuild \/ Broadcast

Next == SessionStep \/ OtherWrite \/ MiningClock

Spec == Init /\ [][Next]_vars

(* The session's own task keeps running, and the mining clock with it. *)
Fairness ==
  /\ WF_vars(SessionStep)
  /\ WF_vars(MiningClock)

FairSpec == Spec /\ Fairness

-----------------------------------------------------------------------------
(* Properties. *)

(* A key from the first source that is given. *)
SoundWallet(wallet) ==
  \/ wallet.private_key = "ok"
  \/ wallet.private_key = "missing" /\ wallet.mnemonic = "ok"
  \/ /\ wallet.private_key = "missing" /\ wallet.mnemonic = "missing"
     /\ wallet.keystore = "ok" /\ wallet.password = "ok"

(* What validate lets through and the submission path refuses later: a     *)
(* configured session that passed the guardrail fails on its settings only *)
(* for a network name that is custom or padded, for a Kaspa URL that is    *)
(* padded or not grpc, and for a wallet without a usable key; not for its  *)
(* prefix or its compression.                                              *)
ValidationGaps ==
  env.guarded /\ env.configured =>
    /\ answer \notin ConfigErrors \ {"kaspa_network"}
    /\ answer = "kaspa_network" => env.config.kaspa_network \in {"custom", "padded"}
    /\ answer = "url" => env.config.kaspa_rpc_url \in {"padded", "notGrpc"}
    /\ answer = "key" => ~SoundWallet(env.config.kaspa_wallet)

(* Whether or not the command called the guardrail, Kaspa funds are read   *)
(* and spent only for one signed envelope of a supported type that fits,   *)
(* with a known network, a grpc URL, a prefix, a supported compression,    *)
(* and a key from the first source that is given, which a keystore account *)
(* alone is not; never for an unlocked or browser signer that the          *)
(* guardrail saw.                                                          *)
OnlySoundConfigBuilds ==
  stage \in {"load", "build", "broadcast"} \/ answer \in NodeAnswers =>
    /\ env.config.enabled
    /\ env.configured
    /\ env.config.kaspa_network = "known"
    /\ env.config.kaspa_rpc_url = "ok"
    /\ env.config.payload_compression \notin {"zlib", "other"}
    /\ env.config.tx_id_prefix \in {"prefixed", "upper0X", "padded", "hex"}
    /\ SoundWallet(env.config.kaspa_wallet)
    /\ env.rawLength <= MaxL2Data
    /\ ~env.packet.batch
    /\ env.packet.requests[1].method = "eth_sendRawTransaction"
    /\ env.packet.requests[1].rawTx \in SignedEnvelopes
    /\ env.guarded => ~env.unlocked /\ ~env.browser

Writes ==
  {"eth_sendRawTransaction", "eth_sendRawTransactionSync", "eth_sendTransaction"}

(* Disabled, the transport is transparent.  Enabled, a write reaches the   *)
(* execution layer only as a raw send inside a batch, whose envelope looks *)
(* supported; reads are never refused, and what is forwarded keeps its     *)
(* shape and its ids.                                                      *)
WritesThroughKaspa ==
  /\ forwarded # None =>
       /\ ~Enabled => forwarded = env.packet
       /\ forwarded.batch = env.packet.batch
       /\ Len(forwarded.requests) = Len(env.packet.requests)
       /\ \A i \in DOMAIN forwarded.requests :
            forwarded.requests[i].id = env.packet.requests[i].id
       /\ Enabled =>
            \A request \in RequestsOf(forwarded) : request.method \in Writes =>
              /\ forwarded.batch
              /\ request.method = "eth_sendRawTransaction"
              /\ request.rawTx \notin UnsupportedEnvelopes
  /\ answer = "rejected" =>
       \E request \in RequestsOf(env.packet) : request.method \in Writes

(* When the second read of the wallet returns what the first one did, the  *)
(* retry rebuilds the transaction of the first attempt bit by bit: if both *)
(* broadcasts arrive, L1 has seen one transaction.                         *)
RetryRebuilds ==
  env.reads[0] = env.reads[1] /\ drafts[0] # None /\ drafts[1] # None =>
    drafts[0] = drafts[1]

WithinRetention(state, t) ==
  /\ state \in CompletedState =>
       CompletedHours <= I64Max /\ Now - t <= CompletedHours * HourMs
  /\ state \in FailedState =>
       FailedHours <= I64Max /\ Now - t <= FailedHours * HourMs

(* Of the rows of the session's own profile, opening the store deletes     *)
(* none that is within its retention period (whole hours that fit an i64), *)
(* unless the file was over its budget: then a finished row, and only      *)
(* after every finished row that is older, whatever is written meanwhile.  *)
RetentionKept ==
  \A h \in Hashes :
    LET row == env.database.txMap[h] IN
    /\ row # None
    /\ env.database.profile = env.profile
    /\ h \notin touched
    /\ WithinRetention(row.state, env.database.updatedAt[h])
    /\ txMap[h] = None
    => /\ batches
       /\ row.state \in FinalState
       /\ \A g \in Prunable : updatedAt[h] <= updatedAt[g]

(* Opening a handle statement by statement, with other processes writing   *)
(* in between, looks to them like the one step that IgraTransport takes    *)
(* for it, taken several times.                                            *)
ImplementsOpenHandle ==
  [][ \/ \E p \in Profiles, D \in SUBSET Prunable : OpenHandle(p, D)
      \/ /\ UNCHANGED <<nextExpected, locks, storeProfile, base>>
         /\ \E h \in Hashes, r \in Requests, p \in Profiles, state \in TxLifecycleState :
              PersistTransition(h, r, p, state, None, None, "none", 0)
    ]_storeVars

(* Every session is answered: mining ends by its timeout at the latest,    *)
(* and the rounds of the size budget by running out of rows.               *)
SessionEnds == <>(stage = "answered")
=============================================================================
