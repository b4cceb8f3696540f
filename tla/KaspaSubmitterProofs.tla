------------------------ MODULE KaspaSubmitterProofs ------------------------
(***************************************************************************)
(* Theorems about KaspaSubmitter, for every number of submissions and      *)
(* cache keys.                                                             *)
(***************************************************************************)
EXTENDS KaspaSubmitter, TLAPS

-----------------------------------------------------------------------------
(* The inductive strengthening of TypeOK and OwnEntries: how the program   *)
(* counter of a submission relates to its other variables.                 *)

Unsent == {"idle", "load", "lookup", "fetch", "store", "build", "send"}

Ready == {"store", "build", "bump", "clear", "send", "wait"}

ControlFlow ==
  \A s \in Submissions :
    /\ attempt[s] = 0 => broadcast[s][1] = "unsent"
    /\ pc[s] = "idle" => attempt[s] = 0
    /\ pc[s] = "lookup" => attempt[s] = 0
    /\ pc[s] \in Unsent \cup {"wait"} => outcome[s] = "pending"
    /\ pc[s] \in {"bump", "clear"} => outcome[s] \in {"pending", "ok"}
    /\ pc[s] = "done" => outcome[s] # "pending"
    /\ pc[s] \in Unsent => broadcast[s][attempt[s]] = "unsent"
    /\ pc[s] \in {"bump", "clear"} /\ outcome[s] = "pending"
         => broadcast[s][attempt[s]] = "unsent"
    /\ outcome[s] = "ok" => broadcast[s][attempt[s]] = "accepted"
    /\ pc[s] \in Ready => entries[s] # None

TypeInv == TypeOK /\ OwnEntries /\ ControlFlow

(* The type invariant holds at the start. *)
LEMMA InitTypeInv == Init => TypeInv
<1> SUFFICES ASSUME Init PROVE TypeInv
  OBVIOUS
<1>1. TypeOK
  BY DEF Init, TypeOK, Control, Attempts
<1>2. OwnEntries /\ ControlFlow
  BY DEF Init, OwnEntries, ControlFlow, Unsent, Ready, Attempts
<1> QED
  BY <1>1, <1>2 DEF TypeInv

(* What a node accepted are transactions. *)
LEMMA AcceptedType ==
  ASSUME NEW k
  PROVE  AcceptedFor(k) \in SUBSET Transactions
  BY DEF AcceptedFor

(* Every step keeps the type invariant. *)
LEMMA TypeInvStep == TypeInv /\ [Next]_vars => TypeInv'
<1> SUFFICES ASSUME TypeInv, [Next]_vars PROVE TypeInv'
  OBVIOUS
<1> USE NoneAssumption DEF TypeInv, TypeOK, OwnEntries, ControlFlow, Goto, shared,
      Control, Attempts, Unsent, Ready
<1>1. ASSUME NEW s \in Submissions, Begin(s)
      PROVE  TypeInv'
  BY <1>1 DEF Begin
<1>2. ASSUME NEW s \in Submissions, BeginError(s)
      PROVE  TypeInv'
  BY <1>2 DEF BeginError, Fail, Forget
<1>3. ASSUME NEW s \in Submissions, LoadEpoch(s)
      PROVE  TypeInv'
  BY <1>3 DEF LoadEpoch
<1>4. ASSUME NEW s \in Submissions, Hit(s)
      PROVE  TypeInv'
  BY <1>4 DEF Hit
<1>5. ASSUME NEW s \in Submissions, Miss(s)
      PROVE  TypeInv'
  BY <1>5 DEF Miss
<1>6. ASSUME NEW s \in Submissions, Fetch(s)
      PROVE  TypeInv'
  <2>1. PICK f \in Funds :
          entries' = [entries EXCEPT ![s] =
            [key |-> key[s], funds |-> f, seen |-> AcceptedFor(key[s]),
             bumped |-> bumped, forced |-> attempt[s] = 1]]
    BY <1>6 DEF Fetch
  <2>2. entries'[s] \in CachedUtxoSet /\ entries'[s].key = key[s]
    BY <2>1, AcceptedType DEF CachedUtxoSet
  <2>3. entries' \in [Submissions -> CachedUtxoSet \cup {None}]
    BY <2>1, <2>2
  <2>4. \A q \in Submissions : q # s => entries'[q] = entries[q]
    BY <2>1
  <2> QED
    BY <1>6, <2>2, <2>3, <2>4 DEF Fetch
<1>7. ASSUME NEW s \in Submissions, FetchError(s)
      PROVE  TypeInv'
  BY <1>7 DEF FetchError, Fail, Forget
<1>8. ASSUME NEW s \in Submissions, Store(s)
      PROVE  TypeInv'
  BY <1>8 DEF Store
<1>9. ASSUME NEW s \in Submissions, NEW from \in {"build", "wait"}, Retry(s, from)
      PROVE  TypeInv'
  BY <1>9 DEF Retry
<1>10. ASSUME NEW s \in Submissions, BuildError(s)
       PROVE  TypeInv'
  BY <1>10 DEF BuildError, Fail, Forget
<1>11. ASSUME NEW s \in Submissions, MiningTimeout(s)
       PROVE  TypeInv'
  BY <1>11 DEF MiningTimeout, Fail, Forget
<1>12. ASSUME NEW s \in Submissions, Build(s)
       PROVE  TypeInv'
  BY <1>12 DEF Build
<1>13. ASSUME NEW s \in Submissions, Bump(s)
       PROVE  TypeInv'
  <2>1. bumped' \subseteq Transactions
    BY <1>13 DEF Bump, Transactions
  <2> QED
    BY <1>13, <2>1 DEF Bump
<1>14. ASSUME NEW s \in Submissions, Clear(s)
       PROVE  TypeInv'
  <2>1. CASE outcome[s] = "pending"
    BY <1>14, <2>1 DEF Clear
  <2>2. CASE outcome[s] = "ok"
    <3>1. /\ pc' = [pc EXCEPT ![s] = "done"] /\ cache' = None
          /\ entries' = [entries EXCEPT ![s] = None]
          /\ readEpoch' = [readEpoch EXCEPT ![s] = 0]
          /\ UNCHANGED <<epoch, key, attempt, broadcast, outcome, bumped>>
      BY <1>14, <2>2 DEF Clear, Forget
    <3>2. TypeOK'
      BY <3>1
    <3>3. OwnEntries' /\ ControlFlow'
      BY <2>2, <3>1
    <3> QED
      BY <3>2, <3>3
  <2> QED
    BY <1>14, <2>1, <2>2 DEF Clear
<1>15. ASSUME NEW s \in Submissions, Send(s)
       PROVE  TypeInv'
  BY <1>15 DEF Send
<1>16. ASSUME NEW s \in Submissions, NEW i \in Attempts, Accept(s, i)
       PROVE  TypeInv'
  BY <1>16 DEF Accept
<1>17. ASSUME NEW s \in Submissions, SubmitOk(s)
       PROVE  TypeInv'
  BY <1>17 DEF SubmitOk
<1>18. ASSUME NEW s \in Submissions, SubmitError(s)
       PROVE  TypeInv'
  BY <1>18 DEF SubmitError, Fail, Forget
<1>19. ASSUME NEW s \in Submissions, Drop(s)
       PROVE  TypeInv'
  BY <1>19 DEF Drop, Forget
<1>20. CASE UNCHANGED vars
  BY <1>20 DEF vars
<1> QED
  BY <1>1, <1>2, <1>3, <1>4, <1>5, <1>6, <1>7, <1>8, <1>9, <1>10, <1>11, <1>12,
     <1>13, <1>14, <1>15, <1>16, <1>17, <1>18, <1>19, <1>20
     DEF Next, Advance, RetryEmpty, RetrySubmit

THEOREM SubmitterTypeInv == Spec => []TypeInv
<1> QED
  BY InitTypeInv, TypeInvStep, PTL DEF Spec

-----------------------------------------------------------------------------
(* Why no unforced set in the cache lacks an answered transaction.  A      *)
(* reader that can still store has the current epoch, so it read the node  *)
(* after every finished bump, hence after the acceptance that came before. *)

Bumped(q) == outcome[q] = "ok" /\ pc[q] \in {"clear", "done"}

Knows(set, q) == key[q] = set.key => <<q, attempt[q]>> \in set.seen

CacheInv ==
  /\ AnsweredInCache
  /\ \A s \in Submissions :
       /\ readEpoch[s] <= epoch
       /\ pc[s] = "store" => (entries[s].forced <=> attempt[s] = 1)
       /\ pc[s] = "store" /\ readEpoch[s] = epoch
            => \A q \in Submissions : Bumped(q) => Knows(entries[s], q)

(* A step that neither invalidates nor fills the cache, nor reads the node *)
(* or the epoch, only has to leave the bumped submissions alone.           *)
LEMMA CacheFrame ==
  ASSUME TypeInv, CacheInv, UNCHANGED <<shared, key>>,
         \A s \in Submissions :
           /\ Bumped(s)' => Bumped(s) /\ pc[s]' = pc[s] /\ attempt[s]' = attempt[s]
           /\ pc[s]' = "store" =>
                pc[s] = "store" /\ entries[s]' = entries[s] /\ attempt[s]' = attempt[s]
           /\ readEpoch[s]' = readEpoch[s] \/ (readEpoch[s]' = 0 /\ pc[s]' # "store")
  PROVE  CacheInv'
<1>1. AnsweredInCache'
  BY DEF CacheInv, AnsweredInCache, Bumped, shared
<1>2. ASSUME NEW s \in Submissions, pc'[s] = "store"
      PROVE  pc[s] = "store" /\ entries'[s] = entries[s] /\ attempt'[s] = attempt[s]
  BY <1>2
<1>3. \A s, q \in Submissions :
        pc'[s] = "store" /\ Bumped(q)' /\ Knows(entries[s], q) => Knows(entries[s], q)'
  BY <1>2 DEF Knows
<1>4. \A s \in Submissions :
       /\ readEpoch'[s] <= epoch'
       /\ pc'[s] = "store" => (entries'[s].forced <=> attempt'[s] = 1)
  BY <1>2 DEF CacheInv, shared, TypeInv, TypeOK
<1>5. ASSUME NEW s \in Submissions, pc'[s] = "store", readEpoch'[s] = epoch',
             NEW q \in Submissions, Bumped(q)'
      PROVE  Knows(entries[s], q)'
  BY <1>2, <1>3, <1>5 DEF CacheInv, shared
<1> QED
  BY <1>1, <1>4, <1>5 DEF CacheInv

(* A reader whose epoch is current has seen all that was answered Ok. *)
LEMMA CacheInvStep == TypeInv /\ CacheInv /\ [Next]_vars => CacheInv'
<1> SUFFICES ASSUME TypeInv, CacheInv, [Next]_vars PROVE CacheInv'
  OBVIOUS
<1> USE DEF Goto, Bumped
<1>1. ASSUME NEW s \in Submissions, Begin(s) \/ Hit(s) \/ Miss(s) \/ Build(s)
      PROVE  CacheInv'
  <2>1. \A q \in Submissions : q # s => pc'[q] = pc[q] /\ entries'[q] = entries[q]
    BY <1>1 DEF Begin, Hit, Miss, Build, TypeInv, TypeOK
  <2>2. pc'[s] \in {"load", "build", "fetch", "bump"}
    BY <1>1 DEF Begin, Hit, Miss, Build, TypeInv, TypeOK
  <2> QED
    BY <1>1, <2>1, <2>2, CacheFrame DEF Begin, Hit, Miss, Build
<1>2. ASSUME NEW s \in Submissions, NEW from \in {"idle", "fetch", "build", "wait"},
             NEW error \in {"error", "miningTimeout"}, Fail(s, from, error)
      PROVE  CacheInv'
  <2>1. \A q \in Submissions : q # s => pc'[q] = pc[q] /\ outcome'[q] = outcome[q]
    BY <1>2 DEF Fail, TypeInv, TypeOK
  <2>2. pc'[s] = "done" /\ outcome'[s] = error
    BY <1>2 DEF Fail, TypeInv, TypeOK
  <2>3. \A q \in Submissions :
          /\ readEpoch'[q] = readEpoch[q] \/ (readEpoch'[q] = 0 /\ pc'[q] # "store")
          /\ q # s => entries'[q] = entries[q]
    BY <1>2, <2>2 DEF Fail, Forget, TypeInv, TypeOK
  <2> QED
    BY <1>2, <2>1, <2>2, <2>3, CacheFrame DEF Fail
<1>3. ASSUME NEW s \in Submissions, NEW from \in {"build", "wait"}, Retry(s, from)
      PROVE  CacheInv'
  <2>1. \A q \in Submissions : q # s => pc'[q] = pc[q] /\ attempt'[q] = attempt[q]
    BY <1>3 DEF Retry, TypeInv, TypeOK
  <2>2. pc'[s] = "load"
    BY <1>3 DEF Retry, TypeInv, TypeOK
  <2> QED
    BY <1>3, <2>1, <2>2, CacheFrame DEF Retry
<1>4. ASSUME NEW s \in Submissions, LoadEpoch(s)
      PROVE  CacheInv'
  <2>1. \A q \in Submissions :
          q # s => pc'[q] = pc[q] /\ readEpoch'[q] = readEpoch[q]
    BY <1>4 DEF LoadEpoch, TypeInv, TypeOK
  <2>2. pc'[s] \in {"lookup", "fetch"} /\ readEpoch'[s] = epoch
    BY <1>4 DEF LoadEpoch, TypeInv, TypeOK
  <2> QED
    BY <1>4, <2>1, <2>2
       DEF LoadEpoch, CacheInv, AnsweredInCache, Knows, TypeInv, TypeOK, shared
<1>5. ASSUME NEW s \in Submissions, Fetch(s)
      PROVE  CacheInv'
  <2>1. PICK f \in Funds :
          entries' = [entries EXCEPT ![s] =
            [key |-> key[s], funds |-> f, seen |-> AcceptedFor(key[s]),
             bumped |-> bumped, forced |-> attempt[s] = 1]]
    BY <1>5 DEF Fetch
  <2>2. /\ entries'[s].seen = AcceptedFor(key[s])
        /\ entries'[s].key = key[s]
        /\ entries'[s].forced <=> attempt[s] = 1
    BY <2>1 DEF TypeInv, TypeOK
  <2>3. \A q \in Submissions : q # s => pc'[q] = pc[q] /\ entries'[q] = entries[q]
    BY <1>5, <2>1 DEF Fetch, TypeInv, TypeOK
  <2>4. ASSUME NEW q \in Submissions, Bumped(q)
        PROVE  Knows(entries[s], q)'
    <3>1. broadcast[q][attempt[q]] = "accepted" /\ attempt[q] \in Attempts
      BY <2>4 DEF TypeInv, TypeOK, ControlFlow
    <3>2. key[q] = key[s] => <<q, attempt[q]>> \in AcceptedFor(key[s])
      BY <3>1 DEF AcceptedFor, Transactions
    <3> QED
      BY <1>5, <2>2, <3>2 DEF Knows, Fetch
  <2>5. pc'[s] = "store"
    BY <1>5 DEF Fetch, TypeInv, TypeOK
  <2>6. \A q \in Submissions : Bumped(q)' => Bumped(q)
    BY <1>5, <2>3, <2>5 DEF Fetch
  <2>7. \A q, t \in Submissions :
          q # s /\ Knows(entries[q], t) => Knows(entries[q], t)'
    BY <1>5, <2>3 DEF Fetch, Knows
  <2>8. AnsweredInCache'
    BY <1>5, <2>6, <2>3, <2>5 DEF CacheInv, AnsweredInCache, Fetch, shared
  <2> QED
    BY <1>5, <2>2, <2>3, <2>4, <2>6, <2>7, <2>8 DEF CacheInv, Fetch, shared
<1>6. ASSUME NEW s \in Submissions, Store(s)
      PROVE  CacheInv'
  <2>1. \A q \in Submissions : q # s => pc'[q] = pc[q]
    BY <1>6 DEF Store, TypeInv, TypeOK
  <2>2. pc[s] = "store" /\ pc'[s] = "build"
    BY <1>6 DEF Store, TypeInv, TypeOK
  <2>3. AnsweredInCache'
    <3>1. CASE attempt[s] = 1
      BY <1>6, <2>2, <3>1 DEF Store, CacheInv, AnsweredInCache
    <3>2. CASE attempt[s] # 1 /\ epoch = readEpoch[s]
      BY <1>6, <2>1, <2>2, <3>2 DEF Store, CacheInv, AnsweredInCache, Knows
    <3>3. CASE attempt[s] # 1 /\ epoch # readEpoch[s]
      BY <1>6, <2>1, <2>2, <3>3 DEF Store, CacheInv, AnsweredInCache
    <3> QED
      BY <3>1, <3>2, <3>3
  <2> QED
    BY <1>6, <2>1, <2>2, <2>3 DEF Store, CacheInv, Knows
<1>7. ASSUME NEW s \in Submissions, Bump(s)
      PROVE  CacheInv'
  <2>1. \A q \in Submissions : q # s => pc'[q] = pc[q]
    BY <1>7 DEF Bump, TypeInv, TypeOK
  <2>2. pc'[s] = "clear"
    BY <1>7 DEF Bump, TypeInv, TypeOK
  <2>3. \A q \in Submissions : readEpoch'[q] < epoch'
    BY <1>7 DEF Bump, CacheInv, TypeInv, TypeOK
  <2> QED
    BY <1>7, <2>1, <2>2, <2>3 DEF Bump, CacheInv, AnsweredInCache, TypeInv, TypeOK
<1>8. ASSUME NEW s \in Submissions, Clear(s)
      PROVE  CacheInv'
  <2>1. \A q \in Submissions : q # s => pc'[q] = pc[q]
    BY <1>8 DEF Clear, TypeInv, TypeOK
  <2>2. pc[s] = "clear" /\ pc'[s] \in {"done", "send"}
    BY <1>8 DEF Clear, TypeInv, TypeOK
  <2>3. \A q \in Submissions : Bumped(q)' => Bumped(q)
    BY <1>8, <2>1, <2>2 DEF Clear
  <2>4. \A q \in Submissions :
          /\ readEpoch'[q] <= epoch
          /\ q # s => readEpoch'[q] = readEpoch[q] /\ entries'[q] = entries[q]
    BY <1>8 DEF Clear, Forget, CacheInv, TypeInv, TypeOK
  <2> QED
    BY <1>8, <2>1, <2>2, <2>3, <2>4 DEF Clear, CacheInv, AnsweredInCache, Knows
<1>9. ASSUME NEW s \in Submissions, Send(s)
      PROVE  CacheInv'
  <2>1. \A q \in Submissions : q # s => pc'[q] = pc[q]
    BY <1>9 DEF Send, TypeInv, TypeOK
  <2>2. pc'[s] = "wait"
    BY <1>9 DEF Send, TypeInv, TypeOK
  <2> QED
    BY <1>9, <2>1, <2>2, CacheFrame DEF Send
<1>10. ASSUME NEW s \in Submissions, NEW i \in Attempts, Accept(s, i)
       PROVE  CacheInv'
  BY <1>10, CacheFrame DEF Accept
<1>11. ASSUME NEW s \in Submissions, SubmitOk(s)
       PROVE  CacheInv'
  <2>1. \A q \in Submissions : q # s => pc'[q] = pc[q] /\ outcome'[q] = outcome[q]
    BY <1>11 DEF SubmitOk, TypeInv, TypeOK
  <2>2. pc'[s] = "bump"
    BY <1>11 DEF SubmitOk, TypeInv, TypeOK
  <2> QED
    BY <1>11, <2>1, <2>2, CacheFrame DEF SubmitOk
<1>12. ASSUME NEW s \in Submissions, Drop(s)
       PROVE  CacheInv'
  <2>1. \A q \in Submissions : q # s => pc'[q] = pc[q]
    BY <1>12 DEF Drop, TypeInv, TypeOK
  <2>2. pc'[s] = "gone"
    BY <1>12 DEF Drop, TypeInv, TypeOK
  <2>3. \A q \in Submissions :
          /\ readEpoch'[q] = readEpoch[q] \/ (readEpoch'[q] = 0 /\ pc'[q] # "store")
          /\ q # s => entries'[q] = entries[q]
    BY <1>12, <2>2 DEF Drop, Forget, TypeInv, TypeOK
  <2> QED
    BY <1>12, <2>1, <2>2, <2>3, CacheFrame DEF Drop
<1>13. CASE UNCHANGED vars
  BY <1>13, CacheFrame DEF vars
<1> QED
  BY <1>1, <1>2, <1>3, <1>4, <1>5, <1>6, <1>7, <1>8, <1>9, <1>10, <1>11, <1>12, <1>13
     DEF Next, Advance, BeginError, FetchError, BuildError, MiningTimeout, SubmitError,
         RetryEmpty, RetrySubmit

(* AnsweredInCache: the cache invalidation of submitter.rs keeps its word  *)
(* for every set that no forced refresh stored.                            *)
THEOREM SpecAnsweredInCache == Spec => []AnsweredInCache
<1>1. Init => CacheInv
  BY DEF Init, CacheInv, AnsweredInCache
<1>2. CacheInv => AnsweredInCache
  BY DEF CacheInv
<1> QED
  BY <1>1, <1>2, SubmitterTypeInv, CacheInvStep, PTL DEF Spec

-----------------------------------------------------------------------------
(* Why no set that was read before an invalidation comes back under its    *)
(* broadcast.  The epoch moves with bumped, so a reader whose epoch is     *)
(* current has a set that is later than every invalidation, and the slot   *)
(* is empty when the broadcast leaves.                                     *)

Outgoing(s) ==
  pc[s] = "send" \/ (pc[s] = "clear" /\ outcome[s] = "pending")

SendInv ==
  /\ \A s \in Submissions, i \in Attempts :
       broadcast[s][i] # "unsent" => <<s, i>> \in bumped
  /\ \A s \in Submissions : Outgoing(s) => <<s, attempt[s]>> \in bumped
  /\ \A s \in Submissions :
       pc[s] = "store" /\ readEpoch[s] = epoch => entries[s].bumped = bumped
  /\ cache # None /\ ~cache.forced =>
       \A s \in Submissions, i \in Attempts :
         broadcast[s][i] # "unsent" \/ (pc[s] = "send" /\ i = attempt[s])
           => <<s, i>> \in cache.bumped

(* A step that neither invalidates nor fills the cache, nor reads the node *)
(* or the epoch, nor broadcasts, leaves this as it is.                     *)
LEMMA SendFrame ==
  ASSUME TypeInv, CacheInv, SendInv, UNCHANGED <<shared, bumped>>,
         \A s \in Submissions :
           /\ \A i \in Attempts : broadcast'[s][i] = "unsent" <=> broadcast[s][i] = "unsent"
           /\ Outgoing(s)' => Outgoing(s) /\ pc'[s] = pc[s] /\ attempt'[s] = attempt[s]
           /\ pc'[s] = "store" =>
                pc[s] = "store" /\ entries'[s] = entries[s] /\ readEpoch'[s] = readEpoch[s]
  PROVE  SendInv'
  BY DEF SendInv, Outgoing, shared

(* Whoever may still fill the cache read after the last invalidation.      *)
LEMMA SendInvStep == TypeInv /\ CacheInv /\ SendInv /\ [Next]_vars => SendInv'
<1> SUFFICES ASSUME TypeInv, CacheInv, SendInv, [Next]_vars PROVE SendInv'
  OBVIOUS
<1> USE DEF Goto
<1>1. ASSUME NEW s \in Submissions,
             \/ Begin(s) \/ Hit(s) \/ Miss(s) \/ Build(s) \/ LoadEpoch(s) \/ SubmitOk(s)
             \/ \E from \in {"build", "wait"} : Retry(s, from)
      PROVE  SendInv'
  <2>1. \A q \in Submissions : q # s =>
          /\ pc'[q] = pc[q] /\ outcome'[q] = outcome[q] /\ attempt'[q] = attempt[q]
          /\ entries'[q] = entries[q] /\ readEpoch'[q] = readEpoch[q]
    BY <1>1 DEF Begin, Hit, Miss, Build, LoadEpoch, SubmitOk, Retry, TypeInv, TypeOK
  <2>2. /\ pc'[s] \in {"load", "lookup", "build", "fetch", "bump"}
        /\ UNCHANGED <<shared, bumped, broadcast>>
    BY <1>1 DEF Begin, Hit, Miss, Build, LoadEpoch, SubmitOk, Retry, TypeInv, TypeOK, shared
  <2> QED
    BY <2>1, <2>2, SendFrame DEF Outgoing
<1>2. ASSUME NEW s \in Submissions,
             \/ Drop(s)
             \/ \E from \in Control, error \in {"error", "miningTimeout"} : Fail(s, from, error)
      PROVE  SendInv'
  <2>1. \A q \in Submissions : q # s =>
          /\ pc'[q] = pc[q] /\ outcome'[q] = outcome[q] /\ attempt'[q] = attempt[q]
          /\ entries'[q] = entries[q] /\ readEpoch'[q] = readEpoch[q]
    BY <1>2 DEF Drop, Fail, Forget, TypeInv, TypeOK
  <2>2. pc'[s] \in {"gone", "done"} /\ UNCHANGED <<shared, bumped, broadcast>>
    BY <1>2 DEF Drop, Fail, TypeInv, TypeOK, shared
  <2> QED
    BY <2>1, <2>2, SendFrame DEF Outgoing
<1>3. ASSUME NEW s \in Submissions, Fetch(s)
      PROVE  SendInv'
  <2>1. PICK f \in Funds :
          entries' = [entries EXCEPT ![s] =
            [key |-> key[s], funds |-> f, seen |-> AcceptedFor(key[s]),
             bumped |-> bumped, forced |-> attempt[s] = 1]]
    BY <1>3 DEF Fetch
  <2>2. entries'[s].bumped = bumped
    BY <2>1 DEF TypeInv, TypeOK
  <2>3. \A q \in Submissions : q # s => pc'[q] = pc[q] /\ entries'[q] = entries[q]
    BY <1>3, <2>1 DEF Fetch, TypeInv, TypeOK
  <2>4. /\ pc'[s] = "store"
        /\ UNCHANGED <<cache, epoch, bumped, broadcast, outcome, attempt, readEpoch>>
    BY <1>3 DEF Fetch, TypeInv, TypeOK, shared
  <2> QED
    BY <2>2, <2>3, <2>4 DEF SendInv, Outgoing
<1>4. ASSUME NEW s \in Submissions, Store(s)
      PROVE  SendInv'
  <2>1. \A q \in Submissions : q # s => pc'[q] = pc[q]
    BY <1>4 DEF Store, TypeInv, TypeOK
  <2>2. /\ pc[s] = "store" /\ pc'[s] = "build"
        /\ UNCHANGED <<epoch, bumped, broadcast, outcome, attempt, readEpoch, entries>>
    BY <1>4 DEF Store, TypeInv, TypeOK
  <2>3. \/ cache' = cache
        \/ cache' = entries[s] /\ entries[s].forced
        \/ cache' = entries[s] /\ entries[s].bumped = bumped
    BY <1>4, <2>2 DEF Store, CacheInv, SendInv
  <2>4. \A q \in Submissions : pc'[q] = "send" => pc[q] = "send"
    BY <2>1, <2>2
  <2>5. cache' # None /\ ~cache'.forced =>
          \A q \in Submissions, i \in Attempts :
            broadcast[q][i] # "unsent" \/ (pc[q] = "send" /\ i = attempt[q])
              => <<q, i>> \in cache'.bumped
    BY <2>3 DEF SendInv, Outgoing
  <2> QED
    BY <2>1, <2>2, <2>4, <2>5 DEF SendInv, Outgoing
<1>5. ASSUME NEW s \in Submissions, Bump(s)
      PROVE  SendInv'
  <2>1. \A q \in Submissions : q # s => pc'[q] = pc[q]
    BY <1>5 DEF Bump, TypeInv, TypeOK
  <2>2. pc'[s] = "clear" /\ UNCHANGED <<cache, broadcast, outcome, attempt, readEpoch, entries>>
    BY <1>5 DEF Bump, TypeInv, TypeOK
  <2>3. \A q \in Submissions : readEpoch'[q] # epoch'
    BY <1>5 DEF Bump, CacheInv, TypeInv, TypeOK
  <2>4. bumped \subseteq bumped' /\ (outcome[s] = "pending" => <<s, attempt[s]>> \in bumped')
    BY <1>5 DEF Bump
  <2>5. \A q \in Submissions : Outgoing(q)' => Outgoing(q) \/ (q = s /\ outcome[s] = "pending")
    BY <2>1, <2>2 DEF Outgoing
  <2>6. \A q \in Submissions : pc'[q] = "send" => pc[q] = "send"
    BY <2>1, <2>2
  <2>7. \A q \in Submissions : Outgoing(q)' => <<q, attempt[q]>> \in bumped'
    BY <2>4, <2>5 DEF SendInv
  <2>8. cache' # None /\ ~cache'.forced =>
          \A q \in Submissions, i \in Attempts :
            broadcast'[q][i] # "unsent" \/ (pc'[q] = "send" /\ i = attempt'[q])
              => <<q, i>> \in cache'.bumped
    BY <2>2, <2>6 DEF SendInv
  <2> QED
    BY <2>2, <2>3, <2>4, <2>7, <2>8 DEF SendInv
<1>6. ASSUME NEW s \in Submissions, Clear(s)
      PROVE  SendInv'
  <2>1. \A q \in Submissions : q # s =>
          pc'[q] = pc[q] /\ entries'[q] = entries[q] /\ readEpoch'[q] = readEpoch[q]
    BY <1>6 DEF Clear, Forget, TypeInv, TypeOK
  <2>2. /\ pc[s] = "clear" /\ pc'[s] \in {"done", "send"}
        /\ pc'[s] = "send" => outcome[s] = "pending"
        /\ cache' = None /\ UNCHANGED <<epoch, bumped, broadcast, outcome, attempt>>
    BY <1>6 DEF Clear, TypeInv, TypeOK
  <2> QED
    BY <2>1, <2>2 DEF SendInv, Outgoing
<1>7. ASSUME NEW s \in Submissions, Send(s)
      PROVE  SendInv'
  <2>1. \A q \in Submissions : q # s => pc'[q] = pc[q]
    BY <1>7 DEF Send, TypeInv, TypeOK
  <2>2. /\ pc[s] = "send" /\ pc'[s] = "wait"
        /\ UNCHANGED <<cache, epoch, bumped, outcome, attempt, readEpoch, entries>>
    BY <1>7 DEF Send, TypeInv, TypeOK, shared
  <2>3. \A q \in Submissions, i \in Attempts :
          broadcast'[q][i] # "unsent"
            => broadcast[q][i] # "unsent" \/ (q = s /\ i = attempt[s])
    BY <1>7 DEF Send, TypeInv, TypeOK
  <2>4. \A q \in Submissions, i \in Attempts :
          broadcast'[q][i] # "unsent" => <<q, i>> \in bumped
    BY <2>2, <2>3 DEF SendInv, Outgoing
  <2>5. cache # None /\ ~cache.forced =>
          \A q \in Submissions, i \in Attempts :
            broadcast'[q][i] # "unsent" \/ (pc'[q] = "send" /\ i = attempt[q])
              => <<q, i>> \in cache.bumped
    BY <2>1, <2>2, <2>3 DEF SendInv
  <2> QED
    BY <2>1, <2>2, <2>4, <2>5 DEF SendInv, Outgoing
<1>8. ASSUME NEW s \in Submissions, NEW j \in Attempts, Accept(s, j)
      PROVE  SendInv'
  <2>1. \A q \in Submissions, i \in Attempts :
          broadcast'[q][i] = "unsent" <=> broadcast[q][i] = "unsent"
    BY <1>8 DEF Accept, TypeInv, TypeOK
  <2> QED
    BY <1>8, <2>1, SendFrame DEF Accept, Outgoing, shared
<1>9. CASE UNCHANGED vars
  BY <1>9, SendFrame DEF vars, shared, Outgoing
<1>10. ASSUME NEW s \in Submissions,
              BeginError(s) \/ FetchError(s) \/ BuildError(s) \/ MiningTimeout(s) \/ SubmitError(s)
       PROVE  \E from \in Control, error \in {"error", "miningTimeout"} : Fail(s, from, error)
  BY <1>10 DEF BeginError, FetchError, BuildError, MiningTimeout, SubmitError, Control
<1> QED
  BY <1>1, <1>2, <1>3, <1>4, <1>5, <1>6, <1>7, <1>8, <1>9, <1>10
     DEF Next, Advance, RetryEmpty, RetrySubmit

(* InvalidatedBeforeSend: from the invalidation ahead of a broadcast on,   *)
(* no slow reader puts back the set that the transaction was built from.   *)
THEOREM SpecInvalidatedBeforeSend == Spec => []InvalidatedBeforeSend
<1>1. Init => CacheInv /\ SendInv
  BY DEF Init, CacheInv, AnsweredInCache, SendInv, Outgoing
<1>2. SendInv => InvalidatedBeforeSend
  BY DEF SendInv, InvalidatedBeforeSend
<1> QED
  BY <1>1, <1>2, SubmitterTypeInv, CacheInvStep, SendInvStep, PTL DEF Spec

(* Every reachable state of the submitter is well typed.                   *)
THEOREM SpecSubmitterTypeOK == Spec => []TypeOK
<1>1. TypeInv => TypeOK
  BY DEF TypeInv
<1> QED
  BY <1>1, SubmitterTypeInv, PTL

(* However many keys share the slot, a submission works with the UTXOs of  *)
(* its own.                                                                *)
THEOREM SpecOwnEntries == Spec => []OwnEntries
<1>1. TypeInv => OwnEntries
  BY DEF TypeInv
<1> QED
  BY <1>1, SubmitterTypeInv, PTL

-----------------------------------------------------------------------------
(* The refinement of PayloadSubmission.                                    *)

Same(s) ==
  /\ Phase(s)' = Phase(s)
  /\ BroadcastsThat(s, "accepted")' = BroadcastsThat(s, "accepted")
  /\ Late(s)' = Late(s)
  /\ Result(s)' = Result(s)

(* A step of one submission leaves the others as the contract sees them. *)
LEMMA SameOthers ==
  ASSUME NEW s \in Submissions, \A q \in Submissions : q # s => Same(q)
  PROVE  /\ [q \in Submissions |-> Phase(q)]'
              = [[q \in Submissions |-> Phase(q)] EXCEPT ![s] = Phase(s)']
         /\ [q \in Submissions |-> BroadcastsThat(q, "accepted")]'
              = [[q \in Submissions |-> BroadcastsThat(q, "accepted")]
                   EXCEPT ![s] = BroadcastsThat(s, "accepted")']
         /\ [q \in Submissions |-> Late(q)]'
              = [[q \in Submissions |-> Late(q)] EXCEPT ![s] = Late(s)']
         /\ [q \in Submissions |-> Result(q)]'
              = [[q \in Submissions |-> Result(q)] EXCEPT ![s] = Result(s)']
  BY DEF Same

(* Which broadcasts an attempt may have behind it: those up to it, and     *)
(* only those before it as long as its own is not sent.                    *)
LEMMA BroadcastRange ==
  ASSUME TypeInv, NEW s \in Submissions
  PROVE  /\ BroadcastsThat(s, "accepted") \subseteq 0..attempt[s]
         /\ BroadcastsThat(s, "sent")
              \in SUBSET ((0..attempt[s]) \ BroadcastsThat(s, "accepted"))
         /\ broadcast[s][attempt[s]] = "unsent"
              => /\ BroadcastsThat(s, "accepted") \subseteq {0}
                 /\ BroadcastsThat(s, "sent")
                      \in SUBSET ({0} \ BroadcastsThat(s, "accepted"))
         /\ attempt[s] \in Attempts
         /\ 0..attempt[s] \subseteq Attempts
<1>1. attempt[s] = 0 \/ attempt[s] = 1
  BY DEF TypeInv, TypeOK, Attempts
<1>2. attempt[s] = 0 => broadcast[s][1] = "unsent"
  BY DEF TypeInv, ControlFlow
<1>3. \A i \in Attempts : i = 0 \/ i = 1
  BY DEF Attempts
<1> QED
  BY <1>1, <1>2, <1>3 DEF BroadcastsThat, Attempts

(* Every step is one of the contract or invisible to it. *)
LEMMA ContractStep ==
  TypeInv /\ [Next]_vars => [Contract!Next]_(Contract!submissionVars)
<1> SUFFICES ASSUME TypeInv, [Next]_vars
             PROVE  [Contract!Next]_(Contract!submissionVars)
  OBVIOUS
<1>0. ASSUME \A q \in Submissions : Same(q)
      PROVE  UNCHANGED Contract!submissionVars
  BY <1>0 DEF Same, Contract!submissionVars
<1>1. ASSUME NEW s \in Submissions, Begin(s)
      PROVE  Contract!Next
  <2>1. \A q \in Submissions : q # s => Same(q)
    BY <1>1 DEF Begin, Goto, Same, Phase, BroadcastsThat, Late, Result, TypeInv, TypeOK
  <2>2. /\ Phase(s) = "none" /\ Phase(s)' = "open"
        /\ BroadcastsThat(s, "accepted")' = BroadcastsThat(s, "accepted")
        /\ Result(s)' = Result(s)
        /\ Late(s)' = Late(s)
    BY <1>1 DEF Begin, Goto, Phase, BroadcastsThat, Late, Result, TypeInv, TypeOK
  <2>3. Contract!Open(s)
    BY <2>1, <2>2, SameOthers DEF Contract!Open, Contract!Enter
  <2> QED
    BY <2>3 DEF Contract!Next
<1>2. ASSUME NEW s \in Submissions, BeginError(s)
      PROVE  Contract!Next
  <2>1. \A q \in Submissions : q # s => Same(q)
    BY <1>2 DEF BeginError, Fail, Goto, Same, Phase, BroadcastsThat, Late, Result, TypeInv, TypeOK
  <2>2. /\ Phase(s) = "none" /\ Phase(s)' = "error"
        /\ BroadcastsThat(s, "accepted")' = BroadcastsThat(s, "accepted")
        /\ Result(s)' = Result(s)
        /\ Late(s)' = Late(s)
    <3>1. broadcast[s][0] = "unsent" /\ broadcast[s][1] = "unsent"
      BY <1>2 DEF BeginError, Fail, Goto, TypeInv, ControlFlow, Unsent
    <3>2. BroadcastsThat(s, "sent")' = {} /\ broadcast' = broadcast
      BY <1>2, <3>1 DEF BeginError, Fail, BroadcastsThat, Attempts
    <3> QED
      BY <1>2, <3>2
         DEF BeginError, Fail, Goto, Phase, BroadcastsThat, Late, Result, TypeInv, TypeOK
  <2>3. Contract!Refuse(s)
    BY <2>1, <2>2, SameOthers DEF Contract!Refuse, Contract!Enter
  <2> QED
    BY <2>3 DEF Contract!Next
<1>3. ASSUME NEW s \in Submissions, NEW from \in {"fetch", "build", "wait"},
             Fail(s, from, "error")
      PROVE  Contract!Next
  <2>1. \A q \in Submissions : q # s => Same(q)
    BY <1>3 DEF Fail, Goto, Same, Phase, BroadcastsThat, Late, Result, TypeInv, TypeOK
  <2>2. /\ Phase(s) = "open" /\ Phase(s)' = "error"
        /\ BroadcastsThat(s, "accepted")' = BroadcastsThat(s, "accepted")
        /\ Result(s)' = Result(s)
        /\ Late(s)' = BroadcastsThat(s, "sent")
    BY <1>3 DEF Fail, Goto, Phase, BroadcastsThat, Late, Result, TypeInv, TypeOK
  <2>3. Contract!AnswerError(s)
    BY <2>1, <2>2, SameOthers, BroadcastRange
       DEF Contract!AnswerError, Contract!Enter, Contract!LeaveWithin, Contract!Attempts, Attempts
  <2> QED
    BY <2>3 DEF Contract!Next
<1>4. ASSUME NEW s \in Submissions, MiningTimeout(s)
      PROVE  Contract!Next
  <2>1. \A q \in Submissions : q # s => Same(q)
    BY <1>4 DEF MiningTimeout, Fail, Goto, Same, Phase, BroadcastsThat, Late, Result, TypeInv, TypeOK
  <2>2. /\ Phase(s) = "open" /\ Phase(s)' = "miningTimeout"
        /\ BroadcastsThat(s, "accepted")' = BroadcastsThat(s, "accepted")
        /\ Result(s)' = Result(s)
        /\ Late(s)' = BroadcastsThat(s, "sent")
    BY <1>4 DEF MiningTimeout, Fail, Goto, Phase, BroadcastsThat, Late, Result, TypeInv, TypeOK
  <2>3. broadcast[s][attempt[s]] = "unsent"
    BY <1>4 DEF MiningTimeout, TypeInv, ControlFlow, Unsent
  <2>4. Contract!AnswerMiningTimeout(s)
    BY <2>1, <2>2, <2>3, SameOthers, BroadcastRange
       DEF Contract!AnswerMiningTimeout, Contract!Enter, Contract!LeaveWithin
  <2> QED
    BY <2>4 DEF Contract!Next
<1>5. ASSUME NEW s \in Submissions, Clear(s)
      PROVE  Contract!Next \/ UNCHANGED Contract!submissionVars
  <2>1. \A q \in Submissions : q # s => Same(q)
    BY <1>5 DEF Clear, Goto, Same, Phase, BroadcastsThat, Late, Result, TypeInv, TypeOK
  <2>2. CASE outcome[s] = "ok"
    <3>1. /\ Phase(s) = "open" /\ Phase(s)' = "ok"
          /\ BroadcastsThat(s, "accepted")' = BroadcastsThat(s, "accepted")
          /\ Late(s)' = BroadcastsThat(s, "sent")
          /\ Result(s)' = attempt[s]
      BY <1>5, <2>2 DEF Clear, Goto, Phase, BroadcastsThat, Late, Result, TypeInv, TypeOK
    <3>2. attempt[s] \in BroadcastsThat(s, "accepted")
      BY <2>2, BroadcastRange DEF TypeInv, ControlFlow, BroadcastsThat
    <3>3. /\ Contract!Enter(s, {"open"}, "ok")
          /\ Contract!LeaveWithin(s, 0..attempt[s])
      BY <2>1, <3>1, SameOthers, BroadcastRange DEF Contract!Enter, Contract!LeaveWithin
    <3>4. Contract!AnswerOk(s)
      BY <2>1, <3>1, <3>2, <3>3, SameOthers DEF Contract!AnswerOk
    <3> QED
      BY <3>4 DEF Contract!Next
  <2>3. CASE outcome[s] # "ok"
    <3>1. Same(s)
      BY <1>5, <2>3 DEF Clear, Goto, Same, Phase, BroadcastsThat, Late, Result, TypeInv, TypeOK
    <3> QED
      BY <1>0, <2>1, <3>1
  <2> QED
    BY <2>2, <2>3
<1>6. ASSUME NEW s \in Submissions, NEW i \in Attempts, Accept(s, i)
      PROVE  Contract!Next
  <2>1. \A q \in Submissions : q # s => Same(q)
    BY <1>6 DEF Accept, Same, Phase, BroadcastsThat, Late, Result, TypeInv, TypeOK
  <2>2. /\ broadcast[s] \in [Attempts -> {"unsent", "sent", "accepted"}]
        /\ broadcast'[s] = [broadcast[s] EXCEPT ![i] = "accepted"]
        /\ broadcast[s][i] = "sent"
    BY <1>6 DEF Accept, TypeInv, TypeOK
  <2>3. /\ BroadcastsThat(s, "accepted")' = BroadcastsThat(s, "accepted") \cup {i}
        /\ BroadcastsThat(s, "sent")' = BroadcastsThat(s, "sent") \ {i}
        /\ i \in BroadcastsThat(s, "sent")
    BY <2>2 DEF BroadcastsThat
  <2>4. i \in Contract!Attempts \ BroadcastsThat(s, "accepted")
    BY <2>2 DEF BroadcastsThat, Contract!Attempts, Attempts
  <2>5. Phase(s)' = Phase(s) /\ pc'[s] = pc[s] /\ Result(s)' = Result(s)
    BY <1>6 DEF Accept, Phase, Result
  <2>6. pc[s] # "idle"
    BY <2>2 DEF TypeInv, ControlFlow, Unsent, Attempts
  <2>7. \/ Phase(s) = "open" /\ Late(s)' = Late(s)
        \/ i \in Late(s) /\ Late(s)' = Late(s) \ {i}
    BY <2>3, <2>5, <2>6 DEF Late, Phase
  <2>8. /\ UNCHANGED [q \in Submissions |-> Phase(q)]
        /\ UNCHANGED [q \in Submissions |-> Result(q)]
    BY <2>1, <2>5 DEF Same
  <2>9. [q \in Submissions |-> BroadcastsThat(q, "accepted")]'
          = [[q \in Submissions |-> BroadcastsThat(q, "accepted")]
               EXCEPT ![s] = @ \cup {i}]
    BY <2>1, <2>3, SameOthers
  <2>10. ASSUME Phase(s) = "open", Late(s)' = Late(s)
         PROVE  Contract!Accept(s)
    <3>1. UNCHANGED [q \in Submissions |-> Late(q)]
      BY <2>1, <2>10 DEF Same
    <3> QED
      BY <2>4, <2>8, <2>9, <2>10, <3>1 DEF Contract!Accept
  <2>11. ASSUME i \in Late(s), Late(s)' = Late(s) \ {i}
         PROVE  Contract!Accept(s)
    <3>1. [q \in Submissions |-> Late(q)]'
            = [[q \in Submissions |-> Late(q)] EXCEPT ![s] = @ \ {i}]
      BY <2>1, <2>11, SameOthers
    <3> QED
      BY <2>4, <2>8, <2>9, <2>11, <3>1 DEF Contract!Accept
  <2>12. Contract!Accept(s)
    BY <2>7, <2>10, <2>11
  <2> QED
    BY <2>12 DEF Contract!Next
<1>7. ASSUME NEW s \in Submissions, Drop(s)
      PROVE  Contract!Next
  <2>1. \A q \in Submissions : q # s => Same(q)
    BY <1>7 DEF Drop, Same, Phase, BroadcastsThat, Late, Result, TypeInv, TypeOK
  <2>2. /\ Phase(s) = "open" /\ Phase(s)' = "gone"
        /\ BroadcastsThat(s, "accepted")' = BroadcastsThat(s, "accepted")
        /\ Result(s)' = Result(s)
        /\ Late(s)' = BroadcastsThat(s, "sent")
    BY <1>7 DEF Drop, Phase, BroadcastsThat, Late, Result, TypeInv, TypeOK
  <2>3. Contract!Drop(s)
    BY <2>1, <2>2, SameOthers, BroadcastRange
       DEF Contract!Drop, Contract!Enter, Contract!LeaveWithin, Contract!Attempts, Attempts
  <2> QED
    BY <2>3 DEF Contract!Next
<1>8. ASSUME NEW s \in Submissions,
             \/ LoadEpoch(s) \/ Hit(s) \/ Miss(s) \/ Fetch(s) \/ Store(s)
             \/ RetryEmpty(s) \/ Build(s) \/ Bump(s) \/ SubmitOk(s) \/ RetrySubmit(s)
      PROVE  UNCHANGED Contract!submissionVars
  <2>1. \A q \in Submissions :
          /\ pc'[q] = pc[q] \/ {pc[q], pc'[q]} \cap {"idle", "done", "gone"} = {}
          /\ outcome'[q] = outcome[q] \/ pc'[q] # "done"
          /\ attempt'[q] = attempt[q] \/ pc'[q] = "load"
          /\ broadcast' = broadcast
    BY <1>8 DEF LoadEpoch, Hit, Miss, Fetch, Store, RetryEmpty, Build, Bump, SubmitOk,
                RetrySubmit, Retry, Goto, TypeInv, TypeOK
  <2>2. \A q \in Submissions : Same(q)
    BY <2>1 DEF Same, Phase, BroadcastsThat, Late, Result
  <2> QED
    BY <1>0, <2>2
<1>9. ASSUME NEW s \in Submissions, Send(s)
      PROVE  UNCHANGED Contract!submissionVars
  <2>1. \A q \in Submissions : q # s => Same(q)
    BY <1>9 DEF Send, Goto, Same, Phase, BroadcastsThat, Late, Result, TypeInv, TypeOK
  <2>2. /\ broadcast[s] \in [Attempts -> {"unsent", "sent", "accepted"}]
        /\ broadcast'[s] = [broadcast[s] EXCEPT ![attempt[s]] = "sent"]
        /\ broadcast[s][attempt[s]] = "unsent"
        /\ attempt[s] \in Attempts
    BY <1>9 DEF Send, Goto, TypeInv, TypeOK, ControlFlow, Unsent
  <2>3. BroadcastsThat(s, "accepted")' = BroadcastsThat(s, "accepted")
    BY <2>2 DEF BroadcastsThat, Attempts
  <2>4. Phase(s)' = Phase(s) /\ Late(s)' = Late(s) /\ Result(s)' = Result(s)
    BY <1>9 DEF Send, Goto, Phase, Late, Result, TypeInv, TypeOK
  <2> QED
    BY <1>0, <2>1, <2>3, <2>4 DEF Same
<1>10. CASE UNCHANGED vars
  BY <1>0, <1>10 DEF vars, Same, Phase, BroadcastsThat, Late, Result
<1> QED
  BY <1>1, <1>2, <1>3, <1>4, <1>5, <1>6, <1>7, <1>8, <1>9, <1>10
     DEF Next, Advance, FetchError, BuildError, SubmitError

(* ImplementsContract: the submitter keeps the contract that the request   *)
(* path relies on.                                                         *)
THEOREM SpecImplementsContract == Spec => ImplementsContract
<1>1. Init => Contract!Init
  BY DEF Init, Contract!Init, Phase, BroadcastsThat, Late, Result, Attempts
<1> QED
  BY <1>1, SubmitterTypeInv, ContractStep, PTL DEF Spec, ImplementsContract, Contract!Spec
=============================================================================
