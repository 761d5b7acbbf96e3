------------------------ MODULE ConfigTransactionProofs -----------------------
(***************************************************************************)
(* Proofs about ConfigTransaction, for every set of component ids and of   *)
(* configurations and any number of updates and epochs.                    *)
(***************************************************************************)
EXTENDS ConfigTransaction, CollectionLemmas, TLAPS

(* The accounting of the updates.                                          *)

Accounted ==
    stagedCount = committedCount + rolledBackCount + Cardinality(DOMAIN pending) + replaced

\* The part of TypeOK on which the passes over the copy rest: what they have still to
\* do is never empty.
PassOpen ==
    /\ pc \in {"validate", "apply"} => done # DOMAIN batch
    /\ pc = "restore" => done # {}

\* pending and the copy of it are functions, and no transaction has the id 0.
StoreShape ==
    /\ pending = [id \in DOMAIN pending |-> pending[id]]
    /\ 0 \notin txIds /\ nextTx # 0

AccountInv == TypeOK /\ PassOpen /\ StoreShape /\ TransactionIds /\ Accounted

\* A map is empty when no id has an entry.
LEMMA EmptyMap ==
    ASSUME NEW f, f = [id \in DOMAIN f |-> f[id]]
    PROVE  f = Empty <=> DOMAIN f = {}
BY DEF Empty

\* The ids with an entry are finitely many.
LEMMA PendingFinite ==
    ASSUME TypeOK
    PROVE  /\ IsFiniteSet(DOMAIN pending) /\ Cardinality(DOMAIN pending) \in Nat
           /\ IsFiniteSet(DOMAIN batch)
<1>1. DOMAIN pending \in SUBSET Ids /\ DOMAIN batch \in SUBSET Ids
  BY DEF TypeOK
<1>2. IsFiniteSet(DOMAIN pending) /\ IsFiniteSet(DOMAIN batch)
  BY <1>1, ConfigAssumption, FS_Subset
<1> QED
  BY <1>2, FS_CardinalityType

\* The id a pass handles next is an entry of the copy that it has not handled.
LEMMA NextId ==
    ASSUME TypeOK, PassOpen
    PROVE  /\ pc \in {"validate", "apply"} => Min(DOMAIN batch \ done) \in DOMAIN batch \ done
           /\ pc = "restore" => Max(done) \in done
<1>1. DOMAIN batch \in SUBSET Nat /\ done \subseteq DOMAIN batch
  BY ConfigAssumption DEF TypeOK
<1>2. ASSUME pc \in {"validate", "apply"}
      PROVE  Min(DOMAIN batch \ done) \in DOMAIN batch \ done
  <2>1. DOMAIN batch \ done \in SUBSET Nat /\ DOMAIN batch \ done # {}
    BY <1>1, <1>2 DEF PassOpen
  <2> QED
    BY <2>1, MinMember
<1>3. ASSUME pc = "restore"
      PROVE  Max(done) \in done
  <2>1. done \in SUBSET Nat /\ done # {}
    BY <1>1, <1>3 DEF PassOpen
  <2>2. IsFiniteSet(done)
    BY <1>1, PendingFinite, FS_Subset
  <2> QED
    BY <2>1, <2>2, MaxMember
<1> QED
  BY <1>2, <1>3

LEMMA AccountInit == Init => AccountInv
<1> SUFFICES ASSUME Init PROVE AccountInv
  OBVIOUS
<1>1. DOMAIN pending = {} /\ DOMAIN batch = {}
  BY DEF Init, Empty
<1>2. TypeOK
  BY <1>1, ConfigAssumption DEF Init, TypeOK, Phases
<1>3. PassOpen /\ StoreShape
  BY DEF Init, PassOpen, StoreShape, Empty
<1>4. TransactionIds
  BY DEF Init, TransactionIds
<1>5. Cardinality(DOMAIN pending) = 0
  BY <1>1, FS_EmptySet
<1>6. Accounted
  BY <1>5 DEF Init, Accounted
<1> QED
  BY <1>2, <1>3, <1>4, <1>6 DEF AccountInv

\* Every step keeps the types, and leaves the passes something to do.
LEMMA TypeStep == TypeOK /\ PassOpen /\ StoreShape /\ [Next]_vars => TypeOK' /\ PassOpen'
<1> SUFFICES ASSUME TypeOK, PassOpen, StoreShape, [Next]_vars PROVE TypeOK' /\ PassOpen'
  OBVIOUS
<1> USE DEF store, metrics, thread, history
<1>1. ASSUME NEW id \in Ids, NEW value \in Values, StageUpdate(id, value)
      PROVE  TypeOK' /\ PassOpen'
  <2>1. DOMAIN pending' \subseteq Ids /\ \A x \in DOMAIN pending' : pending'[x] \in Values
    BY <1>1 DEF StageUpdate, TypeOK
  <2>2. /\ pendingTx' \in Nat /\ nextTx' \in Nat /\ updates' \in Nat /\ replaced' \in Nat
        /\ stagedCount' \in Nat
    BY <1>1 DEF StageUpdate, TypeOK
  <2> QED
    BY <1>1, <2>1, <2>2 DEF StageUpdate, TypeOK, PassOpen
<1>2. ASSUME NEW id \in Ids, NEW value \in Values, UpdateImmediately(id, value)
      PROVE  TypeOK' /\ PassOpen'
  BY <1>2 DEF UpdateImmediately, TypeOK, PassOpen
<1>3. CASE BeginTransaction
  <2>1. pending # Empty => DOMAIN pending # {}
    BY EmptyMap DEF StoreShape
  <2> QED
    BY <1>3, <2>1 DEF BeginTransaction, TypeOK, PassOpen, Phases
<1>4. ASSUME NEW ok \in BOOLEAN, Validate(ok)
      PROVE  TypeOK' /\ PassOpen'
  <2> DEFINE id == Min(DOMAIN batch \ done)
  <2>1. id \in DOMAIN batch \ done /\ id \in Ids
    BY <1>4, NextId DEF Validate, TypeOK
  <2>2. previous' \in [Ids -> Values]
    BY <1>4, <2>1 DEF Validate, TypeOK
  <2>3. done' \subseteq DOMAIN batch /\ pc' \in Phases
    BY <1>4, <2>1 DEF Validate, TypeOK, Phases
  <2>4. PassOpen'
    BY <1>4, <2>1 DEF Validate, PassOpen
  <2> HIDE DEF id
  <2> QED
    BY <1>4, <2>2, <2>3, <2>4 DEF Validate, TypeOK
<1>5. ASSUME NEW ok \in BOOLEAN, NEW taken \in BOOLEAN, Apply(ok, taken)
      PROVE  TypeOK' /\ PassOpen'
  <2> DEFINE id == Min(DOMAIN batch \ done)
  <2>1. id \in DOMAIN batch \ done
    BY <1>5, NextId DEF Apply
  <2>2. live' \in [Components -> Values]
    BY <1>5, <2>1 DEF Apply, TypeOK
  <2>3. done' \subseteq DOMAIN batch /\ pc' \in Phases
    BY <1>5, <2>1 DEF Apply, TypeOK, Phases
  <2>4. PassOpen'
    BY <1>5, <2>1 DEF Apply, PassOpen
  <2> HIDE DEF id
  <2> QED
    BY <1>5, <2>2, <2>3, <2>4 DEF Apply, TypeOK
<1>6. ASSUME NEW ok \in BOOLEAN, NEW taken \in BOOLEAN, Restore(ok, taken)
      PROVE  TypeOK' /\ PassOpen'
  <2>1. Max(done) \in done
    BY <1>6, NextId DEF Restore
  <2>2. live' \in [Components -> Values]
    BY <1>6, <2>1 DEF Restore, TypeOK
  <2>3. done' \subseteq DOMAIN batch /\ pc' \in Phases
    BY <1>6, <2>1 DEF Restore, TypeOK, Phases
  <2>4. PassOpen'
    BY <1>6 DEF Restore, PassOpen
  <2> QED
    BY <1>6, <2>2, <2>3, <2>4 DEF Restore, TypeOK
<1>7. CASE HookThrows
  BY <1>7 DEF HookThrows, TypeOK, PassOpen, Phases
<1>8. CASE Rollback
  <2>1. Cardinality(DOMAIN pending) \in Nat
    BY PendingFinite
  <2>2. DOMAIN Empty = {}
    BY DEF Empty
  <2> QED
    BY <1>8, <2>1, <2>2 DEF Rollback, TypeOK, PassOpen, Phases
<1>9. CASE CommitEpochBoundary
  <2>1. Cardinality(DOMAIN pending) \in Nat
    BY PendingFinite
  <2>2. DOMAIN Empty = {}
    BY DEF Empty
  <2>3. committed' \in [Ids -> Values]
    BY <1>9 DEF CommitEpochBoundary, TypeOK
  <2>4. unapplied' \subseteq Ids /\ txIds' \subseteq Nat
    BY <1>9 DEF CommitEpochBoundary, TypeOK
  <2>5. /\ committedCount' \in Nat /\ epoch' \in Nat /\ version' \in Nat
        /\ lastTx' \in Nat /\ pendingTx' \in Nat
    BY <1>9, <2>1 DEF CommitEpochBoundary, TypeOK
  <2> QED
    BY <1>9, <2>2, <2>3, <2>4, <2>5 DEF CommitEpochBoundary, TypeOK, PassOpen, Phases
<1>10. CASE UNCHANGED vars
  BY <1>10 DEF vars, TypeOK, PassOpen
<1> QED
  BY <1>1, <1>2, <1>3, <1>4, <1>5, <1>6, <1>7, <1>8, <1>9, <1>10 DEF Next

\* The transaction ids: staging opens a transaction, committing and rolling back close it.
LEMMA IdsStep ==
    TypeOK /\ StoreShape /\ TransactionIds /\ [Next]_vars => StoreShape' /\ TransactionIds'
<1> SUFFICES ASSUME TypeOK, StoreShape, TransactionIds, [Next]_vars
             PROVE  StoreShape' /\ TransactionIds'
  OBVIOUS
<1> USE DEF store, metrics, thread, history
<1>0. pending = Empty <=> DOMAIN pending = {}
  BY EmptyMap DEF StoreShape
<1>1. ASSUME NEW id \in Ids, NEW value \in Values, StageUpdate(id, value)
      PROVE  StoreShape' /\ TransactionIds'
  <2>1. StoreShape'
    BY <1>1 DEF StageUpdate, StoreShape, TypeOK
  <2>2. pending' # Empty
    BY <1>1 DEF StageUpdate, Empty
  <2>3. pendingTx' # 0 /\ pendingTx' \notin txIds
    BY <1>1 DEF StageUpdate, StoreShape, TransactionIds, TypeOK
  <2>4. \A tx \in txIds' \cup {pendingTx'} : tx < nextTx'
    BY <1>1 DEF StageUpdate, TransactionIds, TypeOK
  <2> QED
    BY <1>1, <2>1, <2>2, <2>3, <2>4 DEF StageUpdate, TransactionIds
<1>2. ASSUME NEW id \in Ids, NEW value \in Values, UpdateImmediately(id, value)
      PROVE  StoreShape' /\ TransactionIds'
  BY <1>2 DEF UpdateImmediately, StoreShape, TransactionIds, TypeOK
<1>3. CASE Rollback
  <2>1. StoreShape'
    BY <1>3 DEF Rollback, StoreShape, Empty
  <2> QED
    BY <1>3, <2>1 DEF Rollback, TransactionIds, StoreShape, TypeOK
<1>4. CASE CommitEpochBoundary
  <2>1. StoreShape'
    BY <1>0, <1>4 DEF CommitEpochBoundary, StoreShape, TransactionIds, Empty
  <2> QED
    BY <1>0, <1>4, <2>1 DEF CommitEpochBoundary, TransactionIds, StoreShape, TypeOK
<1>5. ASSUME UNCHANGED <<pending, pendingTx, nextTx, lastTx, txIds>>
      PROVE  StoreShape' /\ TransactionIds'
  BY <1>5 DEF StoreShape, TransactionIds
<1>6. ASSUME NEW ok \in BOOLEAN, NEW taken \in BOOLEAN,
             BeginTransaction \/ Validate(ok) \/ Apply(ok, taken) \/ Restore(ok, taken)
               \/ HookThrows \/ UNCHANGED vars
      PROVE  StoreShape' /\ TransactionIds'
  BY <1>5, <1>6 DEF BeginTransaction, Validate, Apply, Restore, HookThrows, vars
<1> QED
  BY <1>1, <1>2, <1>3, <1>4, <1>6 DEF Next

\* The count: an update is staged once, and leaves by one of the four ways.
LEMMA AccountedStep == TypeOK /\ Accounted /\ [Next]_vars => Accounted'
<1> SUFFICES ASSUME TypeOK, Accounted, [Next]_vars PROVE Accounted'
  OBVIOUS
<1> USE DEF store, metrics, thread, history
<1>0. IsFiniteSet(DOMAIN pending) /\ Cardinality(DOMAIN pending) \in Nat
  BY PendingFinite
<1>1. ASSUME NEW id \in Ids, NEW value \in Values, StageUpdate(id, value)
      PROVE  Accounted'
  <2>1. DOMAIN pending' = DOMAIN pending \cup {id}
    BY <1>1 DEF StageUpdate
  <2>2. Cardinality(DOMAIN pending') =
          IF id \in DOMAIN pending THEN Cardinality(DOMAIN pending)
                                   ELSE Cardinality(DOMAIN pending) + 1
    BY <1>0, <2>1, FS_AddElement
  <2> QED
    BY <1>0, <1>1, <2>2 DEF StageUpdate, Accounted, TypeOK
<1>2. ASSUME Rollback \/ CommitEpochBoundary
      PROVE  Accounted'
  <2>1. DOMAIN pending' = {}
    BY <1>2 DEF Rollback, CommitEpochBoundary, Empty
  <2>2. Cardinality(DOMAIN pending') = 0
    BY <2>1, FS_EmptySet
  <2> QED
    BY <1>0, <1>2, <2>2 DEF Rollback, CommitEpochBoundary, Accounted, TypeOK
<1>3. ASSUME UNCHANGED <<pending, stagedCount, committedCount, rolledBackCount, replaced>>
      PROVE  Accounted'
  BY <1>3 DEF Accounted
<1>4. ASSUME NEW id \in Ids, NEW value \in Values, UpdateImmediately(id, value)
      PROVE  Accounted'
  BY <1>3, <1>4 DEF UpdateImmediately
<1>5. ASSUME NEW ok \in BOOLEAN, NEW taken \in BOOLEAN,
             BeginTransaction \/ Validate(ok) \/ Apply(ok, taken) \/ Restore(ok, taken)
               \/ HookThrows \/ UNCHANGED vars
      PROVE  Accounted'
  BY <1>3, <1>5 DEF BeginTransaction, Validate, Apply, Restore, HookThrows, vars
<1> QED
  BY <1>1, <1>2, <1>4, <1>5 DEF Next

LEMMA AccountStep == AccountInv /\ [Next]_vars => AccountInv'
BY TypeStep, IdsStep, AccountedStep DEF AccountInv

\* Every staged update is committed, rolled back, pending or replaced, whichever order
\* staging, hooks, rollbacks and commits come in, and no two transactions of
\* ConfigSnapshotStore share an id.
THEOREM UpdatesAreAccounted == Spec => []UpdatesAccounted
<1>1. AccountInv => UpdatesAccounted
  BY DEF AccountInv, UpdatesAccounted, Accounted
<1> QED
  BY <1>1, AccountInit, AccountStep, PTL DEF Spec

-----------------------------------------------------------------------------
(* What the components run with.  Away from "run" and "failed" the two      *)
(* configurations may differ; how, depends on the pass.                    *)

\* Components outside ids have the committed configuration, unless it bypassed the hooks.
InSyncOutside(ids) == \A id \in Components \ (ids \cup unapplied) : live[id] = committed[id]

\* previous_configs holds what was committed for the ids.
PreviousKept(ids) == \A id \in ids : previous[id] = committed[id] \/ id \in unapplied

\* The components of ids run with the configurations of the transaction.
Applied(ids) == ids \subseteq Components /\ \A id \in ids : live[id] = batch[id]

LiveInv ==
    /\ pc = "run" => InSyncOutside({})
    /\ pc = "validate" => InSyncOutside({}) /\ done \subseteq Components /\ PreviousKept(done)
    /\ pc = "apply" => /\ DOMAIN batch \subseteq Components
                       /\ PreviousKept(DOMAIN batch)
                       /\ InSyncOutside(done)
                       /\ Applied(done)
    /\ pc = "restore" => /\ done \subseteq Components
                         /\ PreviousKept(done)
                         /\ ~broken => InSyncOutside(done)
    /\ pc \in {"rollback", "failed"} /\ ~broken => InSyncOutside({})
    /\ pc = "commit" => InSyncOutside(DOMAIN batch) /\ Applied(DOMAIN batch)
    /\ pc \in {"validate", "apply", "commit"} => DOMAIN batch \subseteq DOMAIN pending

LEMMA LiveStep == TypeOK /\ PassOpen /\ StoreShape /\ LiveInv /\ [Next]_vars => LiveInv'
<1> SUFFICES ASSUME TypeOK, PassOpen, StoreShape, LiveInv, [Next]_vars PROVE LiveInv'
  OBVIOUS
<1> USE DEF store, metrics, thread, history, LiveInv, InSyncOutside, PreviousKept, Applied
<1>1. ASSUME NEW id \in Ids, NEW value \in Values, StageUpdate(id, value)
      PROVE  LiveInv'
  <2>1. DOMAIN pending \subseteq DOMAIN pending'
    BY <1>1 DEF StageUpdate
  <2> QED
    BY <1>1, <2>1 DEF StageUpdate
<1>2. ASSUME NEW id \in Ids, NEW value \in Values, UpdateImmediately(id, value)
      PROVE  LiveInv'
  <2>1. unapplied' = unapplied \cup {id}
    BY <1>2 DEF UpdateImmediately
  <2>2. \A x \in Ids \ {id} : committed'[x] = committed[x]
    BY <1>2 DEF UpdateImmediately, TypeOK
  <2>3. Components \subseteq Ids /\ DOMAIN batch \subseteq Ids /\ done \subseteq Ids
    BY ConfigAssumption DEF TypeOK
  <2> QED
    BY <1>2, <2>1, <2>2, <2>3 DEF UpdateImmediately
<1>3. CASE BeginTransaction
  <2>1. pending = Empty => DOMAIN pending = {}
    BY DEF Empty
  <2> QED
    BY <1>3, <2>1 DEF BeginTransaction
<1>4. ASSUME NEW ok \in BOOLEAN, Validate(ok)
      PROVE  LiveInv'
  <2> DEFINE id == Min(DOMAIN batch \ done)
  <2>1. id \in DOMAIN batch \ done /\ id \in Ids
    BY <1>4, NextId DEF Validate, TypeOK
  <2>2. id \in Components /\ ok =>
          \A x \in done \cup {id} : previous'[x] = committed'[x] \/ x \in unapplied'
    BY <1>4, <2>1, ConfigAssumption DEF Validate, TypeOK
  <2> HIDE DEF id
  <2> QED
    BY <1>4, <2>1, <2>2 DEF Validate, TypeOK, id
<1>5. ASSUME NEW ok \in BOOLEAN, NEW taken \in BOOLEAN, Apply(ok, taken)
      PROVE  LiveInv'
  <2> DEFINE id == Min(DOMAIN batch \ done)
  <2>1. id \in DOMAIN batch \ done /\ id \in Components
    BY <1>5, NextId DEF Apply, TypeOK
  <2>2. \A x \in Components \ (done \cup {id} \cup unapplied') : live'[x] = committed'[x]
    BY <1>5, <2>1 DEF Apply, TypeOK
  <2>3. ok => \A x \in done \cup {id} : x \in Components /\ live'[x] = batch'[x]
    BY <1>5, <2>1 DEF Apply, TypeOK
  <2>4. done' = done \cup {id} /\ pc = "apply"
    BY <1>5 DEF Apply
  <2>5. UNCHANGED <<batch, previous, committed, pending, unapplied>>
    BY <1>5 DEF Apply
  <2>6. done' \subseteq DOMAIN batch /\ PreviousKept(done')
    BY <2>1, <2>4 DEF TypeOK
  <2> HIDE DEF id
  <2>7. pc' = IF ~ok THEN "restore" ELSE IF done' = DOMAIN batch THEN "commit" ELSE "apply"
    BY <1>5 DEF Apply
  <2>8. CASE ~ok
    BY <2>2, <2>4, <2>5, <2>6, <2>7, <2>8
  <2>9. CASE ok
    BY <2>2, <2>3, <2>4, <2>5, <2>7, <2>9
  <2> QED
    BY <2>8, <2>9
<1>6. ASSUME NEW ok \in BOOLEAN, NEW taken \in BOOLEAN, Restore(ok, taken)
      PROVE  LiveInv'
  <2>1. Max(done) \in done
    BY <1>6, NextId DEF Restore
  <2>2. ~broken' =>
          \A x \in Components \ ((done \ {Max(done)}) \cup unapplied') : live'[x] = committed'[x]
    BY <1>6, <2>1 DEF Restore, TypeOK
  <2> QED
    BY <1>6, <2>1, <2>2 DEF Restore, TypeOK
<1>7. CASE HookThrows
  BY <1>7 DEF HookThrows
<1>8. CASE Rollback
  BY <1>8 DEF Rollback
<1>9. CASE CommitEpochBoundary
  <2>1. Components \subseteq Ids
    BY ConfigAssumption
  <2>2. ASSUME NEW id \in Components, id \notin unapplied'
        PROVE  live'[id] = committed'[id]
    <3>1. CASE id \in DOMAIN batch
      BY <1>9, <2>1, <2>2, <3>1 DEF CommitEpochBoundary
    <3>2. CASE id \notin DOMAIN batch
      BY <1>9, <2>1, <2>2, <3>2 DEF CommitEpochBoundary
    <3> QED
      BY <3>1, <3>2
  <2> QED
    BY <1>9, <2>2 DEF CommitEpochBoundary
<1>10. CASE UNCHANGED vars
  BY <1>10 DEF vars
<1> QED
  BY <1>1, <1>2, <1>3, <1>4, <1>5, <1>6, <1>7, <1>8, <1>9, <1>10 DEF Next

\* A component runs with the configuration the store calls committed whenever the
\* runtime thread is outside the transaction: apply_config_transaction reaches every
\* component or, by restoring the ones before the failure, none.
THEOREM LiveIsCommitted == Spec => []LiveMatchesCommitted
<1>1. Init => LiveInv
  BY ConfigAssumption DEF Init, LiveInv, InSyncOutside
<1>2. LiveInv => LiveMatchesCommitted
  BY DEF LiveInv, InSyncOutside, LiveMatchesCommitted
<1>3. AccountInv => TypeOK /\ PassOpen /\ StoreShape
  BY DEF AccountInv
<1> QED
  BY <1>1, <1>2, <1>3, LiveStep, AccountInit, AccountStep, PTL DEF Spec
=============================================================================
