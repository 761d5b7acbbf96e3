-------------------------- MODULE ConfigTransaction -------------------------
(***************************************************************************)
(* ConfigSnapshotStore of src/state.cpp and the transaction that           *)
(* EventRuntime::run makes of its pending updates at an epoch boundary.    *)
(*                                                                         *)
(* The store's methods are atomic under its mutex; the transaction is not. *)
(* It copies the pending updates, calls validate_config and apply_config   *)
(* of each component, and commits or rolls back.  Updates are staged by    *)
(* components, by the hooks themselves and by task callbacks, so they may  *)
(* arrive between any two of those steps.                                  *)
(***************************************************************************)
EXTENDS Naturals, FiniteSets, FiniteSetsExt

CONSTANTS
    Ids,            \* component ids an update may name; numbers, in map order
    Components,     \* the ids that are components of the graph
    Values,         \* configurations; 0 is the one every id starts with
    Immediate,      \* whether updates that bypass the boundary are made
    MaxUpdates,     \* bound: updates made
    MaxEpochs       \* bound: epoch boundaries

ASSUME ConfigAssumption ==
    /\ Ids \subseteq Nat /\ IsFiniteSet(Ids)
    /\ Components \subseteq Ids
    /\ Values \subseteq Nat /\ 0 \in Values
    /\ Immediate \in BOOLEAN
    /\ MaxUpdates \in Nat /\ MaxEpochs \in Nat

VARIABLES
    committed,      \* component_configs_; an id without an entry reads as 0
    pending,        \* pending_component_configs_
    pendingTx,      \* pending_transaction_id_
    nextTx,         \* next_transaction_id_
    lastTx,         \* last_transaction_.transaction_id
    version, epoch, stagedCount, committedCount, rolledBackCount,
                    \* the fields of metrics_ of those names
    pc,             \* where the runtime thread is
    batch,          \* pending: the copy of the updates it works on
    done,           \* ids that the present pass over the copy has handled
    previous,       \* previous_configs
    live,           \* the configuration each component last took over
    broken,         \* a hook threw, or a component refused its old configuration
    updates,        \* history: updates made
    replaced,       \* history: pending updates overwritten by a later one
    unapplied,      \* history: ids whose committed value no hook has seen
    txIds           \* history: ids of the transactions committed

store == <<committed, pending, pendingTx, nextTx, lastTx>>
metrics == <<version, epoch, stagedCount, committedCount, rolledBackCount>>
thread == <<pc, batch, done, previous, live, broken>>
history == <<updates, replaced, unapplied, txIds>>
vars == <<store, metrics, thread, history>>

Phases == {"run", "validate", "apply", "restore", "rollback", "commit", "failed"}
Empty == [id \in {} |-> 0]

Init ==
    /\ committed = [id \in Ids |-> 0]
    /\ pending = Empty
    /\ pendingTx = 0 /\ nextTx = 1 /\ lastTx = 0
    /\ version = 0 /\ epoch = 0
    /\ stagedCount = 0 /\ committedCount = 0 /\ rolledBackCount = 0
    /\ pc = "run"
    /\ batch = Empty /\ done = {}
    /\ previous = [id \in Ids |-> 0]
    /\ live = [id \in Components |-> 0]
    /\ broken = FALSE
    /\ updates = 0 /\ replaced = 0 /\ unapplied = {} /\ txIds = {}

-----------------------------------------------------------------------------
(* stage_component_config_update, by anybody at any time.                  *)

StageUpdate(id, value) ==
    /\ updates < MaxUpdates
    /\ updates' = updates + 1
    /\ IF pendingTx = 0
          THEN pendingTx' = nextTx /\ nextTx' = nextTx + 1
          ELSE UNCHANGED <<pendingTx, nextTx>>
    /\ pending' = [x \in DOMAIN pending \cup {id} |-> IF x = id THEN value ELSE pending[x]]
    /\ stagedCount' = stagedCount + 1
    /\ replaced' = IF id \in DOMAIN pending THEN replaced + 1 ELSE replaced
    /\ UNCHANGED <<committed, lastTx, version, epoch, committedCount, rolledBackCount,
                   thread, unapplied, txIds>>

UpdateImmediately(id, value) ==
    /\ Immediate
    /\ updates < MaxUpdates
    /\ updates' = updates + 1
    /\ committed' = [committed EXCEPT ![id] = value]
    /\ version' = version + 1
    /\ lastTx' = nextTx
    /\ nextTx' = nextTx + 1
    /\ txIds' = txIds \cup {nextTx}
    /\ unapplied' = unapplied \cup {id}
    /\ UNCHANGED <<pending, pendingTx, epoch, stagedCount, committedCount, rolledBackCount,
                   thread, replaced>>

-----------------------------------------------------------------------------
(* apply_config_transaction, by the runtime thread.                        *)

BeginTransaction ==
    /\ pc = "run"
    /\ epoch < MaxEpochs
    /\ batch' = pending
    /\ done' = {}
    /\ pc' = IF pending = Empty THEN "commit" ELSE "validate"
    /\ UNCHANGED <<store, metrics, previous, live, broken, history>>

\* The first pass: a missing component or a refused configuration ends it.
Validate(ok) ==
    LET id == Min(DOMAIN batch \ done)
    IN  /\ pc = "validate"
        /\ IF id \in Components /\ ok
              THEN /\ previous' = [previous EXCEPT ![id] = committed[id]]
                   /\ IF done \cup {id} = DOMAIN batch
                         THEN pc' = "apply" /\ done' = {}
                         ELSE pc' = "validate" /\ done' = done \cup {id}
              ELSE pc' = "rollback" /\ UNCHANGED <<previous, done>>
        /\ UNCHANGED <<store, metrics, batch, live, broken, history>>

\* Mutant: only the components already done are restored, not the one that failed.
ApplyRestoresOthers(ok, taken) ==
    LET id == Min(DOMAIN batch \ done)
    IN  /\ pc = "apply"
        /\ live' = [live EXCEPT ![id] = IF ok \/ taken THEN batch[id] ELSE @]
        /\ done' = IF ok THEN done \cup {id} ELSE done
        /\ pc' = IF ok THEN IF done' = DOMAIN batch THEN "commit" ELSE "apply"
                 ELSE IF done = {} THEN "rollback" ELSE "restore"
        /\ UNCHANGED <<store, metrics, batch, previous, broken, history>>

\* The second pass.  A component that refuses may or may not have taken the
\* configuration over; it is restored like the ones before it.
Apply(ok, taken) ==
    LET id == Min(DOMAIN batch \ done)
    IN  /\ pc = "apply"
        /\ live' = [live EXCEPT ![id] = IF ok \/ taken THEN batch[id] ELSE @]
        /\ done' = done \cup {id}
        /\ pc' = IF ~ok THEN "restore"
                 ELSE IF done' = DOMAIN batch THEN "commit" ELSE "apply"
        /\ UNCHANGED <<store, metrics, batch, previous, broken, history>>

\* The way back, last component first.
Restore(ok, taken) ==
    LET id == Max(done)
    IN  /\ pc = "restore"
        /\ live' = [live EXCEPT ![id] = IF ok \/ taken THEN previous[id] ELSE @]
        /\ broken' = (broken \/ ~ok)
        /\ done' = done \ {id}
        /\ pc' = IF done' = {} THEN "rollback" ELSE "restore"
        /\ UNCHANGED <<store, metrics, batch, previous, history>>

\* A hook throws: the exception leaves EventRuntime::run, pending updates and all.
HookThrows ==
    /\ pc \in {"validate", "apply", "restore"}
    /\ pc' = "failed"
    /\ broken' = TRUE
    /\ UNCHANGED <<store, metrics, batch, done, previous, live, history>>

\* Mutant: the transaction id survives the rollback.
RollbackKeepsId ==
    /\ pc = "rollback"
    /\ rolledBackCount' = rolledBackCount + Cardinality(DOMAIN pending)
    /\ pending' = Empty
    /\ pc' = "failed"
    /\ UNCHANGED <<committed, pendingTx, nextTx, lastTx, version, epoch, stagedCount,
                   committedCount, batch, done, previous, live, broken, history>>

\* rollback_pending_updates discards whatever is pending by now; the run ends.
Rollback ==
    /\ pc = "rollback"
    /\ rolledBackCount' = rolledBackCount + Cardinality(DOMAIN pending)
    /\ pending' = Empty
    /\ pendingTx' = 0
    /\ pc' = "failed"
    /\ UNCHANGED <<committed, nextTx, lastTx, version, epoch, stagedCount, committedCount,
                   batch, done, previous, live, broken, history>>

\* commit_epoch_boundary commits whatever is pending by now.
CommitEpochBoundary ==
    LET ids == DOMAIN pending
        seen == {id \in ids : id \in DOMAIN batch /\ pending[id] = batch[id]}
    IN  /\ pc = "commit"
        /\ committed' = [id \in Ids |-> IF id \in ids THEN pending[id] ELSE committed[id]]
        /\ committedCount' = committedCount + Cardinality(ids)
        /\ pending' = Empty
        /\ epoch' = epoch + 1
        /\ IF ids = {}
              THEN UNCHANGED <<version, lastTx, pendingTx, txIds>>
              ELSE /\ version' = version + 1
                   /\ lastTx' = pendingTx
                   /\ pendingTx' = 0
                   /\ txIds' = txIds \cup {pendingTx}
        /\ unapplied' = (unapplied \ seen) \cup (ids \ seen)
        /\ pc' = "run"
        /\ UNCHANGED <<nextTx, stagedCount, rolledBackCount, batch, done, previous, live,
                       broken, updates, replaced>>

Next ==
    \/ \E id \in Ids, value \in Values : StageUpdate(id, value) \/ UpdateImmediately(id, value)
    \/ BeginTransaction
    \/ \E ok \in BOOLEAN : Validate(ok)
    \/ \E ok, taken \in BOOLEAN : Apply(ok, taken) \/ Restore(ok, taken)
    \/ HookThrows \/ Rollback \/ CommitEpochBoundary

Spec == Init /\ [][Next]_vars

-----------------------------------------------------------------------------
(* Properties.                                                             *)

\* Type correctness of the store and of the transaction.
TypeOK ==
    /\ committed \in [Ids -> Values]
    /\ DOMAIN pending \subseteq Ids /\ \A id \in DOMAIN pending : pending[id] \in Values
    /\ DOMAIN batch \subseteq Ids /\ \A id \in DOMAIN batch : batch[id] \in Values
    /\ pendingTx \in Nat /\ nextTx \in Nat /\ lastTx \in Nat
    /\ version \in Nat /\ epoch \in Nat
    /\ stagedCount \in Nat /\ committedCount \in Nat /\ rolledBackCount \in Nat
    /\ pc \in Phases
    /\ done \subseteq DOMAIN batch
    /\ previous \in [Ids -> Values]
    /\ live \in [Components -> Values]
    /\ broken \in BOOLEAN
    /\ updates \in Nat /\ replaced \in Nat
    /\ unapplied \subseteq Ids /\ txIds \subseteq Nat

\* While components run, and after a transaction failed, every component has the
\* configuration the store calls committed: an applied transaction is applied to all,
\* a failed one to none.  Exempt are ids whose committed value bypassed the hooks.
LiveMatchesCommitted ==
    pc \in {"run", "failed"} /\ ~broken =>
        \A id \in Components \ unapplied : live[id] = committed[id]

\* Exactly a pending transaction has an id, and no two transactions share one.
TransactionIds ==
    /\ pendingTx # 0 <=> pending # Empty
    /\ pendingTx \notin txIds
    /\ \A tx \in txIds \cup {pendingTx} : tx < nextTx
    /\ lastTx # 0 => lastTx \in txIds

\* Every staged update is committed, rolled back, still pending, or replaced by a later
\* one for its component, and the transaction ids say which of them are pending.
UpdatesAccounted ==
    /\ TypeOK
    /\ TransactionIds
    /\ stagedCount = committedCount + rolledBackCount + Cardinality(DOMAIN pending) + replaced

\* docs/21-architecture/state.md: "At the boundary, `EventRuntime` validates every
\* pending component config with `Component::validate_config()`, applies each one with
\* `Component::apply_config()`, and only then commits the store version".  So no
\* committed value is one that no hook has seen.
OnlyAppliedIsCommitted == unapplied = {}
=============================================================================
