----------------------------- MODULE MCLifecycle -----------------------------
(* ResourceLifecycle over the spec shapes the repository ships. *)
EXTENDS ResourceLifecycle, TLC

Sync == [waiter |-> FALSE, deprovision |-> FALSE, update |-> TRUE,
         readAfterWrite |-> FALSE, updateAfterCreate |-> FALSE,
         mergeUpdate |-> FALSE, failureRetries |-> 0, fetchRetries |-> 0]

(* plan *)
SyncReadBack == [Sync EXCEPT !.readAfterWrite = TRUE, !.mergeUpdate = TRUE]
(* the Azure resources *)
Async == [Sync EXCEPT !.waiter = TRUE, !.deprovision = TRUE, !.failureRetries = 1]
(* the AWS databases, networks and clusters *)
AsyncMerge == [Async EXCEPT !.mergeUpdate = TRUE]
(* storage_account *)
AsyncUpdateAfterCreate == [Async EXCEPT !.updateAfterCreate = TRUE]
AsyncImmutable == [Async EXCEPT !.update = FALSE]
(* a resource without a deprovision call, or with one that is skipped *)
AsyncPlainDelete == [Async EXCEPT !.deprovision = FALSE, !.fetchRetries = 1]
ShippedSpecs == {Sync, SyncReadBack, AsyncMerge, AsyncUpdateAfterCreate,
                 AsyncImmutable, AsyncPlainDelete}

(* Two combinations no shipped spec has, but the spec format and the      *)
(* engine allow: updateAfterCreate without a waiter, and updateAfterCreate *)
(* together with mergeUpdateIntoCurrent.                                   *)
SyncUpdateAfterCreate == [Sync EXCEPT !.updateAfterCreate = TRUE]
MergingFollowUp == [AsyncUpdateAfterCreate EXCEPT !.mergeUpdate = TRUE]

AllowedSpecs == ShippedSpecs \cup {SyncUpdateAfterCreate, MergingFollowUp}

(* One spec of each path through the engine, for the liveness run. *)
PathSpecs == {Sync, AsyncMerge, AsyncUpdateAfterCreate, AsyncImmutable}

(* Object ids and configuration values are interchangeable. *)
Symmetry == Permutations(Ids) \cup Permutations(Values)
=============================================================================
