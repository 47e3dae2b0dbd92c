--------------------------- MODULE MCWaiterDefaults ---------------------------
(* The readiness wait of a resource whose spec declares a waiter and leaves *)
(* fetchRetries out, as every spec under duplocloud/specs does.             *)
EXTENDS Waiter, WaiterDefaults

MCResources ==
    {[status |-> s, ready |-> TRUE, stalled |-> FALSE] : s \in {"Processing", "Complete", "Failed"}}

LoadedWaiter == applyWaiterDefaults([ZeroWaiterSpec EXCEPT !.failureRetries = 1])

LoadedFetchRetries == LoadedWaiter.fetchRetries
LoadedFailureRetries == LoadedWaiter.failureRetries
LoadedSuccessState == LoadedWaiter.successState
LoadedFailureStates == LoadedWaiter.failureStates

(* spec.go:1104-1107 says an unset fetchRetries defaults to                 *)
(* defaultFetchRetries (5 in defaultWaiterSpec), so that a single failed    *)
(* poll never fails a create that is succeeding: a wait may end in a fetch  *)
(* error (here, one that is not a 404) only after that many, or when time   *)
(* is up.                                                                   *)
DefaultFetchTolerance ==
    outcome = "fetchError" /\ kind = "Wait" /\ err = "failed" =>
        polls - lastRead > defaultWaiterSpec.fetchRetries \/ Late
=============================================================================
