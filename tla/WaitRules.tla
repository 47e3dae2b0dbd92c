------------------------------ MODULE WaitRules ------------------------------
(***************************************************************************)
(* The decisions of the three polling loops of duplosdk/waiter.go (Wait,   *)
(* WaitGone and WaitDeprovisioned), as predicates on one poll.  A poll is  *)
(* described by                                                            *)
(*   k    the loop: "Wait", "WaitGone" or "WaitDeprovisioned"              *)
(*   err  what fetchFn returned: "none", "notFound" (IsNotFound) or        *)
(*        "failed" (any other error)                                       *)
(*   v    the object read, of which the loops look only at                 *)
(*          status   StatusFn(obj)                                         *)
(*          ready    ReadyFn(obj) = ReadyState, TRUE when there is no gate *)
(*          stalled  ReadyFailureFn(obj) is a key of ReadyFailureStates    *)
(* The module keeps no state: Waiter runs one loop against a clock, and    *)
(* ResourceLifecycle runs every loop an operation goes through.            *)
(***************************************************************************)
EXTENDS Naturals

CONSTANTS
    Statuses,            \* the values StatusFn may return
    SuccessState,        \* Waiter.SuccessState
    FailureStates,       \* the keys of Waiter.FailureStates
    DeprovisionedState   \* the successState argument of WaitDeprovisioned

ASSUME StatusAssumption ==
    /\ SuccessState \in Statuses
    /\ DeprovisionedState \in Statuses
    /\ FailureStates \subseteq Statuses \ {SuccessState, DeprovisionedState}

Loops == {"Wait", "WaitGone", "WaitDeprovisioned"}

Errors == {"none", "notFound", "failed"}

Views == [status : Statuses, ready : BOOLEAN, stalled : BOOLEAN]

(***************************************************************************)
(* The state a loop waits for.  To WaitGone and WaitDeprovisioned an       *)
(* absent object is success; to Wait it is one more failed fetch.          *)
(***************************************************************************)
Target(k, gone, v) ==
    \/ /\ k = "Wait"
       /\ ~gone
       /\ v.status = SuccessState
       /\ v.ready
    \/ /\ k \in {"WaitGone", "WaitDeprovisioned"}
       /\ gone
    \/ /\ k = "WaitDeprovisioned"
       /\ ~gone
       /\ v.status = DeprovisionedState

(* Broken: the readiness gate is not consulted. *)
ReachedUngated(k, err, v) ==
    /\ err # "failed"
    /\ Target(k, err = "notFound", [v EXCEPT !.ready = TRUE])

(* The poll that ends the loop with success. *)
Reached(k, err, v) ==
    /\ err # "failed"
    /\ Target(k, err = "notFound", v)

(* An object read in a failure state; Wait also consults the second signal. *)
Failing(k, v) ==
    \/ v.status \in FailureStates
    \/ k = "Wait" /\ v.stalled

(* Broken: a healthy status does not reset the count. *)
FailCountNeverReset(k, err, v, n) ==
    IF err = "none" /\ Failing(k, v) THEN n + 1 ELSE n

(* failCount after the poll: a fetch error leaves it alone. *)
FailCount(k, err, v, n) ==
    CASE err # "none"                  -> n
      [] err = "none" /\ Failing(k, v) -> n + 1
      [] OTHER                         -> 0

(* Broken: a successful fetch does not reset the count. *)
FetchFailCountNeverReset(k, err, n) ==
    IF k = "Wait" /\ err # "none" THEN n + 1 ELSE n

(* fetchFailCount after the poll; only Wait has one. *)
FetchFailCount(k, err, n) ==
    IF k = "Wait" /\ err # "none" THEN n + 1 ELSE 0

(* Broken: failed fetches are retried past the deadline. *)
FetchAbortIgnoringDeadline(k, err, n, fetchRetries, late) ==
    /\ err # "none"
    /\ k = "Wait" => n > fetchRetries

(* The fetch error is returned: at once by the two teardown loops, and by  *)
(* Wait once its budget is spent (n is the new count) or time is up.       *)
FetchAbort(k, err, n, fetchRetries, late) ==
    /\ err # "none"
    /\ k = "Wait" => (n > fetchRetries \/ late)

(* The failure state is terminal: n is the new count. *)
FailureAbort(k, err, v, n, failureRetries) ==
    /\ err = "none"
    /\ Failing(k, v)
    /\ n > failureRetries
=============================================================================
