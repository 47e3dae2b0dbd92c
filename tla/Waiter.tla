------------------------------- MODULE Waiter -------------------------------
(***************************************************************************)
(* One run of a polling loop of duplosdk/waiter.go against a resource that *)
(* changes under it, a clock and a caller that may cancel.  The variable   *)
(* kind says which loop runs.  A turn of the loop is Fetch, then exactly   *)
(* one of the six ways to act on the reply, then Wake or Interrupted;     *)
(* the resource and the caller move at any moment between two of them.     *)
(***************************************************************************)
EXTENDS WaitRules

CONSTANTS
    FailureRetries,       \* Waiter.FailureRetries
    FetchRetries,         \* Waiter.FetchRetries
    PollInterval,         \* Waiter.PollInterval
    FailurePollInterval,  \* Waiter.FailurePollInterval, 0 when unset
    Timeout,              \* the timeout argument
    CallTimeout,          \* longest time one fetchFn call takes
    Resources             \* the views the resource may show in this instance

ASSUME BudgetAssumption ==
    /\ FailureRetries \in Nat
    /\ FetchRetries \in Nat

ASSUME ClockAssumption ==
    /\ PollInterval \in Nat \ {0}
    /\ FailurePollInterval \in Nat
    /\ Timeout \in Nat
    /\ CallTimeout \in Nat

ASSUME ResourceAssumption == Resources \subseteq Views

VARIABLES
    kind,            \* which loop
    resource, gone,  \* the backend's object; gone once it is deleted
    pc,              \* "fetch", "check", "sleep" or "done"
    err, obj,        \* what the last fetchFn call returned
    failCount, fetchFailCount,
    elapsed,         \* time since deadline was computed
    cancelled,       \* ctx is done
    outcome          \* "none" until the loop returns

(* History of the wait, read by the properties only. *)
VARIABLES
    polls,           \* calls of fetchFn made
    lastRead,        \* the number of the last call that returned an object
    reads,           \* objects read
    lastGood,        \* the number of the last object read that was not failing
    cancelPolls,     \* calls made when the caller cancelled
    attained         \* the resource has been in the target state

code == <<kind, pc, err, obj, failCount, fetchFailCount, elapsed, outcome>>
world == <<resource, gone, cancelled>>
history == <<polls, lastRead, reads, lastGood, cancelPolls, attained>>
vars == <<code, world, history>>

Outcomes == {"none", "ok", "fetchError", "failureState", "timeout", "cancelled"}

-----------------------------------------------------------------------------
Late == elapsed > Timeout

(* Counters as they stand after the reply being checked. *)
NewFailCount == FailCount(kind, err, obj, failCount)
NewFetchFailCount == FetchFailCount(kind, err, fetchFailCount)

(* The pause before the next poll. A fetch error always pauses PollInterval. *)
Interval ==
    IF err = "none" /\ failCount > 0 /\ FailurePollInterval > 0
    THEN FailurePollInterval ELSE PollInterval

Init ==
    /\ kind \in Loops
    /\ resource \in Resources
    /\ gone \in BOOLEAN
    /\ pc = "fetch"
    /\ err = "none"
    /\ obj = resource
    /\ failCount = 0
    /\ fetchFailCount = 0
    /\ elapsed = 0
    /\ cancelled = FALSE
    /\ outcome = "none"
    /\ polls = 0
    /\ lastRead = 0
    /\ reads = 0
    /\ lastGood = 0
    /\ cancelPolls = 0
    /\ attained = Target(kind, gone, resource)

-----------------------------------------------------------------------------
(* The loop. *)

(* fetchFn returns after at most CallTimeout: the object as it is now, not  *)
(* found, or an error that says nothing about the resource.                 *)
Fetch ==
    /\ pc = "fetch"
    /\ \E d \in 0 .. CallTimeout : elapsed' = elapsed + d
    /\ err' \in {IF gone THEN "notFound" ELSE "none", "failed"}
    /\ obj' = IF err' = "none" THEN resource ELSE obj
    /\ pc' = "check"
    /\ polls' = polls + 1
    /\ lastRead' = IF err' = "none" THEN polls + 1 ELSE lastRead
    /\ reads' = IF err' = "none" THEN reads + 1 ELSE reads
    /\ lastGood' = IF err' = "none" /\ ~Failing(kind, resource)
                     THEN reads + 1 ELSE lastGood
    /\ UNCHANGED <<kind, failCount, fetchFailCount, outcome, world,
                   cancelPolls, attained>>

Return(o) ==
    /\ pc' = "done"
    /\ outcome' = o
    /\ UNCHANGED <<kind, err, obj, elapsed, world, history>>

Succeed ==
    /\ pc = "check"
    /\ Reached(kind, err, obj)
    /\ Return("ok")
    /\ UNCHANGED <<failCount, fetchFailCount>>

GiveUpFetching ==
    /\ pc = "check"
    /\ ~Reached(kind, err, obj)
    /\ FetchAbort(kind, err, NewFetchFailCount, FetchRetries, Late)
    /\ fetchFailCount' = NewFetchFailCount
    /\ UNCHANGED failCount
    /\ Return("fetchError")

FailTerminally ==
    /\ pc = "check"
    /\ ~Reached(kind, err, obj)
    /\ FailureAbort(kind, err, obj, NewFailCount, FailureRetries)
    /\ failCount' = NewFailCount
    /\ fetchFailCount' = NewFetchFailCount
    /\ Return("failureState")

TimeOut ==
    /\ pc = "check"
    /\ ~Reached(kind, err, obj)
    /\ err = "none"
    /\ ~FailureAbort(kind, err, obj, NewFailCount, FailureRetries)
    /\ Late
    /\ failCount' = NewFailCount
    /\ fetchFailCount' = NewFetchFailCount
    /\ Return("timeout")

(* The object is not there yet and nothing ends the wait. *)
PollAgain ==
    /\ ~Reached(kind, err, obj)
    /\ ~FetchAbort(kind, err, NewFetchFailCount, FetchRetries, Late)
    /\ ~FailureAbort(kind, err, obj, NewFailCount, FailureRetries)
    /\ err = "none" => ~Late

(* Broken: a plain sleep, without the select on ctx. *)
KeepPollingDeaf ==
    /\ pc = "check"
    /\ PollAgain
    /\ failCount' = NewFailCount
    /\ fetchFailCount' = NewFetchFailCount
    /\ pc' = "sleep"
    /\ UNCHANGED <<kind, err, obj, elapsed, outcome, world, history>>

(* The select blocks: neither the timer nor ctx is ready. *)
KeepPolling ==
    /\ pc = "check"
    /\ PollAgain
    /\ ~cancelled
    /\ failCount' = NewFailCount
    /\ fetchFailCount' = NewFetchFailCount
    /\ pc' = "sleep"
    /\ UNCHANGED <<kind, err, obj, elapsed, outcome, world, history>>

(* ctx is done before the select starts its timer. *)
StopPolling ==
    /\ pc = "check"
    /\ PollAgain
    /\ cancelled
    /\ failCount' = NewFailCount
    /\ fetchFailCount' = NewFetchFailCount
    /\ Return("cancelled")

(* The timer fires.  If ctx is done by then too, Go picks either case. *)
Wake ==
    /\ pc = "sleep"
    /\ elapsed' = elapsed + Interval
    /\ pc' = "fetch"
    /\ UNCHANGED <<kind, err, obj, failCount, fetchFailCount, outcome, world,
                   history>>

(* ctx is done while the select waits. *)
Interrupted ==
    /\ pc = "sleep"
    /\ cancelled
    /\ Return("cancelled")
    /\ UNCHANGED <<failCount, fetchFailCount>>

Loop ==
    \/ Fetch
    \/ Succeed
    \/ GiveUpFetching
    \/ FailTerminally
    \/ TimeOut
    \/ KeepPolling
    \/ StopPolling
    \/ Wake
    \/ Interrupted

-----------------------------------------------------------------------------
(* The world around the loop. *)

Change ==
    /\ pc # "done"
    /\ ~gone
    /\ resource' \in Resources
    /\ gone' \in BOOLEAN
    /\ attained' = (attained \/ Target(kind, gone', resource'))
    /\ UNCHANGED <<code, cancelled, polls, lastRead, reads, lastGood, cancelPolls>>

Cancel ==
    /\ pc # "done"
    /\ ~cancelled
    /\ cancelled' = TRUE
    /\ cancelPolls' = polls
    /\ UNCHANGED <<code, resource, gone, polls, lastRead, reads, lastGood, attained>>

Next == Loop \/ Change \/ Cancel

(* The loop is a goroutine that is always scheduled; the world owes nothing. *)
Spec == Init /\ [][Next]_vars /\ WF_vars(Loop)

-----------------------------------------------------------------------------
TypeOK ==
    /\ kind \in Loops
    /\ resource \in Resources
    /\ gone \in BOOLEAN
    /\ pc \in {"fetch", "check", "sleep", "done"}
    /\ err \in Errors
    /\ obj \in Resources
    /\ failCount \in Nat
    /\ fetchFailCount \in Nat
    /\ elapsed \in Nat
    /\ cancelled \in BOOLEAN
    /\ outcome \in Outcomes
    /\ polls \in Nat
    /\ lastRead \in Nat
    /\ reads \in Nat
    /\ lastGood \in Nat
    /\ cancelPolls \in Nat
    /\ attained \in BOOLEAN

(* Success is never invented: the loop reports it only if the resource was  *)
(* in the state waited for (both gates met, deprovisioned or gone) at some  *)
(* moment of this wait, whatever mixture of replies led there.              *)
SuccessWasReal == outcome = "ok" => attained

(* A failure status aborts the wait only when the last FailureRetries + 1   *)
(* objects read were all failing, so a status that recovers within the      *)
(* budget never fails an apply.                                             *)
FailureWasPersistent ==
    outcome = "failureState" => reads - lastGood > FailureRetries

(* A wait for readiness gives up on fetch errors only when FetchRetries + 1 *)
(* calls in a row returned no object, or when time is up.                   *)
FetchErrorsTolerated ==
    outcome = "fetchError" /\ kind = "Wait" =>
        polls - lastRead > FetchRetries \/ Late

(* The overall timeout bounds the wait however the errors, failures and     *)
(* slow calls mix: the loop returns within one pause and one call of it.    *)
LongestPause ==
    IF FailurePollInterval > PollInterval THEN FailurePollInterval ELSE PollInterval

ReturnsInTime == elapsed <= Timeout + LongestPause + CallTimeout

(* Once the caller cancels, at most one more call is made, wherever in a    *)
(* turn the cancellation comes and whichever case the select picks.         *)
CancelStopsPolling == cancelled => polls <= cancelPolls + 1

(* Every wait returns, whatever the resource does. *)
Terminates == <>(outcome # "none")
=============================================================================
