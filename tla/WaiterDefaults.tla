---------------------------- MODULE WaiterDefaults ----------------------------
(***************************************************************************)
(* What a resource spec that leaves waiter settings out runs with:         *)
(* duplocloud/spec.go fills the unset fields of its "waiter" block when    *)
(* the spec is loaded.  0, "" and {} are the Go zero values of a field the *)
(* JSON leaves out.                                                        *)
(***************************************************************************)
EXTENDS Naturals

defaultWaiterSpec ==
    [statusPath             |-> "status",
     successState           |-> "Complete",
     failureStates          |-> {"Failed", "Blocked", "WaitingForApproval",
                                 "DeprovisionFailed"},
     failureDetailPath      |-> "blockedReason",
     failureRetries         |-> 0,
     fetchRetries           |-> 5,
     deprovisionedState     |-> "",
     pollIntervalSeconds    |-> 10,
     failurePollIntervalSeconds |-> 0,
     createTimeoutMinutes   |-> 30,
     updateTimeoutMinutes   |-> 30,
     deleteTimeoutMinutes   |-> 15]

(* The fields applyWaiterDefaults fills; the others keep the spec's value. *)
DefaultedFields ==
    {"statusPath", "successState", "failureStates", "failureDetailPath",
     "pollIntervalSeconds", "createTimeoutMinutes", "updateTimeoutMinutes",
     "deleteTimeoutMinutes"}

ZeroWaiterSpec ==
    [statusPath             |-> "",
     successState           |-> "",
     failureStates          |-> {},
     failureDetailPath      |-> "",
     failureRetries         |-> 0,
     fetchRetries           |-> 0,
     deprovisionedState     |-> "",
     pollIntervalSeconds    |-> 0,
     failurePollIntervalSeconds |-> 0,
     createTimeoutMinutes   |-> 0,
     updateTimeoutMinutes   |-> 0,
     deleteTimeoutMinutes   |-> 0]

applyWaiterDefaults(w) ==
    [f \in DOMAIN w |->
        IF f \in DefaultedFields /\ w[f] = ZeroWaiterSpec[f]
        THEN defaultWaiterSpec[f] ELSE w[f]]
=============================================================================
