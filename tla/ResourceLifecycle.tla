-------------------------- MODULE ResourceLifecycle --------------------------
(***************************************************************************)
(* The life of one Terraform resource block under the generic engine of    *)
(* duplocloud/dynamic_resource.go: Create, Read, Update, Delete and import *)
(* as sequences of HTTP calls to a backend that provisions and tears down  *)
(* asynchronously, loses replies, fails, and is edited from the console    *)
(* at the same time.                                                       *)
(*                                                                         *)
(* The engine interprets a resource spec; the variable spec holds the      *)
(* flags that choose its path and never changes.  pc is the HTTP call or   *)
(* local step the running operation takes next.  Everything between two    *)
(* calls is local, so each call, with what the engine does on its reply,   *)
(* is one action.  Terraform core, the user and the backend are the        *)
(* environment, modelled from how the engine uses them.                    *)
(***************************************************************************)
EXTENDS WaitRules, FiniteSets

CONSTANTS
    Ids,        \* backend object ids
    NoId,       \* no object
    Values,     \* what a configuration can ask for
    Specs,      \* the resource specs considered
    MaxFaults,  \* bound on failed calls, failed provisioning and timeouts
    MaxEdits    \* bound on changes made by the user and in the console

SpecFlags ==
    [waiter : BOOLEAN,             \* a "waiter" block: asynchronous
     deprovision : BOOLEAN,        \* HasDeprovision and not SkipWhen
     update : BOOLEAN,             \* HasUpdate
     readAfterWrite : BOOLEAN,
     updateAfterCreate : BOOLEAN,
     mergeUpdate : BOOLEAN,        \* mergeUpdateIntoCurrent
     failureRetries : Nat,
     fetchRetries : Nat]

ASSUME IdAssumption == NoId \notin Ids

(* Every shipped spec with a deprovision call has a waiter that names the  *)
(* deprovisioned state.                                                    *)
ASSUME SpecAssumption ==
    /\ Specs \subseteq SpecFlags
    /\ \A s \in Specs : s.deprovision => s.waiter

(* The platform statuses the backend goes through besides SuccessState and *)
(* DeprovisionedState.                                                     *)
WorkStatuses == {"Processing", "Failed", "DeprovisionInitiated", "DeProvisioning",
                 "DeprovisionFailed", "Deleting"}

ASSUME BackendStatusAssumption ==
    /\ WorkStatuses \subseteq Statuses \ {SuccessState, DeprovisionedState}
    /\ SuccessState # DeprovisionedState
    /\ "absent" \notin Statuses

ASSUME BudgetAssumption == MaxFaults \in Nat /\ MaxEdits \in Nat

VARIABLES
    spec,
    (* the backend *)
    status,         \* of each object, "absent" when it does not exist
    deleting,       \* objects whose DELETE was accepted and is under way
    value,          \* the attributes of each object
    secret,         \* the version of the write-only secret it holds
    (* Terraform state of this resource *)
    tracked,        \* the object id in state, NoId when there is no entry
    tainted,
    known,          \* the attributes in state
    knownSecret,    \* the write-only version in state, 0 when null
    adopted,        \* attributes the API never returns are recorded
    imported,       \* the private-state import mark
    (* configuration *)
    wanted,         \* the block is in the configuration
    want,
    wantSecret,     \* the write-only version, 0 when there is none
    (* the running operation *)
    pc, opId, failCount, fetchFailCount,
    (* bounds *)
    faults, edits,
    (* history, read by the properties only *)
    acked,          \* objects whose id a create or an import gave Terraform
    crashes         \* times the provider process died

backend == <<status, deleting, value, secret>>
tfState == <<tracked, tainted, known, knownSecret, adopted, imported>>
config == <<wanted, want, wantSecret>>
counters == <<failCount, fetchFailCount>>
op == <<pc, opId, counters>>
budget == <<faults, edits>>
vars == <<spec, backend, tfState, config, op, budget, acked, crashes>>

-----------------------------------------------------------------------------
Live(i) == status[i] # "absent"

(* deprovisionInFlightStates *)
DeprovisionInFlight == {"DeprovisionInitiated", "DeProvisioning"}

(* The program points of each operation. *)
CreatePoints == {"create", "createWait", "createRead", "createMerge",
                 "createUpdate", "createUpdateWait", "createUpdateRead",
                 "createSave"}
UpdatePoints == {"update", "updateRefresh", "updateMerge", "updatePut",
                 "updateWait", "updateRead", "updateSave"}
DeletePoints == {"probe", "deprovision", "deprovisionWait", "delete", "goneWait"}
Points == {"idle", "read", "plan"} \cup CreatePoints \cup UpdatePoints
             \cup DeletePoints

(* The polling loop an operation is in. *)
WaitPoints == {"createWait", "createUpdateWait", "updateWait",
               "deprovisionWait", "goneWait"}
LoopAt(p) ==
    CASE p = "deprovisionWait" -> "WaitDeprovisioned"
      [] p = "goneWait"        -> "WaitGone"
      [] OTHER                 -> "Wait"

Fault == faults < MaxFaults /\ faults' = faults + 1 /\ UNCHANGED edits

Edit == edits < MaxEdits /\ edits' = edits + 1 /\ UNCHANGED faults

Goto(p) == pc' = p /\ failCount' = 0 /\ fetchFailCount' = 0 /\ UNCHANGED opId

(* The operation returns, with or without an error diagnostic. *)
Finish == pc' = "idle" /\ opId' = NoId /\ failCount' = 0 /\ fetchFailCount' = 0

(* stateFromResponse over the plan, saved: a null known only to the plan   *)
(* is recorded, and a finished create or update drops the import mark.     *)
Record(i, taint) ==
    /\ tracked' = i
    /\ tainted' = taint
    /\ known' = want
    /\ knownSecret' = wantSecret
    /\ adopted' = TRUE
    /\ imported' = FALSE

(* The state entry is removed. *)
Drop ==
    /\ tracked' = NoId
    /\ tainted' = FALSE
    /\ knownSecret' = 0
    /\ adopted' = TRUE
    /\ imported' = FALSE
    /\ UNCHANGED known

Vanish(i) ==
    /\ status' = [status EXCEPT ![i] = "absent"]
    /\ deleting' = deleting \ {i}
    /\ acked' = acked \ {i}
    /\ UNCHANGED <<value, secret>>

Init ==
    /\ spec \in Specs
    /\ status = [i \in Ids |-> "absent"]
    /\ deleting = {}
    /\ value \in {[i \in Ids |-> v] : v \in Values}
    /\ secret = [i \in Ids |-> 0]
    /\ tracked = NoId
    /\ tainted = FALSE
    /\ known \in Values
    /\ knownSecret = 0
    /\ adopted = TRUE
    /\ imported = FALSE
    /\ wanted = TRUE
    /\ want = known
    /\ wantSecret \in {0, 1}
    /\ pc = "idle"
    /\ opId = NoId
    /\ failCount = 0
    /\ fetchFailCount = 0
    /\ faults = 0
    /\ edits = 0
    /\ acked = {}
    /\ crashes = 0

-----------------------------------------------------------------------------
(* Terraform core. *)

(* An apply refreshes what the state holds, or goes straight to creating.  *)
Apply ==
    /\ pc = "idle"
    /\ tracked # NoId \/ wanted
    /\ pc' = IF tracked # NoId THEN "read" ELSE "create"
    /\ opId' = tracked
    /\ UNCHANGED <<spec, backend, tfState, config, counters, budget, acked, crashes>>

(* writeOnlyVersionChanged; no immutable resource has a write-only secret. *)
SecretChanged == spec.update /\ wantSecret # 0 /\ knownSecret # wantSecret
BodyChanged == known # want

(* RequiresReplace: a tainted object; any change of an immutable one; and  *)
(* an importAdoptsConfig attribute that is null in state, unless the       *)
(* import mark says it was never read (mapReplacesOnImport).               *)
NeedsReplace ==
    \/ tainted
    \/ ~spec.update /\ BodyChanged
    \/ ~adopted /\ ~imported

PlanDestroy ==
    /\ pc = "plan"
    /\ ~wanted \/ NeedsReplace
    /\ Goto(IF spec.deprovision THEN "probe" ELSE "delete")
    /\ UNCHANGED <<spec, backend, tfState, config, budget, acked, crashes>>

PlanUpdate ==
    /\ pc = "plan"
    /\ wanted /\ ~NeedsReplace
    /\ BodyChanged \/ SecretChanged \/ ~adopted
    /\ Goto("update")
    /\ UNCHANGED <<spec, backend, tfState, config, budget, acked, crashes>>

PlanNothing ==
    /\ pc = "plan"
    /\ wanted /\ ~NeedsReplace
    /\ ~(BodyChanged \/ SecretChanged \/ ~adopted)
    /\ Finish
    /\ UNCHANGED <<spec, backend, tfState, config, budget, acked, crashes>>

-----------------------------------------------------------------------------
(* Create. *)

AfterReady ==
    IF ~spec.updateAfterCreate THEN "createSave"
    ELSE IF spec.mergeUpdate THEN "createMerge" ELSE "createUpdate"

AfterCreate ==
    IF spec.waiter THEN "createWait"
    ELSE IF spec.readAfterWrite THEN "createRead" ELSE AfterReady

(* The backend stores a new object. *)
Born(i) ==
    /\ ~Live(i)
    /\ i \notin {tracked, opId}
    /\ status' = [status EXCEPT ![i] = IF spec.waiter THEN "Processing" ELSE SuccessState]
    /\ value' = [value EXCEPT ![i] = want]
    /\ secret' = [secret EXCEPT ![i] = wantSecret]
    /\ UNCHANGED deleting

CreateAcked(i) ==
    /\ pc = "create"
    /\ Born(i)
    /\ opId' = i
    /\ acked' = acked \cup {i}
    /\ pc' = AfterCreate
    /\ UNCHANGED <<spec, tfState, config, counters, budget, crashes>>

(* The reply never arrives, or carries no data: the engine has no id. *)
CreateReplyLost(i) ==
    /\ pc = "create"
    /\ Born(i)
    /\ Fault
    /\ Finish
    /\ UNCHANGED <<spec, tfState, config, acked, crashes>>

CreateRefused ==
    /\ pc = "create"
    /\ Fault
    /\ Finish
    /\ UNCHANGED <<spec, backend, tfState, config, acked, crashes>>

(* A Get of the created object that is not part of a wait. *)
CreateReadOk ==
    /\ pc \in {"createRead", "createUpdateRead"}
    /\ Live(opId)
    /\ Goto(IF pc = "createRead" THEN AfterReady ELSE "createSave")
    /\ UNCHANGED <<spec, backend, tfState, config, budget, acked, crashes>>

(* saveKnownState, then the error: Terraform taints what it now tracks. *)
CreateReadFails ==
    /\ pc \in {"createRead", "createUpdateRead"}
    /\ Fault \/ (~Live(opId) /\ UNCHANGED budget)
    /\ Record(opId, TRUE)
    /\ Finish
    /\ UNCHANGED <<spec, backend, config, acked, crashes>>

(* mergeIntoCurrent of the updateAfterCreate follow-up. *)
CreateMergeOk ==
    /\ pc = "createMerge"
    /\ Live(opId)
    /\ Goto("createUpdate")
    /\ UNCHANGED <<spec, backend, tfState, config, budget, acked, crashes>>

(* mergeIntoCurrent adds its error to the diagnostics before it returns,   *)
(* and saveKnownState saves only while they hold none: nothing is saved.   *)
CreateMergeFails ==
    /\ pc = "createMerge"
    /\ Fault \/ (~Live(opId) /\ UNCHANGED budget)
    /\ Finish
    /\ UNCHANGED <<spec, backend, tfState, config, acked, crashes>>

(* The PUT the backend applies: a write-only secret goes with it on the    *)
(* follow-up of a create, and otherwise only when its version changed.     *)
Put(i, sendSecret) ==
    /\ Live(i)
    /\ status' = [status EXCEPT ![i] = IF spec.waiter THEN "Processing" ELSE @]
    /\ value' = [value EXCEPT ![i] = want]
    /\ secret' = [secret EXCEPT ![i] = IF sendSecret THEN wantSecret ELSE @]
    /\ UNCHANGED deleting

CreateUpdateOk ==
    /\ pc = "createUpdate"
    /\ Put(opId, TRUE)
    /\ Goto(IF spec.waiter THEN "createUpdateWait" ELSE "createUpdateRead")
    /\ UNCHANGED <<spec, tfState, config, budget, acked, crashes>>

CreateUpdateFails ==
    /\ pc = "createUpdate"
    /\ \/ Fault /\ (Put(opId, TRUE) \/ UNCHANGED backend)
       \/ ~Live(opId) /\ UNCHANGED <<budget, backend>>
    /\ Record(opId, TRUE)
    /\ Finish
    /\ UNCHANGED <<spec, config, acked, crashes>>

CreateSave ==
    /\ pc = "createSave"
    /\ Record(opId, FALSE)
    /\ Finish
    /\ UNCHANGED <<spec, backend, config, budget, acked, crashes>>

-----------------------------------------------------------------------------
(* Read: a single-shot Get, so that a 404 drops the object at once. *)

ReadOk ==
    /\ pc = "read"
    /\ Live(opId)
    /\ known' = value[opId]
    /\ Goto("plan")
    /\ UNCHANGED <<spec, backend, tracked, tainted, knownSecret, adopted, imported,
                   config, budget, acked, crashes>>

(* Broken: a 404 is reported as an error and the entry kept. *)
ReadGoneErrors ==
    /\ pc = "read"
    /\ ~Live(opId)
    /\ Finish
    /\ UNCHANGED <<spec, backend, tfState, config, budget, acked, crashes>>

ReadGone ==
    /\ pc = "read"
    /\ ~Live(opId)
    /\ Drop
    /\ Finish
    /\ UNCHANGED <<spec, backend, config, budget, acked, crashes>>

(* Broken: any error of the read drops the entry. *)
ReadFailsDrops ==
    /\ pc = "read"
    /\ Fault
    /\ Drop
    /\ Finish
    /\ UNCHANGED <<spec, backend, config, acked, crashes>>

ReadFails ==
    /\ pc = "read"
    /\ Fault
    /\ Finish
    /\ UNCHANGED <<spec, backend, tfState, config, acked, crashes>>

-----------------------------------------------------------------------------
(* Update. *)

(* Nothing the API cares about changed and the plan is fully known: the    *)
(* plan is persisted without a call.                                       *)
UpdateSkipped ==
    /\ pc = "update"
    /\ spec.update /\ ~BodyChanged /\ ~SecretChanged
    /\ Record(opId, FALSE)
    /\ Finish
    /\ UNCHANGED <<spec, backend, config, budget, acked, crashes>>

(* An immutable resource, or a skip whose plan has unknown outputs, is     *)
(* read instead.                                                           *)
UpdateRefreshes ==
    /\ pc = "update"
    /\ ~spec.update \/ (~BodyChanged /\ ~SecretChanged)
    /\ Goto("updateRefresh")
    /\ UNCHANGED <<spec, backend, tfState, config, budget, acked, crashes>>

UpdateSends ==
    /\ pc = "update"
    /\ spec.update /\ (BodyChanged \/ SecretChanged)
    /\ Goto(IF spec.mergeUpdate THEN "updateMerge" ELSE "updatePut")
    /\ UNCHANGED <<spec, backend, tfState, config, budget, acked, crashes>>

UpdateReadOk ==
    /\ pc \in {"updateRefresh", "updateMerge", "updateRead"}
    /\ Live(opId)
    /\ Goto(IF pc = "updateMerge" THEN "updatePut" ELSE "updateSave")
    /\ UNCHANGED <<spec, backend, tfState, config, budget, acked, crashes>>

(* The prior state and the import mark are kept. *)
UpdateReadFails ==
    /\ pc \in {"updateRefresh", "updateMerge", "updateRead"}
    /\ Fault \/ (~Live(opId) /\ UNCHANGED budget)
    /\ Finish
    /\ UNCHANGED <<spec, backend, tfState, config, acked, crashes>>

UpdatePutOk ==
    /\ pc = "updatePut"
    /\ Put(opId, SecretChanged)
    /\ Goto(IF spec.waiter THEN "updateWait"
            ELSE IF spec.readAfterWrite THEN "updateRead" ELSE "updateSave")
    /\ UNCHANGED <<spec, tfState, config, budget, acked, crashes>>

(* Broken: a failed update persists the plan. *)
UpdatePutFailsSaved ==
    /\ pc = "updatePut"
    /\ \/ Fault /\ (Put(opId, SecretChanged) \/ UNCHANGED backend)
       \/ ~Live(opId) /\ UNCHANGED <<budget, backend>>
    /\ Record(opId, FALSE)
    /\ Finish
    /\ UNCHANGED <<spec, config, acked, crashes>>

(* Broken: a failed update clears the import mark. *)
UpdatePutFailsUnmarks ==
    /\ pc = "updatePut"
    /\ \/ Fault /\ (Put(opId, SecretChanged) \/ UNCHANGED backend)
       \/ ~Live(opId) /\ UNCHANGED <<budget, backend>>
    /\ imported' = FALSE
    /\ Finish
    /\ UNCHANGED <<spec, tracked, tainted, known, knownSecret, adopted, config, acked, crashes>>

UpdatePutFails ==
    /\ pc = "updatePut"
    /\ \/ Fault /\ (Put(opId, SecretChanged) \/ UNCHANGED backend)
       \/ ~Live(opId) /\ UNCHANGED <<budget, backend>>
    /\ Finish
    /\ UNCHANGED <<spec, tfState, config, acked, crashes>>

UpdateSave ==
    /\ pc = "updateSave"
    /\ Record(opId, FALSE)
    /\ Finish
    /\ UNCHANGED <<spec, backend, config, budget, acked, crashes>>

-----------------------------------------------------------------------------
(* Delete. *)

TornDown(s) == s = DeprovisionedState \/ s \in DeprovisionInFlight

(* deprovisionNeeded: gone *)
ProbeGone ==
    /\ pc = "probe"
    /\ ~Live(opId)
    /\ Drop
    /\ Finish
    /\ UNCHANGED <<spec, backend, config, budget, acked, crashes>>

(* Broken: with no teardown to trigger there is nothing to wait for. *)
ProbeSkipsWait ==
    /\ pc = "probe"
    /\ Live(opId)
    /\ TornDown(status[opId])
    /\ Goto("delete")
    /\ UNCHANGED <<spec, backend, tfState, config, budget, acked, crashes>>

(* deprovisionNeeded: no trigger *)
ProbeSkips ==
    /\ pc = "probe"
    /\ Live(opId)
    /\ TornDown(status[opId])
    /\ Goto("deprovisionWait")
    /\ UNCHANGED <<spec, backend, tfState, config, budget, acked, crashes>>

(* deprovisionNeeded: trigger, also when the read failed *)
ProbeTriggers ==
    /\ pc = "probe"
    /\ \/ Live(opId) /\ ~TornDown(status[opId]) /\ UNCHANGED budget
       \/ Fault
    /\ Goto("deprovision")
    /\ UNCHANGED <<spec, backend, tfState, config, acked, crashes>>

CanTearDown(i) == Live(i) /\ ~TornDown(status[i]) /\ i \notin deleting

StartTeardown(i) ==
    /\ CanTearDown(i)
    /\ status' = [status EXCEPT ![i] = "DeprovisionInitiated"]
    /\ UNCHANGED <<deleting, value, secret>>

(* A 404 counts as done. *)
DeprovisionOk ==
    /\ pc = "deprovision"
    /\ StartTeardown(opId) \/ (~Live(opId) /\ UNCHANGED backend)
    /\ Goto("deprovisionWait")
    /\ UNCHANGED <<spec, tfState, config, budget, acked, crashes>>

(* The API refuses a second deprovision; or the call or its reply is lost. *)
DeprovisionFails ==
    /\ pc = "deprovision"
    /\ \/ Live(opId) /\ ~CanTearDown(opId) /\ UNCHANGED <<budget, backend>>
       \/ Fault /\ (StartTeardown(opId) \/ UNCHANGED backend)
    /\ Finish
    /\ UNCHANGED <<spec, tfState, config, acked, crashes>>

Refuses(i) == spec.deprovision /\ status[i] # DeprovisionedState

(* An asynchronous DELETE starts the removal; the record may keep showing  *)
(* its old status meanwhile.  A synchronous one has removed the object.    *)
StartRemoval(i) ==
    /\ Live(i)
    /\ ~Refuses(i)
    /\ IF spec.waiter
         THEN /\ deleting' = deleting \cup {i}
              /\ \E s \in {status[i], "Deleting"} : status' = [status EXCEPT ![i] = s]
              /\ UNCHANGED <<value, secret, acked>>
         ELSE Vanish(i)

DeleteOk ==
    /\ pc = "delete"
    /\ StartRemoval(opId) \/ (~Live(opId) /\ UNCHANGED <<backend, acked>>)
    /\ IF spec.waiter THEN Goto("goneWait") /\ UNCHANGED tfState
                      ELSE Drop /\ Finish
    /\ UNCHANGED <<spec, config, budget, crashes>>

DeleteFails ==
    /\ pc = "delete"
    /\ \/ Live(opId) /\ Refuses(opId) /\ UNCHANGED <<budget, backend, acked>>
       \/ Fault /\ (StartRemoval(opId) \/ UNCHANGED <<backend, acked>>)
    /\ Finish
    /\ UNCHANGED <<spec, tfState, config, crashes>>

-----------------------------------------------------------------------------
(* The waits, one action per way a poll ends (WaitRules). *)

ObjectView == [status |-> status[opId], ready |-> TRUE, stalled |-> FALSE]

Working(i) ==
    \/ status[i] \in {"Processing"} \cup DeprovisionInFlight
    \/ i \in deleting

(* One poll of the loop at pc returned e; late means that its deadline has *)
(* passed or the user cancelled.  Both faults are bounded, save that the   *)
(* deadline always passes while the backend has nothing left to do.        *)
Poll(e, late) ==
    /\ pc \in WaitPoints
    /\ e = "none" => Live(opId)
    /\ e = "notFound" => ~Live(opId)
    /\ faults' = faults + (IF e = "failed" THEN 1 ELSE 0)
                        + (IF late /\ Working(opId) THEN 1 ELSE 0)
    /\ faults' <= MaxFaults
    /\ UNCHANGED edits

Fails(e) == FailCount(LoopAt(pc), e, ObjectView, failCount)
FetchFails(e) == FetchFailCount(LoopAt(pc), e, fetchFailCount)

Aborts(e, late) ==
    \/ FetchAbort(LoopAt(pc), e, FetchFails(e), spec.fetchRetries, late)
    \/ FailureAbort(LoopAt(pc), e, ObjectView, Fails(e), spec.failureRetries)
    \/ late

WaitContinues ==
    /\ \E e \in Errors :
         /\ Poll(e, FALSE)
         /\ ~Reached(LoopAt(pc), e, ObjectView)
         /\ ~Aborts(e, FALSE)
         /\ failCount' = Fails(e)
         /\ fetchFailCount' = FetchFails(e)
    /\ UNCHANGED <<spec, backend, tfState, config, pc, opId, acked, crashes>>

WaitSucceeds ==
    /\ \E e \in Errors, late \in BOOLEAN :
         Poll(e, late) /\ Reached(LoopAt(pc), e, ObjectView)
    /\ \/ pc = "createWait" /\ Goto(AfterReady) /\ UNCHANGED tfState
       \/ pc = "createUpdateWait" /\ Goto("createSave") /\ UNCHANGED tfState
       \/ pc = "updateWait" /\ Goto("updateSave") /\ UNCHANGED tfState
       \/ pc = "deprovisionWait" /\ Goto("delete") /\ UNCHANGED tfState
       \/ pc = "goneWait" /\ Drop /\ Finish
    /\ UNCHANGED <<spec, backend, config, acked, crashes>>

(* Broken: nothing is saved when the readiness wait fails. *)
WaitFailsUnsaved ==
    /\ \E e \in Errors, late \in BOOLEAN :
         /\ Poll(e, late)
         /\ ~Reached(LoopAt(pc), e, ObjectView)
         /\ Aborts(e, late)
    /\ Finish
    /\ UNCHANGED <<spec, backend, tfState, config, acked, crashes>>

(* A create that fails here has been acknowledged, so it is saved. *)
WaitFails ==
    /\ \E e \in Errors, late \in BOOLEAN :
         /\ Poll(e, late)
         /\ ~Reached(LoopAt(pc), e, ObjectView)
         /\ Aborts(e, late)
    /\ IF pc \in CreatePoints THEN Record(opId, TRUE) ELSE UNCHANGED tfState
    /\ Finish
    /\ UNCHANGED <<spec, backend, config, acked, crashes>>

-----------------------------------------------------------------------------
(* The provider process dies; Terraform keeps the prior state. *)
Crash ==
    /\ pc # "idle"
    /\ Fault
    /\ acked' = IF pc \in CreatePoints THEN acked \ {opId} ELSE acked
    /\ crashes' = crashes + 1
    /\ Finish
    /\ UNCHANGED <<spec, backend, tfState, config>>

-----------------------------------------------------------------------------
(* The backend works. *)

Become(i, s) == status' = [status EXCEPT ![i] = s] /\ UNCHANGED <<deleting, value, secret>>

ProvisionOk(i) == status[i] = "Processing" /\ Become(i, SuccessState)
TeardownRuns(i) == status[i] = "DeprovisionInitiated" /\ Become(i, "DeProvisioning")
TeardownOk(i) == status[i] = "DeProvisioning" /\ Become(i, DeprovisionedState)

Progress(i) ==
    /\ \/ (ProvisionOk(i) \/ TeardownRuns(i) \/ TeardownOk(i)) /\ UNCHANGED acked
       \/ i \in deleting /\ Vanish(i)
    /\ UNCHANGED <<spec, tfState, config, op, budget, crashes>>

Break(i) ==
    /\ \/ status[i] = "Processing" /\ Become(i, "Failed")
       \/ status[i] = "DeProvisioning" /\ Become(i, "DeprovisionFailed")
    /\ Fault
    /\ UNCHANGED <<spec, tfState, config, op, acked, crashes>>

(* The worker retries a provisioning that failed. *)
Recover(i) ==
    /\ status[i] = "Failed" /\ Become(i, "Processing")
    /\ UNCHANGED <<spec, tfState, config, op, budget, acked, crashes>>

-----------------------------------------------------------------------------
(* The user and the console. *)

EditConfig ==
    /\ pc = "idle"
    /\ Edit
    /\ \/ wanted' = ~wanted /\ UNCHANGED <<want, wantSecret>>
       \/ want' \in Values \ {want} /\ UNCHANGED <<wanted, wantSecret>>
       \/ spec.update /\ wantSecret' = wantSecret + 1 /\ UNCHANGED <<wanted, want>>
    /\ UNCHANGED <<spec, backend, tfState, op, acked, crashes>>

ConsoleEdits(i) ==
    /\ Edit
    /\ Live(i)
    /\ \E v \in Values \ {value[i]} : value' = [value EXCEPT ![i] = v]
    /\ UNCHANGED <<spec, status, deleting, secret, tfState, config, op, acked, crashes>>

ConsoleDeletes(i) ==
    /\ Edit
    /\ Live(i)
    /\ Vanish(i)
    /\ UNCHANGED <<spec, tfState, config, op, crashes>>

ConsoleDeprovisions(i) ==
    /\ spec.deprovision
    /\ Edit
    /\ StartTeardown(i)
    /\ UNCHANGED <<spec, tfState, config, op, acked, crashes>>

ConsoleCreates(i) ==
    /\ Edit
    /\ \A j \in Ids : ~Live(j)
    /\ Born(i)
    /\ UNCHANGED <<spec, tfState, config, op, acked, crashes>>

(* terraform import: ImportState, then Read.  Attributes the API does not  *)
(* return, and the write-only version, are null in the imported state.     *)
Import(i) ==
    /\ pc = "idle"
    /\ tracked = NoId
    /\ wanted
    /\ Edit
    /\ Live(i)
    /\ tracked' = i
    /\ tainted' = FALSE
    /\ known' = value[i]
    /\ knownSecret' = 0
    /\ adopted' = FALSE
    /\ imported' = TRUE
    /\ acked' = acked \cup {i}
    /\ UNCHANGED <<spec, backend, config, op, crashes>>

-----------------------------------------------------------------------------
CreateStep ==
    \/ \E i \in Ids : CreateAcked(i) \/ CreateReplyLost(i)
    \/ CreateRefused
    \/ CreateReadOk
    \/ CreateReadFails
    \/ CreateMergeOk
    \/ CreateMergeFails
    \/ CreateUpdateOk
    \/ CreateUpdateFails
    \/ CreateSave

ReadStep == ReadOk \/ ReadGone \/ ReadFails

UpdateStep ==
    \/ UpdateSkipped
    \/ UpdateRefreshes
    \/ UpdateSends
    \/ UpdateReadOk
    \/ UpdateReadFails
    \/ UpdatePutOk
    \/ UpdatePutFails
    \/ UpdateSave

DeleteStep ==
    \/ ProbeGone
    \/ ProbeSkips
    \/ ProbeTriggers
    \/ DeprovisionOk
    \/ DeprovisionFails
    \/ DeleteOk
    \/ DeleteFails

WaitStep == WaitContinues \/ WaitSucceeds \/ WaitFails

PlanStep == PlanDestroy \/ PlanUpdate \/ PlanNothing

Engine == CreateStep \/ ReadStep \/ UpdateStep \/ DeleteStep \/ WaitStep

Terraform == Apply \/ PlanStep

Backend == \E i \in Ids : Progress(i)

Misfortune == Crash \/ \E i \in Ids : Break(i) \/ Recover(i)

People ==
    \/ EditConfig
    \/ \E i \in Ids : \/ ConsoleEdits(i)
                      \/ ConsoleDeletes(i)
                      \/ ConsoleDeprovisions(i)
                      \/ ConsoleCreates(i)
                      \/ Import(i)

Next == Engine \/ Terraform \/ Backend \/ Misfortune \/ People

Spec == Init /\ [][Next]_vars

(* A started operation runs on, its waits end at their deadline, the       *)
(* backend finishes what it has begun, and the user applies again as long  *)
(* as the state and the configuration differ.                              *)
Fairness ==
    /\ WF_vars(Engine)
    /\ WF_vars(WaitFails)
    /\ WF_vars(Terraform)
    /\ \A i \in Ids : WF_vars(Progress(i))

FairSpec == Spec /\ Fairness

-----------------------------------------------------------------------------
ObjectStatuses == Statuses \cup {"absent"}

TypeOK ==
    /\ spec \in Specs
    /\ status \in [Ids -> ObjectStatuses]
    /\ deleting \subseteq Ids
    /\ value \in [Ids -> Values]
    /\ secret \in [Ids -> Nat]
    /\ tracked \in Ids \cup {NoId}
    /\ tainted \in BOOLEAN
    /\ known \in Values
    /\ knownSecret \in Nat
    /\ adopted \in BOOLEAN
    /\ imported \in BOOLEAN
    /\ wanted \in BOOLEAN
    /\ want \in Values
    /\ wantSecret \in Nat
    /\ pc \in Points
    /\ opId \in Ids \cup {NoId}
    /\ failCount \in Nat
    /\ fetchFailCount \in Nat
    /\ faults \in 0 .. MaxFaults
    /\ edits \in 0 .. MaxEdits
    /\ acked \subseteq Ids
    /\ crashes \in Nat

(* The follow-up of a create reads the object to merge into it.  When that *)
(* read fails nothing is saved, and the object is lost: no shipped spec    *)
(* combines the two flags, and what follows is not promised of such a one. *)
FollowUpMerges == spec.updateAfterCreate /\ spec.mergeUpdate

(* Once a create or an import has given Terraform the id of an object, the *)
(* object is in state or in the hands of the running operation as long as  *)
(* it exists, whichever later call, wait or refresh fails: it is never     *)
(* left behind, and so a retried apply never makes a second one beside it. *)
AcknowledgedIsRecorded == FollowUpMerges \/ acked \subseteq {tracked, opId}

(* The object Terraform is responsible for: the one the running operation  *)
(* holds, else the one in state.                                           *)
Owner ==
    IF FollowUpMerges THEN NoId
    ELSE IF opId # NoId THEN opId ELSE tracked

Owned == INSTANCE Ownership
            WITH live <- {i \in Ids : Live(i)}, owner <- Owner

(* The engine implements Ownership: it lets go of an object only when the  *)
(* object no longer exists, and holds one at a time.                       *)
OwnershipKept == Owned!Spec

(* A rotated write-only secret is never recorded before the backend has    *)
(* it: no lost call, failed wait or crash makes the state claim a version  *)
(* newer than the one in use, which no later plan would ever send.         *)
SecretNeverOlder ==
    tracked # NoId /\ Live(tracked) => secret[tracked] >= knownSecret

(* The engine asks for the removal of a live object only once it is torn   *)
(* down, whoever started the teardown and however often a failed destroy   *)
(* is repeated.                                                            *)
DeletesOnlyTornDown ==
    pc = "delete" /\ spec.deprovision /\ Live(opId) =>
        status[opId] \in {DeprovisionedState, "Deleting"}

(* An import is never followed by the replacement of what was imported     *)
(* unless the configuration asks for another object: an update that fails  *)
(* before the adopted values are recorded keeps the import mark.           *)
ImportedIsNotReplaced ==
    [][pc = "plan" /\ pc' \in DeletePoints =>
         ~wanted \/ tainted \/ (~spec.update /\ BodyChanged)]_vars

(* The object is what the configuration asks for, or there is none. *)
Converged ==
    IF wanted
      THEN /\ tracked # NoId
           /\ ~tainted
           /\ Live(tracked)
           /\ value[tracked] = want
           /\ spec.update => secret[tracked] = wantSecret
      ELSE tracked = NoId /\ acked = {}

(* When failures and edits stop, repeated applies bring the backend to the *)
(* configuration and keep it there: no sequence of lost replies, failed    *)
(* teardowns, timeouts, crashes and console edits leaves a state a later   *)
(* apply cannot repair.                                                    *)
Settles == <>[]Converged
=============================================================================
