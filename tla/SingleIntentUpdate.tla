-------------------------- MODULE SingleIntentUpdate --------------------------
(***************************************************************************)
(* singleIntentUpdate: the update of a resource whose API takes one change *)
(* per call (msk_kafka, native_host).  The engine collects the attributes  *)
(* with an updateIntent whose planned value differs from the state, and    *)
(* for each of them, in the order of the spec, waits until the object is   *)
(* ready, sends the change, and waits until it is ready again.  The state  *)
(* is saved after the last one only.                                       *)
(*                                                                         *)
(* The object works on one update at a time, on its own and behind the     *)
(* reply; the console asks for updates too.                                *)
(***************************************************************************)
EXTENDS Naturals, FiniteSets

CONSTANTS
    N,          \* attributes with an updateIntent, numbered as in the spec
    Values,     \* their values
    InBody,     \* those that also have an update path of their own
    MaxFaults,  \* bound on failed calls, failed updates and timeouts
    MaxEdits    \* bound on changes of the configuration and in the console

Intents == 1 .. N

ASSUME IntentAssumption == N \in Nat /\ InBody \subseteq Intents
ASSUME BudgetAssumption == MaxFaults \in Nat /\ MaxEdits \in Nat

VARIABLES
    (* the backend *)
    phase,      \* "ready", "queued" (accepted, still shown as ready),
                \* "updating" or "failed"
    actual,     \* the attributes of the object
    target,     \* what they will be when the backend is done
    (* Terraform *)
    want,       \* the attributes in the configuration
    other,      \* the configuration changes something that has no intent
    recorded,   \* the attributes in state
    (* the running operation *)
    pc,         \* "idle", "plan", or the next call: "before" and "after" poll
                \* until ready, "put" sends, "get" is the last read
    changes,    \* the intents still to be sent
    (* bounds *)
    faults, edits,
    (* history, read by the properties only *)
    own,        \* the engine's update the backend is at, 0 for none
    unseen,     \* attributes changed by others since the plan's read, or
                \* changing at that moment
    late        \* some accepted update did not show at once

backend == <<phase, actual, target>>
config == <<want, other>>
history == <<own, unseen, late>>
vars == <<backend, config, recorded, pc, changes, faults, edits, history>>

Attributes == [Intents -> Values]

Init ==
    /\ phase = "ready"
    /\ actual \in Attributes
    /\ target = actual
    /\ want = actual
    /\ other = FALSE
    /\ recorded = actual
    /\ pc = "idle"
    /\ changes = {}
    /\ faults = 0
    /\ edits = 0
    /\ own = 0
    /\ unseen = {}
    /\ late = FALSE

-----------------------------------------------------------------------------
Fault == faults < MaxFaults /\ faults' = faults + 1 /\ UNCHANGED edits

Edit == edits < MaxEdits /\ edits' = edits + 1 /\ UNCHANGED faults

(* What waitReady's StatusFn compares with ReadyState. *)
Ready == phase \in {"ready", "queued"}

(* Values planned that are not in state. *)
Changed == {i \in Intents : want[i] # recorded[i]}

(* The intent whose turn it is. *)
Current == CHOOSE i \in changes : \A j \in changes : i <= j

(* updateBodyFromRaw with the intent laid over it. *)
Carried == InBody \cup {Current}

-----------------------------------------------------------------------------
(* Broken: the read leaves the attributes in state as they are. *)
ReadOkKeepsInputs ==
    /\ pc = "idle"
    /\ unseen' = {i \in Intents : target[i] # actual[i]}
    /\ pc' = "plan"
    /\ UNCHANGED <<backend, config, recorded, changes, faults, edits, own, late>>

(* Read, which always precedes a plan. *)
ReadOk ==
    /\ pc = "idle"
    /\ recorded' = actual
    /\ unseen' = {i \in Intents : target[i] # actual[i]}
    /\ pc' = "plan"
    /\ UNCHANGED <<backend, config, changes, faults, edits, own, late>>

PlanNothing ==
    /\ pc = "plan"
    /\ Changed = {}
    /\ ~other
    /\ pc' = "idle"
    /\ UNCHANGED <<backend, config, recorded, changes, faults, edits, history>>

(* No intent changed: the object is read and nothing is sent. *)
UpdateReadsOnly ==
    /\ pc = "plan"
    /\ Changed = {}
    /\ other
    /\ \/ other' = FALSE /\ UNCHANGED <<faults, edits>>
       \/ Fault /\ UNCHANGED other
    /\ pc' = "idle"
    /\ UNCHANGED <<backend, want, recorded, changes, history>>

(* Broken: the first change is sent without waiting. *)
UpdateStartsUnready ==
    /\ pc = "plan"
    /\ Changed # {}
    /\ changes' = Changed
    /\ pc' = "put"
    /\ UNCHANGED <<backend, config, recorded, faults, edits, history>>

UpdateStarts ==
    /\ pc = "plan"
    /\ Changed # {}
    /\ changes' = Changed
    /\ pc' = "before"
    /\ UNCHANGED <<backend, config, recorded, faults, edits, history>>

(* waitReady returned true. *)
WaitSucceeds ==
    /\ pc \in {"before", "after"}
    /\ Ready
    /\ pc' = CASE pc = "before"                 -> "put"
               [] pc = "after" /\ changes # {}  -> "before"
               [] pc = "after" /\ changes = {}  -> "get"
    /\ UNCHANGED <<backend, config, recorded, changes, faults, edits, history>>

(* The operation ends with an error: Terraform keeps the prior state. *)
Abandon ==
    /\ pc' = "idle"
    /\ changes' = {}
    /\ UNCHANGED <<config, recorded, unseen>>

(* This waiter has no retries of any kind: one failed poll, a failure      *)
(* state, or the deadline.                                                 *)
WaitFails ==
    /\ pc \in {"before", "after"}
    /\ \/ Fault
       \/ phase = "failed" /\ UNCHANGED <<faults, edits>>
    /\ Abandon
    /\ UNCHANGED <<backend, own, late>>

(* The backend takes the update: the intent itself, and the other fields   *)
(* of the body or not.  One that is queued may be replaced.                *)
Accept ==
    /\ Ready
    /\ phase' \in {"updating", "queued"}
    /\ late' = (late \/ phase' = "queued")
    /\ own' = Current
    /\ \E base \in {actual, target}, extra \in {{}, InBody} :
         target' = [i \in Intents |->
                      IF i \in extra \cup {Current} THEN want[i] ELSE base[i]]
    /\ UNCHANGED actual

(* Broken: the change is sent and the next one follows at once. *)
PutOkWithoutWait ==
    /\ pc = "put"
    /\ Accept
    /\ changes' = changes \ {Current}
    /\ pc' = IF changes' = {} THEN "get" ELSE "before"
    /\ UNCHANGED <<config, recorded, faults, edits, unseen>>

PutOk ==
    /\ pc = "put"
    /\ Accept
    /\ changes' = changes \ {Current}
    /\ pc' = "after"
    /\ UNCHANGED <<config, recorded, faults, edits, unseen>>

(* Refused, because the object became busy after the poll, or failed with  *)
(* the update taken or not.                                                *)
PutFails ==
    /\ pc = "put"
    /\ \/ ~Ready /\ UNCHANGED <<backend, own, late, faults, edits>>
       \/ Fault /\ (Accept \/ UNCHANGED <<backend, own, late>>)
    /\ Abandon

(* stateFromResponse keeps every planned value. *)
GetOk ==
    /\ pc = "get"
    /\ recorded' = want
    /\ other' = FALSE
    /\ pc' = "idle"
    /\ UNCHANGED <<backend, want, changes, faults, edits, history>>

GetFails ==
    /\ pc = "get"
    /\ Fault
    /\ Abandon
    /\ UNCHANGED <<backend, own, late>>

-----------------------------------------------------------------------------
(* The backend. *)

Begin ==
    /\ phase = "queued"
    /\ phase' = "updating"
    /\ UNCHANGED <<actual, target, config, recorded, pc, changes, faults, edits, history>>

Complete ==
    /\ phase = "updating"
    /\ phase' = "ready"
    /\ actual' = target
    /\ own' = 0
    /\ UNCHANGED <<target, config, recorded, pc, changes, faults, edits, unseen, late>>

(* An update that fails changes nothing. *)
Break ==
    /\ phase = "updating"
    /\ Fault
    /\ phase' = "failed"
    /\ target' = actual
    /\ own' = 0
    /\ unseen' = unseen \cup {i \in Intents : target[i] # actual[i]}
    /\ UNCHANGED <<actual, config, recorded, pc, changes, late>>

Recover ==
    /\ phase = "failed"
    /\ phase' = "ready"
    /\ UNCHANGED <<actual, target, config, recorded, pc, changes, faults, edits, history>>

(* People. *)

ConsoleUpdates(i, v) ==
    /\ phase = "ready"
    /\ Edit
    /\ v # actual[i]
    /\ phase' = "updating"
    /\ target' = [target EXCEPT ![i] = v]
    /\ unseen' = unseen \cup {i}
    /\ UNCHANGED <<actual, config, recorded, pc, changes, own, late>>

EditConfig ==
    /\ pc = "idle"
    /\ Edit
    /\ want' \in Attributes
    /\ other' \in BOOLEAN
    /\ UNCHANGED <<backend, recorded, pc, changes, history>>

-----------------------------------------------------------------------------
Engine ==
    \/ ReadOk
    \/ PlanNothing
    \/ UpdateReadsOnly
    \/ UpdateStarts
    \/ WaitSucceeds
    \/ WaitFails
    \/ PutOk
    \/ PutFails
    \/ GetOk
    \/ GetFails

Backend == Begin \/ Complete \/ Break \/ Recover

People ==
    \/ \E i \in Intents, v \in Values : ConsoleUpdates(i, v)
    \/ EditConfig

Next == Engine \/ Backend \/ People

Spec == Init /\ [][Next]_vars

(* The configuration is applied again and again, an operation that has     *)
(* started goes on, and the backend gets on with what it took.             *)
FairSpec == Spec /\ WF_vars(Engine) /\ WF_vars(Begin) /\ WF_vars(Complete) /\ WF_vars(Recover)

-----------------------------------------------------------------------------
TypeOK ==
    /\ phase \in {"ready", "queued", "updating", "failed"}
    /\ phase = "queued" => late
    /\ actual \in Attributes
    /\ target \in Attributes
    /\ want \in Attributes
    /\ other \in BOOLEAN
    /\ recorded \in Attributes
    /\ pc \in {"idle", "plan", "before", "put", "after", "get"}
    /\ changes \subseteq Intents
    /\ pc \in {"idle", "plan", "get"} => changes = {}
    /\ pc \in {"before", "put"} => changes # {}
    /\ faults \in 0 .. MaxFaults
    /\ edits \in 0 .. MaxEdits
    /\ own \in 0 .. N
    /\ unseen \subseteq Intents
    /\ late \in BOOLEAN

(* "AWS MSK ... accept one discrete update at a time": as long as every    *)
(* update showed at once, the engine never sends a change while the object *)
(* is still at an earlier one of its own, in the same operation or left    *)
(* behind by one that failed.                                              *)
OneAtATime == [][PutOk \/ PutFails => late \/ own = 0]_vars

(* A successful update saves the whole plan as state, although it read the *)
(* object only while it was at each change alone: every value it saves is  *)
(* the object's, unless somebody else changed it after the plan was made   *)
(* or an update showed late.                                               *)
SavedValuesAreReal ==
    [][GetOk /\ ~late => \A i \in Intents \ unseen : recorded'[i] = actual[i]]_vars

(* However often it is interrupted between two of its calls, applying the  *)
(* configuration again gets all of it done, also when the object shows a   *)
(* change late.                                                            *)
AllIntentsDone == <>[](actual = want /\ recorded = want)

(* "Create-only and other update-intent fields are excluded by             *)
(* bodyFromRaw": a call carries one of the changes.                        *)
OneIntentPerCall == [][PutOk => Carried \cap Changed = {Current}]_vars
=============================================================================
