----------------------------- MODULE ScopeLinks -----------------------------
(***************************************************************************)
(* The scopes linked to one workspace, which three parties change: the     *)
(* workspace resource, whose scope_ids lists the links its configuration   *)
(* manages and whose update replaces the whole list (preserveUnmanagedInto *)
(* sends along the links it does not manage); the association resources,   *)
(* one per scope, which attach and detach a single link; and the backend   *)
(* itself, which attaches scopes as clusters appear.                       *)
(*                                                                         *)
(* An apply of the workspace is a read that splits the list, and a write   *)
(* that sends the union of the two halves.  The others move in between.    *)
(***************************************************************************)
EXTENDS Integers, FiniteSets

CONSTANTS
    Scopes,     \* scope ids, numbered in their order as texts
    MaxFaults,  \* bound on failed calls
    MaxEdits    \* bound on changes of the configurations and by the backend

ASSUME ScopesAssumption == Scopes \subseteq Int

ASSUME BudgetAssumption == MaxFaults \in Nat /\ MaxEdits \in Nat

VARIABLES
    (* the backend *)
    exists,      \* the workspace
    linked,      \* its scopeIds
    (* the workspace resource *)
    want,        \* scope_ids in the configuration, {} when it is left out (it may not be empty)
    renamed,     \* another attribute of the configuration is to be sent
    tracked,     \* the workspace is in state
    managed,     \* scope_ids in state
    system,      \* system_scope_ids in state, and in every plan
    pc,          \* "idle" or, between the read and the write, "plan"
    (* the association resources *)
    wantMapped,  \* in the configuration
    mapped,      \* in state
    mapPc,       \* "idle", or the call that is next: "create" or "delete"
    (* bounds *)
    faults, edits,
    (* history, read by the properties only *)
    seen,        \* the links the last read of the workspace found
    inconsistent \* the last apply returned other values than it had planned

backend == <<exists, linked>>
wsConfig == <<want, renamed>>
wsState == <<tracked, managed, system>>
mapState == <<wantMapped, mapped>>
history == <<seen, inconsistent>>
vars == <<backend, wsConfig, wsState, pc, mapState, mapPc, faults, edits, history>>

-----------------------------------------------------------------------------
Fault == faults < MaxFaults /\ faults' = faults + 1 /\ UNCHANGED edits

Edit == edits < MaxEdits /\ edits' = edits + 1 /\ UNCHANGED faults

(* The workspace was created with the configured scopes, or imported: then *)
(* scope_ids is empty and every link counts as the backend's.              *)
Init ==
    /\ exists = TRUE
    /\ linked \in SUBSET Scopes
    /\ want \in SUBSET Scopes
    /\ renamed = FALSE
    /\ tracked = TRUE
    /\ \/ linked = want /\ managed = want /\ system = {}
       \/ managed = {} /\ system = linked
    /\ pc = "idle"
    /\ wantMapped = {}
    /\ mapped = {}
    /\ mapPc = [s \in Scopes |-> "idle"]
    /\ faults = 0
    /\ edits = 0
    /\ seen = linked
    /\ inconsistent = FALSE

-----------------------------------------------------------------------------
(* The workspace resource. *)

(* buildStateRaw: what the list holds of the managed links, and the rest. *)
ReadOk ==
    /\ pc = "idle"
    /\ tracked
    /\ exists
    /\ managed' = linked \cap managed
    /\ system' = linked \ managed
    /\ seen' = linked
    /\ pc' = "plan"
    /\ UNCHANGED <<backend, wsConfig, tracked, mapState, mapPc, faults, edits,
                   inconsistent>>

ReadGone ==
    /\ pc = "idle"
    /\ tracked
    /\ ~exists
    /\ tracked' = FALSE
    /\ managed' = {}
    /\ system' = {}
    /\ UNCHANGED <<backend, wsConfig, pc, mapState, mapPc, faults, edits, history>>

(* scope_ids as planned: left out of the configuration it keeps its value. *)
Planned == IF want = {} THEN managed ELSE want

(* Broken: only the managed links are sent. *)
preserveUnionManaged(own, sibling) == own

preserveUnion(own, sibling) == own \cup sibling

(* preserveUnion lists its own links first, and Terraform core gives the   *)
(* values of a set in their order.                                         *)
InFront(own, s, t) ==
    \/ s \in own /\ t \notin own
    \/ (s \in own <=> t \in own) /\ s < t

(* apiBodyEqual of two unions: as lists, so two splits of the same links   *)
(* may differ.                                                             *)
SameList(ownA, ownB, sibling) ==
    /\ preserveUnion(ownA, sibling) = preserveUnion(ownB, sibling)
    /\ \A s, t \in preserveUnion(ownA, sibling) : InFront(ownA, s, t) <=> InFront(ownB, s, t)

(* Broken: a body that only loses links counts as unchanged. *)
BodyOnlyShrinks == ~renamed /\ preserveUnion(Planned, system) \subseteq preserveUnion(managed, system)

(* The bodies built from the plan and from the state. *)
BodyUnchanged == ~renamed /\ SameList(Planned, managed, system)

(* ModifyPlan sets every computed attribute, scope_ids among them, back to *)
(* the state: whatever the configuration lists, there is nothing to apply. *)
PlanNothing ==
    /\ pc = "plan"
    /\ BodyUnchanged
    /\ pc' = "idle"
    /\ UNCHANGED <<backend, wsConfig, wsState, mapState, mapPc, faults, edits, history>>

(* The PUT replaces the list.  An empty union is left out of the body, and *)
(* the backend may then keep its list or clear it.                         *)
Replace ==
    /\ exists
    /\ \/ linked' = preserveUnion(Planned, system)
       \/ preserveUnion(Planned, system) = {} /\ linked' = linked
    /\ renamed' = FALSE
    /\ UNCHANGED <<exists, want, seen>>

(* scope_ids keeps the plan's value and system_scope_ids is taken from the *)
(* reply.  Terraform saves both, and fails the apply if either is not what *)
(* was planned.                                                            *)
UpdatePutOk ==
    /\ pc = "plan"
    /\ ~BodyUnchanged
    /\ Replace
    /\ managed' = Planned
    /\ system' = linked' \ Planned
    /\ inconsistent' = (system' # system)
    /\ pc' = "idle"
    /\ UNCHANGED <<tracked, mapState, mapPc, faults, edits>>

UpdatePutFails ==
    /\ pc = "plan"
    /\ ~BodyUnchanged
    /\ \/ Fault /\ (Replace \/ UNCHANGED <<backend, wsConfig, seen>>)
       \/ ~exists /\ UNCHANGED <<backend, wsConfig, seen, faults, edits>>
    /\ pc' = "idle"
    /\ UNCHANGED <<wsState, mapState, mapPc, inconsistent>>

-----------------------------------------------------------------------------
(* The association of scope s. *)

MapGoto(s, p) == mapPc' = [mapPc EXCEPT ![s] = p]

(* Broken: the link is taken for granted as long as the parent exists. *)
MapReadMissingTrusting(s) ==
    /\ mapPc[s] = "idle"
    /\ s \in mapped
    /\ ~exists
    /\ mapped' = mapped \ {s}
    /\ UNCHANGED <<backend, wsConfig, wsState, pc, wantMapped, mapPc, faults, edits,
                   history>>

(* readAssociation: the parent is gone, or its list does not hold the link. *)
MapReadMissing(s) ==
    /\ mapPc[s] = "idle"
    /\ s \in mapped
    /\ ~exists \/ s \notin linked
    /\ mapped' = mapped \ {s}
    /\ UNCHANGED <<backend, wsConfig, wsState, pc, wantMapped, mapPc, faults, edits,
                   history>>

MapPlanCreate(s) ==
    /\ mapPc[s] = "idle"
    /\ s \in wantMapped \ mapped
    /\ MapGoto(s, "create")
    /\ UNCHANGED <<backend, wsConfig, wsState, pc, mapState, faults, edits, history>>

MapPlanDelete(s) ==
    /\ mapPc[s] = "idle"
    /\ s \in mapped \ wantMapped
    /\ exists /\ s \in linked
    /\ MapGoto(s, "delete")
    /\ UNCHANGED <<backend, wsConfig, wsState, pc, mapState, faults, edits, history>>

Attach(s) ==
    /\ exists
    /\ linked' = linked \cup {s}
    /\ UNCHANGED exists

Detach(s) ==
    /\ linked' = linked \ {s}
    /\ UNCHANGED exists

MapCreateOk(s) ==
    /\ mapPc[s] = "create"
    /\ Attach(s)
    /\ mapped' = mapped \cup {s}
    /\ MapGoto(s, "idle")
    /\ UNCHANGED <<wsConfig, wsState, pc, wantMapped, faults, edits, seen, inconsistent>>

MapCreateFails(s) ==
    /\ mapPc[s] = "create"
    /\ \/ Fault /\ (Attach(s) \/ UNCHANGED backend)
       \/ ~exists /\ UNCHANGED <<backend, faults, edits>>
    /\ MapGoto(s, "idle")
    /\ UNCHANGED <<wsConfig, wsState, pc, mapState, seen, inconsistent>>

(* A 404 counts as detached. *)
MapDeleteOk(s) ==
    /\ mapPc[s] = "delete"
    /\ Detach(s)
    /\ mapped' = mapped \ {s}
    /\ MapGoto(s, "idle")
    /\ UNCHANGED <<wsConfig, wsState, pc, wantMapped, faults, edits, seen, inconsistent>>

MapDeleteFails(s) ==
    /\ mapPc[s] = "delete"
    /\ Fault
    /\ Detach(s) \/ UNCHANGED backend
    /\ MapGoto(s, "idle")
    /\ UNCHANGED <<wsConfig, wsState, pc, mapState, seen, inconsistent>>

-----------------------------------------------------------------------------
(* The backend, the console and the two configurations.  A scope is        *)
(* managed with one resource or the other, never both.                     *)

BackendAttaches(s) ==
    /\ Edit
    /\ s \notin linked
    /\ Attach(s)
    /\ UNCHANGED <<wsConfig, wsState, pc, mapState, mapPc, seen, inconsistent>>

BackendDetaches(s) ==
    /\ Edit
    /\ s \in linked
    /\ Detach(s)
    /\ UNCHANGED <<wsConfig, wsState, pc, mapState, mapPc, seen, inconsistent>>

WorkspaceDeleted ==
    /\ Edit
    /\ exists
    /\ exists' = FALSE
    /\ linked' = {}
    /\ UNCHANGED <<wsConfig, wsState, pc, mapState, mapPc, seen, inconsistent>>

EditWorkspace ==
    /\ pc = "idle"
    /\ Edit
    /\ want' \in SUBSET (Scopes \ wantMapped)
    /\ renamed' \in {renamed, TRUE}
    /\ UNCHANGED <<backend, wsState, pc, mapState, mapPc, history>>

EditMapping(s) ==
    /\ mapPc[s] = "idle"
    /\ Edit
    /\ \/ s \in wantMapped /\ wantMapped' = wantMapped \ {s}
       \/ s \notin wantMapped \cup want /\ wantMapped' = wantMapped \cup {s}
    /\ UNCHANGED <<backend, wsConfig, wsState, pc, mapped, mapPc, history>>

-----------------------------------------------------------------------------
Workspace ==
    \/ ReadOk
    \/ ReadGone
    \/ PlanNothing
    \/ UpdatePutOk
    \/ UpdatePutFails

Mapping(s) ==
    \/ MapReadMissing(s)
    \/ MapPlanCreate(s)
    \/ MapPlanDelete(s)
    \/ MapCreateOk(s)
    \/ MapCreateFails(s)
    \/ MapDeleteOk(s)
    \/ MapDeleteFails(s)

Others ==
    \/ \E s \in Scopes : BackendAttaches(s) \/ BackendDetaches(s) \/ EditMapping(s)
    \/ WorkspaceDeleted
    \/ EditWorkspace

Next ==
    \/ Workspace
    \/ \E s \in Scopes : Mapping(s)
    \/ Others

Spec == Init /\ [][Next]_vars

(* Both configurations are applied again and again, and an apply that has  *)
(* started goes on.                                                        *)
FairSpec ==
    /\ Spec
    /\ WF_vars(Workspace)
    /\ \A s \in Scopes : WF_vars(Mapping(s))

-----------------------------------------------------------------------------
TypeOK ==
    /\ exists \in BOOLEAN
    /\ linked \subseteq Scopes
    /\ want \subseteq Scopes
    /\ renamed \in BOOLEAN
    /\ tracked \in BOOLEAN
    /\ managed \subseteq Scopes
    /\ system \subseteq Scopes
    /\ ~tracked => managed = {} /\ system = {}
    /\ pc \in {"idle", "plan"}
    /\ pc = "plan" => tracked
    /\ wantMapped \subseteq Scopes
    /\ mapped \subseteq Scopes
    /\ mapPc \in [Scopes -> {"idle", "create", "delete"}]
    /\ faults \in 0 .. MaxFaults
    /\ edits \in 0 .. MaxEdits
    /\ seen \subseteq Scopes
    /\ inconsistent \in BOOLEAN

(* A write of the workspace takes away only links its configuration gave   *)
(* up, or links it could not know of, made after it read the list; and it  *)
(* makes only links its configuration asks for, or puts back what it read. *)
UpdateActsOnWhatItSaw ==
    [][UpdatePutOk \/ UpdatePutFails =>
         /\ linked \ linked' \subseteq (managed \ Planned) \cup (Scopes \ seen)
         /\ linked' \ linked \subseteq want \cup seen]_vars

(* What ModifyPlan sets back had nothing to do: when the configuration     *)
(* lists other links than the state and the plan is empty all the same,    *)
(* those it asks for were there at the read and none it gave up was.       *)
PinHidesNothing ==
    [][PlanNothing => want \subseteq seen /\ seen \cap (managed \ Planned) = {}]_vars

(* Whatever the writers undo of each other's work, once the configurations *)
(* and the backend rest every configured link is made and stays.           *)
LinksSettle == <>[](exists => want \cup wantMapped \subseteq linked)

(* buildStateRaw keeps planned values to avoid an "inconsistent result     *)
(* after apply": no update returns another value than its plan.            *)
ConsistentResult == ~inconsistent
=============================================================================
