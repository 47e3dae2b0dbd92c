--------------------------- MODULE ScopeLinksProofs ---------------------------
(***************************************************************************)
(* Proofs about ScopeLinks, for every set of scopes and every bound.       *)
(***************************************************************************)
EXTENDS ScopeLinks, TLAPS

(* What an apply knows between its read and its write: the two halves of   *)
(* the list are apart and make up all that it read.                        *)
PlanInv ==
    pc = "plan" => /\ managed \cup system = seen
                   /\ managed \cap system = {}

(* The bounds and the history are within their types from one step to the  *)
(* next; the budgets are shared by most actions.                           *)
LEMMA BudgetType ==
    ASSUME TypeOK,
           \/ Fault
           \/ Edit
           \/ UNCHANGED <<faults, edits>>
    PROVE  faults' \in 0 .. MaxFaults /\ edits' \in 0 .. MaxEdits
  BY BudgetAssumption DEF TypeOK, Fault, Edit

(* An association moves between its three points only.                     *)
LEMMA MapGotoType ==
    ASSUME TypeOK, NEW s \in Scopes,
           NEW p \in {"idle", "create", "delete"}, MapGoto(s, p)
    PROVE  mapPc' \in [Scopes -> {"idle", "create", "delete"}]
  BY DEF TypeOK, MapGoto

LEMMA TypeInit == Init => TypeOK
  <1> SUFFICES ASSUME Init PROVE TypeOK
    OBVIOUS
  <1>1. /\ linked \subseteq Scopes /\ want \subseteq Scopes
        /\ managed \subseteq Scopes /\ system \subseteq Scopes
        /\ seen \subseteq Scopes
    BY DEF Init
  <1>2. mapPc \in [Scopes -> {"idle", "create", "delete"}]
    BY DEF Init
  <1>3. faults \in 0 .. MaxFaults /\ edits \in 0 .. MaxEdits
    BY BudgetAssumption DEF Init
  <1> QED
    BY <1>1, <1>2, <1>3 DEF Init, TypeOK

-----------------------------------------------------------------------------
LEMMA WorkspaceType == TypeOK /\ Workspace => TypeOK'
  <1> SUFFICES ASSUME TypeOK, Workspace PROVE TypeOK'
    OBVIOUS
  <1>1. CASE ReadOk
    BY <1>1, BudgetType DEF TypeOK, ReadOk, backend, wsConfig, mapState
  <1>2. CASE ReadGone
    BY <1>2, BudgetType DEF TypeOK, ReadGone, backend, wsConfig, mapState, history
  <1>3. CASE PlanNothing
    BY <1>3, BudgetType
       DEF TypeOK, PlanNothing, backend, wsConfig, wsState, mapState, history
  <1>4. CASE UpdatePutOk
    BY <1>4, BudgetType
       DEF TypeOK, UpdatePutOk, Replace, preserveUnion, Planned, mapState
  <1>5. CASE UpdatePutFails
    <2>1. faults' \in 0 .. MaxFaults /\ edits' \in 0 .. MaxEdits
      BY <1>5, BudgetType DEF UpdatePutFails
    <2>2. \/ Replace
          \/ UNCHANGED <<backend, wsConfig, seen>>
      BY <1>5 DEF UpdatePutFails
    <2>3. /\ exists' \in BOOLEAN /\ renamed' \in BOOLEAN
          /\ linked' \subseteq Scopes /\ want' \subseteq Scopes
          /\ seen' \subseteq Scopes
      BY <2>2 DEF TypeOK, Replace, preserveUnion, Planned, backend, wsConfig
    <2> QED
      BY <1>5, <2>1, <2>3 DEF TypeOK, UpdatePutFails, wsState, mapState
  <1> QED
    BY <1>1, <1>2, <1>3, <1>4, <1>5 DEF Workspace

LEMMA MappingType == ASSUME TypeOK, NEW s \in Scopes, Mapping(s) PROVE TypeOK'
  <1>1. CASE MapReadMissing(s)
    BY <1>1, BudgetType
       DEF TypeOK, MapReadMissing, backend, wsConfig, wsState, history
  <1>2. CASE MapPlanCreate(s) \/ MapPlanDelete(s)
    <2>1. mapPc' \in [Scopes -> {"idle", "create", "delete"}]
      BY <1>2, MapGotoType DEF MapPlanCreate, MapPlanDelete
    <2>2. UNCHANGED <<backend, wsConfig, wsState, pc, mapState, faults, edits, history>>
      BY <1>2 DEF MapPlanCreate, MapPlanDelete
    <2> QED
      BY <2>1, <2>2 DEF TypeOK, backend, wsConfig, wsState, mapState, history
  <1>3. CASE MapCreateOk(s) \/ MapDeleteOk(s)
    <2>1. mapPc' \in [Scopes -> {"idle", "create", "delete"}]
      BY <1>3, MapGotoType DEF MapCreateOk, MapDeleteOk
    <2>2. /\ exists' = exists
          /\ linked' \subseteq Scopes
          /\ mapped' \subseteq Scopes
      BY <1>3 DEF TypeOK, MapCreateOk, MapDeleteOk, Attach, Detach
    <2>3. UNCHANGED <<wsConfig, wsState, pc, wantMapped, faults, edits, seen, inconsistent>>
      BY <1>3 DEF MapCreateOk, MapDeleteOk
    <2> QED
      BY <2>1, <2>2, <2>3 DEF TypeOK, wsConfig, wsState
  <1>4. CASE MapCreateFails(s) \/ MapDeleteFails(s)
    <2>1. mapPc' \in [Scopes -> {"idle", "create", "delete"}]
      BY <1>4, MapGotoType DEF MapCreateFails, MapDeleteFails
    <2>2. faults' \in 0 .. MaxFaults /\ edits' \in 0 .. MaxEdits
      BY <1>4, BudgetType DEF MapCreateFails, MapDeleteFails
    <2>3. /\ exists' = exists
          /\ linked' \subseteq Scopes
      BY <1>4 DEF TypeOK, MapCreateFails, MapDeleteFails, Attach, Detach, backend
    <2>4. UNCHANGED <<wsConfig, wsState, pc, mapState, seen, inconsistent>>
      BY <1>4 DEF MapCreateFails, MapDeleteFails
    <2> QED
      BY <2>1, <2>2, <2>3, <2>4 DEF TypeOK, wsConfig, wsState, mapState
  <1> QED
    BY <1>1, <1>2, <1>3, <1>4 DEF Mapping

LEMMA OthersType == TypeOK /\ Others => TypeOK'
  <1> SUFFICES ASSUME TypeOK, Others PROVE TypeOK'
    OBVIOUS
  <1>1. ASSUME NEW s \in Scopes, BackendAttaches(s) \/ BackendDetaches(s)
        PROVE  TypeOK'
    <2>1. faults' \in 0 .. MaxFaults /\ edits' \in 0 .. MaxEdits
      BY <1>1, BudgetType DEF BackendAttaches, BackendDetaches
    <2>2. /\ exists' = exists
          /\ linked' \subseteq Scopes
      BY <1>1 DEF TypeOK, BackendAttaches, BackendDetaches, Attach, Detach
    <2>3. UNCHANGED <<wsConfig, wsState, pc, mapState, mapPc, seen, inconsistent>>
      BY <1>1 DEF BackendAttaches, BackendDetaches
    <2> QED
      BY <2>1, <2>2, <2>3 DEF TypeOK, wsConfig, wsState, mapState
  <1>2. ASSUME NEW s \in Scopes, EditMapping(s) PROVE TypeOK'
    BY <1>2, BudgetType
       DEF TypeOK, EditMapping, backend, wsConfig, wsState, history
  <1>3. CASE WorkspaceDeleted
    BY <1>3, BudgetType DEF TypeOK, WorkspaceDeleted, wsConfig, wsState, mapState
  <1>4. CASE EditWorkspace
    BY <1>4, BudgetType DEF TypeOK, EditWorkspace, backend, wsState, mapState, history
  <1> QED
    BY <1>1, <1>2, <1>3, <1>4 DEF Others

LEMMA TypeStep == TypeOK /\ [Next]_vars => TypeOK'
  <1>1. TypeOK /\ UNCHANGED vars => TypeOK'
    BY DEF TypeOK, vars, backend, wsConfig, wsState, mapState, history
  <1> QED
    BY <1>1, WorkspaceType, MappingType, OthersType DEF Next

(* Every variable keeps to its type: the lists hold scopes, and a          *)
(* workspace that was dropped from state leaves no links behind in it.     *)
THEOREM TypeCorrect == Spec => []TypeOK
  <1>1. Init => TypeOK
    BY TypeInit
  <1>2. TypeOK /\ [Next]_vars => TypeOK'
    BY TypeStep
  <1> QED
    BY <1>1, <1>2, PTL DEF Spec

-----------------------------------------------------------------------------
LEMMA PlanStep == TypeOK /\ PlanInv /\ [Next]_vars => PlanInv'
  <1> SUFFICES ASSUME TypeOK, PlanInv, [Next]_vars PROVE PlanInv'
    OBVIOUS
  <1>1. CASE ReadOk
    BY <1>1 DEF TypeOK, PlanInv, ReadOk
  <1>2. CASE ReadGone \/ PlanNothing \/ UpdatePutOk \/ UpdatePutFails
    <2>1. pc' = "idle"
      BY <1>2 DEF ReadGone, PlanNothing, UpdatePutOk, UpdatePutFails
    <2> QED
      BY <2>1 DEF PlanInv
  <1>3. ASSUME NEW s \in Scopes, Mapping(s) PROVE PlanInv'
    <2>1. UNCHANGED <<wsState, pc, seen>>
      BY <1>3 DEF Mapping, MapReadMissing, MapPlanCreate, MapPlanDelete, MapCreateOk,
                  MapCreateFails, MapDeleteOk, MapDeleteFails, history
    <2> QED
      BY <2>1 DEF PlanInv, wsState
  <1>4. CASE Others \/ UNCHANGED vars
    <2>1. UNCHANGED <<wsState, pc, seen>>
      BY <1>4 DEF Others, BackendAttaches, BackendDetaches, EditMapping,
                  WorkspaceDeleted, EditWorkspace, history, vars
    <2> QED
      BY <2>1 DEF PlanInv, wsState
  <1> QED
    BY <1>1, <1>2, <1>3, <1>4 DEF Next, Workspace

LEMMA PlanInvariant == Spec => [](TypeOK /\ PlanInv)
  <1>1. Init => TypeOK /\ PlanInv
    BY TypeInit DEF Init, PlanInv
  <1>2. TypeOK /\ PlanInv /\ [Next]_vars => (TypeOK /\ PlanInv)'
    BY TypeStep, PlanStep
  <1> QED
    BY <1>1, <1>2, PTL DEF Spec

(* A write of the workspace takes away only links its configuration gave   *)
(* up or links made since it read the list, and makes only links its       *)
(* configuration asks for or the read had found: preserveUnion sends all   *)
(* that the two halves of the state hold.                                  *)
THEOREM WritesOnlyItsOwn == Spec => UpdateActsOnWhatItSaw
  <1> DEFINE Acts ==
        UpdatePutOk \/ UpdatePutFails =>
           /\ linked \ linked' \subseteq (managed \ Planned) \cup (Scopes \ seen)
           /\ linked' \ linked \subseteq want \cup seen
  <1>1. TypeOK /\ PlanInv => Acts
    <2> SUFFICES ASSUME TypeOK, PlanInv, UpdatePutOk \/ UpdatePutFails
                 PROVE  /\ linked \ linked' \subseteq (managed \ Planned) \cup (Scopes \ seen)
                        /\ linked' \ linked \subseteq want \cup seen
      OBVIOUS
    <2>1. managed \cup system = seen
      BY DEF PlanInv, UpdatePutOk, UpdatePutFails
    <2>2. CASE linked' = linked
      BY <2>2
    <2>3. CASE linked' = preserveUnion(Planned, system)
      <3>1. linked' = Planned \cup system
        BY <2>3 DEF preserveUnion
      <3>2. Planned \subseteq want \cup managed
        BY DEF Planned
      <3> QED
        BY <2>1, <3>1, <3>2 DEF TypeOK
    <2> QED
      BY <2>2, <2>3 DEF UpdatePutOk, UpdatePutFails, Replace, backend
  <1> QED
    BY <1>1, PlanInvariant, PTL DEF UpdateActsOnWhatItSaw

(* When the bodies built from the plan and from the state are the same     *)
(* list, setting scope_ids back to the state hides nothing: every link the *)
(* configuration asks for was there when the list was read, and none it    *)
(* gave up was.                                                            *)
THEOREM SetsBackWhatIsDone == Spec => PinHidesNothing
  <1> DEFINE Done == PlanNothing => want \subseteq seen /\ seen \cap (managed \ Planned) = {}
  <1>1. TypeOK /\ PlanInv => Done
    <2> SUFFICES ASSUME TypeOK, PlanInv, PlanNothing
                 PROVE  want \subseteq seen /\ seen \cap (managed \ Planned) = {}
      OBVIOUS
    <2>1. managed \cup system = seen /\ managed \cap system = {}
      BY DEF PlanInv, PlanNothing
    <2>2. Planned \cup system = managed \cup system
      BY DEF PlanNothing, BodyUnchanged, SameList, preserveUnion
    <2>3. want \subseteq Planned
      BY DEF Planned
    <2> QED
      BY <2>1, <2>2, <2>3
  <1> QED
    BY <1>1, PlanInvariant, PTL DEF PinHidesNothing
=============================================================================
