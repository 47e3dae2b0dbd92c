-------------------------- MODULE LifecycleProofs --------------------------
(***************************************************************************)
(* ResourceLifecycle's type correctness and safety, for every set of ids,  *)
(* values and specs and every bound on failures and edits.                 *)
(***************************************************************************)
EXTENDS ResourceLifecycle, TLAPS

(* Which object the running operation holds, at each program point. *)
PointInv ==
    /\ pc = "idle" => opId = NoId
    /\ pc \in {"read", "plan"} \cup UpdatePoints \cup DeletePoints =>
         opId = tracked /\ tracked \in Ids
    /\ pc \in CreatePoints => tracked = NoId
    /\ pc = "create" => opId = NoId
    /\ pc \in CreatePoints \ {"create"} => opId \in Ids

-----------------------------------------------------------------------------
(* What the helpers of the actions do to the types of what they assign. *)

LEMMA StatusesTyped ==
    /\ WorkStatuses \subseteq ObjectStatuses
    /\ SuccessState \in ObjectStatuses
    /\ DeprovisionedState \in ObjectStatuses
    /\ "absent" \in ObjectStatuses
  BY BackendStatusAssumption, StatusAssumption DEF ObjectStatuses

BackendTyped ==
    /\ status \in [Ids -> ObjectStatuses]
    /\ deleting \subseteq Ids
    /\ value \in [Ids -> Values]
    /\ secret \in [Ids -> Nat]

StateTyped ==
    /\ tracked \in Ids \cup {NoId}
    /\ tainted \in BOOLEAN
    /\ known \in Values
    /\ knownSecret \in Nat
    /\ adopted \in BOOLEAN
    /\ imported \in BOOLEAN

OpTyped ==
    /\ pc \in Points
    /\ opId \in Ids \cup {NoId}
    /\ failCount \in Nat
    /\ fetchFailCount \in Nat

BudgetTyped ==
    /\ faults \in 0 .. MaxFaults
    /\ edits \in 0 .. MaxEdits

LEMMA BackendStepTyped ==
    ASSUME TypeOK, NEW i \in Ids,
           \/ Born(i)
           \/ \E b \in BOOLEAN : Put(i, b)
           \/ StartTeardown(i)
           \/ \E s \in ObjectStatuses : Become(i, s)
    PROVE  BackendTyped'
<1> USE StatusesTyped DEF TypeOK, BackendTyped, WorkStatuses
<1>1. CASE Born(i)
  BY <1>1 DEF Born
<1>2. CASE \E b \in BOOLEAN : Put(i, b)
  BY <1>2 DEF Put
<1>3. CASE StartTeardown(i)
  BY <1>3 DEF StartTeardown
<1>4. CASE \E s \in ObjectStatuses : Become(i, s)
  BY <1>4 DEF Become
<1> QED
  BY <1>1, <1>2, <1>3, <1>4

LEMMA VanishTyped ==
    ASSUME TypeOK, NEW i \in Ids, Vanish(i)
    PROVE  BackendTyped' /\ acked' \subseteq Ids
  BY StatusesTyped DEF TypeOK, BackendTyped, Vanish

LEMMA StartRemovalTyped ==
    ASSUME TypeOK, NEW i \in Ids, StartRemoval(i)
    PROVE  BackendTyped' /\ acked' \subseteq Ids
<1>1. CASE Vanish(i)
  BY <1>1, VanishTyped
<1>2. CASE ~Vanish(i)
  BY <1>2, StatusesTyped DEF StartRemoval, TypeOK, BackendTyped, WorkStatuses
<1> QED
  BY <1>1, <1>2

LEMMA FinishTyped ==
    ASSUME TypeOK
    PROVE  /\ Finish => OpTyped'
           /\ \A p \in Points : Goto(p) => OpTyped'
  BY DEF TypeOK, OpTyped, Finish, Goto, Points

LEMMA RecordTyped ==
    ASSUME TypeOK
    PROVE  /\ \A i \in Ids \cup {NoId}, t \in BOOLEAN : Record(i, t) => StateTyped'
           /\ Drop => StateTyped'
<1>1. ASSUME NEW i \in Ids \cup {NoId}, NEW t \in BOOLEAN, Record(i, t)
      PROVE  StateTyped'
  BY <1>1 DEF TypeOK, StateTyped, Record
<1>2. ASSUME Drop PROVE StateTyped'
  BY <1>2 DEF TypeOK, StateTyped, Drop
<1> QED
  BY <1>1, <1>2

LEMMA BudgetStepTyped ==
    ASSUME TypeOK
    PROVE  /\ Fault => BudgetTyped'
           /\ Edit => BudgetTyped'
           /\ \A e \in Errors, l \in BOOLEAN : Poll(e, l) => BudgetTyped'
  BY BudgetAssumption DEF TypeOK, BudgetTyped, Fault, Edit, Poll

LEMMA PollCountersTyped ==
    ASSUME TypeOK, NEW e \in Errors
    PROVE  Fails(e) \in Nat /\ FetchFails(e) \in Nat
  BY DEF TypeOK, Fails, FetchFails, FailCount, FetchFailCount, Errors

RestTyped ==
    /\ spec \in Specs
    /\ wanted \in BOOLEAN
    /\ want \in Values
    /\ wantSecret \in Nat
    /\ acked \subseteq Ids
    /\ crashes \in Nat

LEMMA TypeParts ==
    TypeOK' <=> BackendTyped' /\ StateTyped' /\ OpTyped' /\ BudgetTyped' /\ RestTyped'
  BY Zenon DEF TypeOK, BackendTyped, StateTyped, OpTyped, BudgetTyped, RestTyped

LEMMA KeptTyped ==
    ASSUME TypeOK
    PROVE  /\ UNCHANGED backend => BackendTyped'
           /\ UNCHANGED tfState => StateTyped'
           /\ UNCHANGED op => OpTyped'
           /\ UNCHANGED budget => BudgetTyped'
           /\ UNCHANGED <<spec, config, acked, crashes>> => RestTyped'
  BY DEF TypeOK, BackendTyped, StateTyped, OpTyped, BudgetTyped, RestTyped,
         backend, tfState, op, counters, budget, config

-----------------------------------------------------------------------------
(* Every action keeps the types. *)

LEMMA CreateTyped ==
    ASSUME TypeOK, PointInv, CreateStep
    PROVE  TypeOK'
<1> USE TypeParts, KeptTyped, FinishTyped, RecordTyped, BudgetStepTyped
<1>0. pc \in CreatePoints \ {"create"} => opId \in Ids
  BY DEF PointInv
<1>1. ASSUME NEW i \in Ids, CreateAcked(i) PROVE TypeOK'
  <2>1. BackendTyped'
    BY <1>1, BackendStepTyped DEF CreateAcked
  <2>2. OpTyped'
    BY <1>1 DEF CreateAcked, OpTyped, TypeOK, counters, AfterCreate, AfterReady,
                Points, CreatePoints
  <2>3. RestTyped'
    BY <1>1 DEF CreateAcked, RestTyped, TypeOK, config
  <2> QED
    BY <1>1, <2>1, <2>2, <2>3 DEF CreateAcked
<1>2. ASSUME NEW i \in Ids, CreateReplyLost(i) PROVE TypeOK'
  BY <1>2, BackendStepTyped DEF CreateReplyLost
<1>3. CASE CreateRefused \/ CreateMergeFails
  <2>1. BudgetTyped'
    BY <1>3 DEF CreateRefused, CreateMergeFails
  <2> QED
    BY <1>3, <2>1 DEF CreateRefused, CreateMergeFails
<1>4. CASE CreateReadOk \/ CreateMergeOk
  <2>1. OpTyped'
    BY <1>4 DEF CreateReadOk, CreateMergeOk, AfterReady, Points, CreatePoints
  <2> QED
    BY <1>4, <2>1 DEF CreateReadOk, CreateMergeOk
<1>5. CASE CreateReadFails
  <2>1. BudgetTyped'
    BY <1>5 DEF CreateReadFails
  <2>2. StateTyped'
    BY <1>0, <1>5 DEF CreateReadFails, CreatePoints
  <2> QED
    BY <1>5, <2>1, <2>2 DEF CreateReadFails
<1>6. CASE CreateUpdateOk
  <2>1. BackendTyped'
    BY <1>0, <1>6, BackendStepTyped DEF CreateUpdateOk, CreatePoints
  <2>2. OpTyped'
    BY <1>6 DEF CreateUpdateOk, Points, CreatePoints
  <2> QED
    BY <1>6, <2>1, <2>2 DEF CreateUpdateOk
<1>7. CASE CreateUpdateFails
  <2>1. BackendTyped' /\ BudgetTyped'
    BY <1>0, <1>7, BackendStepTyped DEF CreateUpdateFails, CreatePoints
  <2>2. StateTyped'
    BY <1>0, <1>7 DEF CreateUpdateFails, CreatePoints
  <2> QED
    BY <1>7, <2>1, <2>2 DEF CreateUpdateFails
<1>8. CASE CreateSave
  BY <1>0, <1>8 DEF CreateSave, CreatePoints
<1> QED
  BY <1>1, <1>2, <1>3, <1>4, <1>5, <1>6, <1>7, <1>8 DEF CreateStep

LEMMA ReadTyped ==
    ASSUME TypeOK, PointInv, ReadStep
    PROVE  TypeOK'
<1> USE TypeParts, KeptTyped, FinishTyped, RecordTyped, BudgetStepTyped
<1>1. CASE ReadOk
  <2>1. opId \in Ids
    BY <1>1 DEF ReadOk, PointInv
  <2>2. StateTyped'
    BY <1>1, <2>1 DEF ReadOk, StateTyped, TypeOK
  <2>3. OpTyped'
    BY <1>1 DEF ReadOk, Points
  <2> QED
    BY <1>1, <2>2, <2>3 DEF ReadOk
<1>2. CASE ReadGone
  BY <1>2 DEF ReadGone
<1>3. CASE ReadFails
  BY <1>3 DEF ReadFails
<1> QED
  BY <1>1, <1>2, <1>3 DEF ReadStep

LEMMA UpdateTyped ==
    ASSUME TypeOK, PointInv, UpdateStep
    PROVE  TypeOK'
<1> USE TypeParts, KeptTyped, FinishTyped, RecordTyped, BudgetStepTyped
<1>0. pc \in UpdatePoints => opId \in Ids
  BY DEF PointInv
<1>1. CASE UpdateSkipped \/ UpdateSave
  BY <1>0, <1>1 DEF UpdateSkipped, UpdateSave, UpdatePoints
<1>2. CASE UpdateRefreshes \/ UpdateSends \/ UpdateReadOk
  <2>1. OpTyped'
    BY <1>2 DEF UpdateRefreshes, UpdateSends, UpdateReadOk, Points, UpdatePoints
  <2> QED
    BY <1>2, <2>1 DEF UpdateRefreshes, UpdateSends, UpdateReadOk
<1>3. CASE UpdateReadFails
  <2>1. BudgetTyped'
    BY <1>3 DEF UpdateReadFails
  <2> QED
    BY <1>3, <2>1 DEF UpdateReadFails
<1>4. CASE UpdatePutOk \/ UpdatePutFails
  <2>1. opId \in Ids
    BY <1>0, <1>4 DEF UpdatePutOk, UpdatePutFails, UpdatePoints
  <2>2. SecretChanged \in BOOLEAN
    BY Zenon DEF SecretChanged
  <2>3. BackendTyped' /\ BudgetTyped'
    BY <1>4, <2>1, <2>2, BackendStepTyped DEF UpdatePutOk, UpdatePutFails
  <2>4. OpTyped'
    BY <1>4 DEF UpdatePutOk, UpdatePutFails, Points, UpdatePoints
  <2> QED
    BY <1>4, <2>3, <2>4 DEF UpdatePutOk, UpdatePutFails
<1> QED
  BY <1>1, <1>2, <1>3, <1>4 DEF UpdateStep

LEMMA DeleteTyped ==
    ASSUME TypeOK, PointInv, DeleteStep
    PROVE  TypeOK'
<1> USE TypeParts, KeptTyped, FinishTyped, RecordTyped, BudgetStepTyped
<1>0. pc \in DeletePoints => opId \in Ids
  BY DEF PointInv
<1>1. CASE ProbeGone
  BY <1>1 DEF ProbeGone
<1>2. CASE ProbeSkips \/ ProbeTriggers
  <2>1. OpTyped' /\ BudgetTyped'
    BY <1>2 DEF ProbeSkips, ProbeTriggers, Points, DeletePoints
  <2> QED
    BY <1>2, <2>1 DEF ProbeSkips, ProbeTriggers
<1>3. CASE DeprovisionOk \/ DeprovisionFails
  <2>1. BackendTyped' /\ BudgetTyped'
    BY <1>0, <1>3, BackendStepTyped DEF DeprovisionOk, DeprovisionFails, DeletePoints
  <2>2. OpTyped'
    BY <1>3 DEF DeprovisionOk, DeprovisionFails, Points, DeletePoints
  <2> QED
    BY <1>3, <2>1, <2>2 DEF DeprovisionOk, DeprovisionFails
<1>4. CASE DeleteOk \/ DeleteFails
  <2>1. opId \in Ids
    BY <1>0, <1>4 DEF DeleteOk, DeleteFails, DeletePoints
  <2>2. BackendTyped' /\ BudgetTyped' /\ acked' \subseteq Ids
    BY <1>4, <2>1, StartRemovalTyped DEF DeleteOk, DeleteFails, TypeOK
  <2>3. OpTyped' /\ StateTyped'
    BY <1>4 DEF DeleteOk, DeleteFails, Points, DeletePoints
  <2>4. RestTyped'
    BY <1>4, <2>2 DEF DeleteOk, DeleteFails, RestTyped, TypeOK, config
  <2> QED
    BY <2>2, <2>3, <2>4
<1> QED
  BY <1>1, <1>2, <1>3, <1>4 DEF DeleteStep

LEMMA WaitTyped ==
    ASSUME TypeOK, PointInv, WaitStep
    PROVE  TypeOK'
<1> USE TypeParts, KeptTyped, FinishTyped, RecordTyped, BudgetStepTyped
<1>1. CASE WaitContinues
  <2>1. BudgetTyped' /\ failCount' \in Nat /\ fetchFailCount' \in Nat
    BY <1>1, PollCountersTyped DEF WaitContinues
  <2>2. OpTyped'
    BY <1>1, <2>1 DEF WaitContinues, OpTyped, TypeOK
  <2> QED
    BY <1>1, <2>1, <2>2 DEF WaitContinues
<1>2. CASE WaitSucceeds
  <2>1. BudgetTyped'
    BY <1>2 DEF WaitSucceeds
  <2>2. OpTyped' /\ StateTyped'
    BY <1>2 DEF WaitSucceeds, AfterReady, Points, CreatePoints, UpdatePoints, DeletePoints
  <2> QED
    BY <1>2, <2>1, <2>2 DEF WaitSucceeds
<1>3. CASE WaitFails
  <2>1. BudgetTyped'
    BY <1>3 DEF WaitFails
  <2>2. StateTyped'
    BY <1>3 DEF WaitFails, TypeOK
  <2> QED
    BY <1>3, <2>1, <2>2 DEF WaitFails
<1> QED
  BY <1>1, <1>2, <1>3 DEF WaitStep

LEMMA TerraformTyped ==
    ASSUME TypeOK, PointInv, Terraform
    PROVE  TypeOK'
<1> USE TypeParts, KeptTyped, FinishTyped
<1>1. CASE Apply
  <2>1. OpTyped'
    BY <1>1 DEF Apply, OpTyped, TypeOK, Points, CreatePoints, counters
  <2> QED
    BY <1>1, <2>1 DEF Apply
<1>2. CASE PlanStep
  <2>1. OpTyped'
    BY <1>2 DEF PlanStep, PlanDestroy, PlanUpdate, PlanNothing, Points,
                DeletePoints, UpdatePoints
  <2> QED
    BY <1>2, <2>1 DEF PlanStep, PlanDestroy, PlanUpdate, PlanNothing
<1> QED
  BY <1>1, <1>2 DEF Terraform

LEMMA BackendTypedStep ==
    ASSUME TypeOK, Backend \/ Misfortune
    PROVE  TypeOK'
<1> USE TypeParts, KeptTyped, FinishTyped, BudgetStepTyped
<1>1. ASSUME NEW i \in Ids, Progress(i) PROVE TypeOK'
  <2>1. BackendTyped' /\ acked' \subseteq Ids
    <3>1. CASE Vanish(i)
      BY <3>1, VanishTyped
    <3>2. CASE ~Vanish(i)
      BY <1>1, <3>2, BackendStepTyped, StatusesTyped
      DEF Progress, ProvisionOk, TeardownRuns, TeardownOk, TypeOK, WorkStatuses
    <3> QED
      BY <3>1, <3>2
  <2>2. RestTyped'
    BY <1>1, <2>1 DEF Progress, RestTyped, TypeOK, config
  <2> QED
    BY <1>1, <2>1, <2>2 DEF Progress
<1>2. ASSUME NEW i \in Ids, Break(i) \/ Recover(i) PROVE TypeOK'
  <2>1. BackendTyped' /\ BudgetTyped'
    BY <1>2, BackendStepTyped, StatusesTyped DEF Break, Recover, WorkStatuses
  <2> QED
    BY <1>2, <2>1 DEF Break, Recover
<1>3. CASE Crash
  <2>1. RestTyped'
    BY <1>3 DEF Crash, RestTyped, TypeOK, config
  <2> QED
    BY <1>3, <2>1 DEF Crash
<1> QED
  BY <1>1, <1>2, <1>3 DEF Backend, Misfortune

LEMMA PeopleTyped ==
    ASSUME TypeOK, People
    PROVE  TypeOK'
<1> USE TypeParts, KeptTyped, BudgetStepTyped
<1>1. CASE EditConfig
  <2>1. wanted' \in BOOLEAN
    BY <1>1, Zenon DEF EditConfig, TypeOK
  <2>2. RestTyped'
    BY <1>1, <2>1 DEF EditConfig, RestTyped, TypeOK
  <2> QED
    BY <1>1, <2>2 DEF EditConfig
<1>2. ASSUME NEW i \in Ids, ConsoleEdits(i) PROVE TypeOK'
  <2>1. BackendTyped'
    BY <1>2 DEF ConsoleEdits, BackendTyped, TypeOK
  <2> QED
    BY <1>2, <2>1 DEF ConsoleEdits
<1>3. ASSUME NEW i \in Ids, ConsoleDeletes(i) PROVE TypeOK'
  <2>1. BackendTyped' /\ acked' \subseteq Ids
    BY <1>3, VanishTyped DEF ConsoleDeletes
  <2>2. RestTyped'
    BY <1>3, <2>1 DEF ConsoleDeletes, RestTyped, TypeOK, config
  <2> QED
    BY <1>3, <2>1, <2>2 DEF ConsoleDeletes
<1>4. ASSUME NEW i \in Ids, ConsoleDeprovisions(i) \/ ConsoleCreates(i) PROVE TypeOK'
  BY <1>4, BackendStepTyped DEF ConsoleDeprovisions, ConsoleCreates
<1>5. ASSUME NEW i \in Ids, Import(i) PROVE TypeOK'
  <2>1. StateTyped' /\ RestTyped'
    BY <1>5 DEF Import, StateTyped, RestTyped, TypeOK, config
  <2> QED
    BY <1>5, <2>1 DEF Import
<1> QED
  BY <1>1, <1>2, <1>3, <1>4, <1>5 DEF People

-----------------------------------------------------------------------------
(* The object an operation holds. *)

LEMMA PointsDisjoint ==
    /\ {"read", "plan"} \cap CreatePoints = {}
    /\ UpdatePoints \cap CreatePoints = {}
    /\ DeletePoints \cap CreatePoints = {}
    /\ "idle" \notin {"read", "plan"} \cup CreatePoints \cup UpdatePoints \cup DeletePoints
    /\ "create" \in CreatePoints
  BY DEF CreatePoints, UpdatePoints, DeletePoints

LEMMA FinishedPoint == Finish => PointInv'
  BY PointsDisjoint DEF Finish, PointInv

LEMMA PointStep == TypeOK /\ PointInv /\ [Next]_vars => PointInv'
<1> SUFFICES ASSUME TypeOK, PointInv, [Next]_vars PROVE PointInv'
  OBVIOUS
<1> USE PointsDisjoint, FinishedPoint
<1>1. CASE CreateStep
  <2>1. ASSUME NEW i \in Ids, CreateAcked(i) PROVE PointInv'
    BY <2>1 DEF CreateAcked, AfterCreate, AfterReady, PointInv, tfState, CreatePoints,
                UpdatePoints, DeletePoints
  <2>2. CASE CreateReadOk \/ CreateMergeOk \/ CreateUpdateOk
    BY <2>2 DEF CreateReadOk, CreateMergeOk, CreateUpdateOk, AfterReady, Goto, PointInv,
                tfState, CreatePoints, UpdatePoints, DeletePoints
  <2> QED
    BY <1>1, <2>1, <2>2
    DEF CreateStep, CreateReplyLost, CreateRefused, CreateReadFails, CreateMergeFails,
        CreateUpdateFails, CreateSave
<1>2. CASE ReadStep
  BY <1>2 DEF ReadStep, ReadOk, ReadGone, ReadFails, Goto, PointInv
<1>3. CASE UpdateStep
  <2>1. CASE UpdateRefreshes \/ UpdateSends \/ UpdateReadOk \/ UpdatePutOk
    BY <2>1 DEF UpdateRefreshes, UpdateSends, UpdateReadOk, UpdatePutOk, Goto, PointInv,
                tfState, CreatePoints, UpdatePoints, DeletePoints
  <2> QED
    BY <1>3, <2>1 DEF UpdateStep, UpdateSkipped, UpdateReadFails, UpdatePutFails, UpdateSave
<1>4. CASE DeleteStep
  <2>1. CASE ProbeSkips \/ ProbeTriggers \/ DeprovisionOk
    BY <2>1 DEF ProbeSkips, ProbeTriggers, DeprovisionOk, Goto, PointInv,
                tfState, CreatePoints, UpdatePoints, DeletePoints
  <2>2. CASE DeleteOk
    BY <2>2 DEF DeleteOk, Goto, PointInv, tfState, CreatePoints, UpdatePoints, DeletePoints
  <2> QED
    BY <1>4, <2>1, <2>2 DEF DeleteStep, ProbeGone, DeprovisionFails, DeleteFails
<1>5. CASE WaitStep
  <2>1. CASE WaitContinues
    BY <2>1 DEF WaitContinues, PointInv, tfState
  <2>2. CASE WaitSucceeds
    BY <2>2 DEF WaitSucceeds, AfterReady, Goto, PointInv, tfState, CreatePoints,
                UpdatePoints, DeletePoints
  <2> QED
    BY <1>5, <2>1, <2>2 DEF WaitStep, WaitFails
<1>6. CASE Terraform
  <2>1. CASE Apply
    BY <2>1 DEF Apply, PointInv, TypeOK, tfState, CreatePoints, UpdatePoints, DeletePoints
  <2>2. CASE PlanStep
    BY <2>2 DEF PlanStep, PlanDestroy, PlanUpdate, PlanNothing, Goto, PointInv, tfState,
                CreatePoints, UpdatePoints, DeletePoints
  <2> QED
    BY <1>6, <2>1, <2>2 DEF Terraform
<1>7. CASE Backend \/ Misfortune
  <2>1. ASSUME NEW i \in Ids, Progress(i) \/ Break(i) \/ Recover(i) PROVE PointInv'
    BY <2>1 DEF Progress, Break, Recover, PointInv, op, tfState
  <2> QED
    BY <1>7, <2>1 DEF Backend, Misfortune, Crash
<1>8. CASE People
  <2>1. ASSUME NEW i \in Ids, Import(i) PROVE PointInv'
    BY <2>1 DEF Import, PointInv, op
  <2> QED
    BY <1>8, <2>1
    DEF People, EditConfig, ConsoleEdits, ConsoleDeletes, ConsoleDeprovisions,
        ConsoleCreates, PointInv, op, tfState
<1>9. CASE UNCHANGED vars
  BY <1>9 DEF vars, PointInv, op, tfState
<1> QED
  BY <1>1, <1>2, <1>3, <1>4, <1>5, <1>6, <1>7, <1>8, <1>9 DEF Next, Engine

LEMMA TypeInit == Init => TypeOK /\ PointInv
<1> SUFFICES ASSUME Init PROVE TypeOK /\ PointInv
  OBVIOUS
<1>1. PointInv
  BY PointsDisjoint DEF Init, PointInv
<1>2. BackendTyped
  BY StatusesTyped DEF Init, BackendTyped
<1>3. StateTyped /\ OpTyped
  BY DEF Init, StateTyped, OpTyped, Points
<1>4. BudgetTyped /\ RestTyped
  BY BudgetAssumption DEF Init, BudgetTyped, RestTyped
<1>5. TypeOK
  BY <1>2, <1>3, <1>4, Zenon
  DEF TypeOK, BackendTyped, StateTyped, OpTyped, BudgetTyped, RestTyped
<1> QED
  BY <1>1, <1>5

LEMMA TypeStep == TypeOK /\ PointInv /\ [Next]_vars => TypeOK' /\ PointInv'
<1> SUFFICES ASSUME TypeOK, PointInv, [Next]_vars PROVE TypeOK'
  BY PointStep
<1>1. CASE UNCHANGED vars
  BY <1>1, KeptTyped, TypeParts DEF vars
<1> QED
  BY <1>1, CreateTyped, ReadTyped, UpdateTyped, DeleteTyped, WaitTyped, TerraformTyped,
     BackendTypedStep, PeopleTyped
  DEF Next, Engine

(* The variables of the lifecycle have their types, and each operation     *)
(* holds the object its program point says it holds.                       *)
THEOREM LifecycleTypeCorrect == Spec => []TypeOK
<1>1. Spec => [](TypeOK /\ PointInv)
  BY TypeInit, TypeStep, PTL DEF Spec
<1> QED
  BY <1>1, PTL

-----------------------------------------------------------------------------
(* Acknowledged objects. *)

(* Only live objects count as acknowledged, so that an entry may be        *)
(* dropped once its object is seen to be gone.                             *)
AckInv ==
    /\ \A i \in acked : Live(i)
    /\ pc = "createMerge" => FollowUpMerges
    /\ AcknowledgedIsRecorded

(* Nothing but the end of a removal takes an object away. *)
LEMMA LivesOn ==
    ASSUME TypeOK, NEW i \in Ids,
           \/ UNCHANGED backend
           \/ Born(i)
           \/ \E b \in BOOLEAN : Put(i, b)
           \/ StartTeardown(i)
           \/ \E s \in Statuses : Become(i, s)
           \/ StartRemoval(i) /\ spec.waiter
    PROVE  \A j \in Ids : Live(j) => Live(j)'
<1> USE StatusAssumption, BackendStatusAssumption DEF TypeOK, Live, WorkStatuses
<1>1. CASE UNCHANGED backend
  BY <1>1 DEF backend
<1>2. CASE Born(i)
  BY <1>2 DEF Born
<1>3. CASE \E b \in BOOLEAN : Put(i, b)
  BY <1>3 DEF Put
<1>4. CASE StartTeardown(i)
  BY <1>4 DEF StartTeardown
<1>5. CASE \E s \in Statuses : Become(i, s)
  BY <1>5 DEF Become
<1>6. CASE StartRemoval(i) /\ spec.waiter
  BY <1>6 DEF StartRemoval
<1> QED
  BY <1>1, <1>2, <1>3, <1>4, <1>5, <1>6

LEMMA VanishedOnly ==
    ASSUME TypeOK, NEW i \in Ids, Vanish(i)
    PROVE  acked' = acked \ {i} /\ \A j \in Ids \ {i} : Live(j) => Live(j)'
  BY DEF TypeOK, Vanish, Live

(* What is acknowledged stays so while the object lives and stays held. *)
LEMMA AckKept ==
    ASSUME TypeOK, AckInv,
           acked' = acked, spec' = spec,
           \A j \in Ids : Live(j) => Live(j)',
           acked = {} \/ {tracked, opId} \subseteq {tracked', opId', NoId} \/ FollowUpMerges,
           pc' = "createMerge" => FollowUpMerges
    PROVE  AckInv'
  BY IdAssumption DEF TypeOK, AckInv, FollowUpMerges, AcknowledgedIsRecorded

LEMMA AckCreate ==
    ASSUME TypeOK, PointInv, AckInv, CreateStep
    PROVE  AckInv'
<1>0. /\ tracked = NoId
      /\ pc = "create" => opId = NoId
      /\ pc # "create" => opId \in Ids
  BY DEF CreateStep, CreateAcked, CreateReplyLost, CreateRefused, CreateReadOk,
         CreateReadFails, CreateMergeOk, CreateMergeFails, CreateUpdateOk,
         CreateUpdateFails, CreateSave, CreatePoints, PointInv
<1>1. ASSUME NEW i \in Ids, CreateAcked(i) PROVE AckInv'
  <2>1. FollowUpMerges \/ acked = {}
    BY <1>0, <1>1, IdAssumption DEF CreateAcked, AckInv, AcknowledgedIsRecorded, TypeOK
  <2>2. \A j \in Ids : Live(j) => Live(j)'
    BY <1>1, LivesOn DEF CreateAcked
  <2>3. Live(i)'
    BY <1>1, StatusAssumption, BackendStatusAssumption
    DEF CreateAcked, Born, Live, TypeOK, WorkStatuses
  <2> QED
    BY <1>1, <2>1, <2>2, <2>3
    DEF CreateAcked, AckInv, FollowUpMerges, AcknowledgedIsRecorded, TypeOK, AfterCreate,
        AfterReady
<1>2. ASSUME NEW i \in Ids, CreateReplyLost(i) PROVE AckInv'
  <2>1. \A j \in Ids : Live(j) => Live(j)'
    BY <1>2, LivesOn DEF CreateReplyLost
  <2> QED
    BY <1>0, <1>2, <2>1, AckKept DEF CreateReplyLost, Finish, tfState
<1>3. CASE CreateRefused
  BY <1>0, <1>3, AckKept DEF CreateRefused, Finish, tfState, backend, Live
<1>4. CASE CreateReadOk \/ CreateMergeOk
  BY <1>0, <1>4, AckKept
  DEF CreateReadOk, CreateMergeOk, Goto, AfterReady, tfState, backend, Live, FollowUpMerges
<1>5. CASE CreateReadFails \/ CreateSave
  BY <1>0, <1>5, AckKept
  DEF CreateReadFails, CreateSave, Record, Finish, backend, Live
<1>6. CASE CreateMergeFails
  BY <1>0, <1>6, AckKept DEF CreateMergeFails, Finish, backend, Live, AckInv
<1>7. CASE CreateUpdateOk \/ CreateUpdateFails
  <2>1. \A j \in Ids : Live(j) => Live(j)'
    BY <1>0, <1>7, LivesOn DEF CreateUpdateOk, CreateUpdateFails
  <2> QED
    BY <1>0, <1>7, <2>1, AckKept
    DEF CreateUpdateOk, CreateUpdateFails, Goto, Record, Finish, tfState
<1> QED
  BY <1>1, <1>2, <1>3, <1>4, <1>5, <1>6, <1>7 DEF CreateStep

LEMMA AckEngine ==
    ASSUME TypeOK, PointInv, AckInv, ReadStep \/ UpdateStep \/ DeleteStep \/ WaitStep
    PROVE  AckInv'
<1>0. /\ pc \in {"read"} \cup UpdatePoints \cup DeletePoints => opId = tracked /\ tracked \in Ids
      /\ pc \in WaitPoints => opId \in Ids
      /\ pc \in CreatePoints => tracked = NoId
  BY DEF PointInv, WaitPoints, CreatePoints, UpdatePoints, DeletePoints
(* An entry dropped when its object is gone takes nothing acknowledged     *)
(* with it.                                                                *)
<1>1. ASSUME opId = tracked, ~Live(opId), acked' = acked, spec' = spec, UNCHANGED backend,
             pc' # "createMerge"
      PROVE  AckInv'
  BY <1>1 DEF AckInv, AcknowledgedIsRecorded, FollowUpMerges, backend, Live
<1>2. CASE ReadStep
  BY <1>0, <1>1, <1>2, AckKept
  DEF ReadStep, ReadOk, ReadGone, ReadFails, Goto, Finish, Drop, tfState, backend, Live
<1>3. CASE UpdateStep
  <2>1. CASE UpdateSkipped \/ UpdateSave
    BY <1>0, <2>1, AckKept
    DEF UpdateSkipped, UpdateSave, Record, Finish, backend, Live, UpdatePoints
  <2>2. CASE UpdateRefreshes \/ UpdateSends \/ UpdateReadOk
    BY <2>2, AckKept
    DEF UpdateRefreshes, UpdateSends, UpdateReadOk, Goto, tfState, backend, Live
  <2>3. CASE UpdateReadFails
    BY <1>0, <2>3, AckKept DEF UpdateReadFails, Finish, tfState, backend, Live, UpdatePoints
  <2>4. CASE UpdatePutOk \/ UpdatePutFails
    <3>1. SecretChanged \in BOOLEAN
      BY Zenon DEF SecretChanged
    <3>2. opId \in Ids
      BY <1>0, <2>4 DEF UpdatePutOk, UpdatePutFails, UpdatePoints
    <3>3. \A j \in Ids : Live(j) => Live(j)'
      BY <2>4, <3>1, <3>2, LivesOn DEF UpdatePutOk, UpdatePutFails
    <3> QED
      BY <1>0, <2>4, <3>3, AckKept
      DEF UpdatePutOk, UpdatePutFails, Goto, Finish, tfState, UpdatePoints
  <2> QED
    BY <1>3, <2>1, <2>2, <2>3, <2>4 DEF UpdateStep
<1>4. CASE DeleteStep
  <2>1. CASE ProbeGone
    BY <1>0, <1>1, <2>1 DEF ProbeGone, Finish, DeletePoints
  <2>2. CASE ProbeSkips \/ ProbeTriggers
    BY <2>2, AckKept DEF ProbeSkips, ProbeTriggers, Goto, tfState, backend, Live
  <2>3. CASE DeprovisionOk \/ DeprovisionFails
    <3>1. \A j \in Ids : Live(j) => Live(j)'
      BY <1>0, <2>3, LivesOn DEF DeprovisionOk, DeprovisionFails, DeletePoints
    <3> QED
      BY <1>0, <2>3, <3>1, AckKept
      DEF DeprovisionOk, DeprovisionFails, Goto, Finish, tfState, DeletePoints
  <2>4. CASE DeleteOk \/ DeleteFails
    <3>0. opId \in Ids /\ opId = tracked
      BY <1>0, <2>4 DEF DeleteOk, DeleteFails, DeletePoints
    <3>1. CASE Vanish(opId)
      BY <2>4, <3>0, <3>1, VanishedOnly, IdAssumption
      DEF DeleteOk, DeleteFails, Goto, Finish, AckInv, AcknowledgedIsRecorded, TypeOK,
          FollowUpMerges
    <3>2. CASE StartRemoval(opId) /\ spec.waiter
      <4>1. \A j \in Ids : Live(j) => Live(j)'
        BY <3>0, <3>2, LivesOn
      <4>2. acked' = acked
        BY <3>2 DEF StartRemoval
      <4> QED
        BY <2>4, <3>0, <3>2, <4>1, <4>2, AckKept DEF DeleteOk, DeleteFails, Goto, Finish, tfState
    <3>3. CASE DeleteOk /\ ~Live(opId) /\ UNCHANGED <<backend, acked>>
      BY <1>1, <3>0, <3>3 DEF DeleteOk, Goto, Finish
    <3>4. CASE DeleteFails /\ UNCHANGED <<backend, acked>>
      BY <3>0, <3>4, AckKept DEF DeleteFails, Finish, tfState, backend, Live
    <3> QED
      BY <2>4, <3>1, <3>2, <3>3, <3>4 DEF DeleteOk, DeleteFails, StartRemoval
  <2> QED
    BY <1>4, <2>1, <2>2, <2>3, <2>4 DEF DeleteStep
<1>5. CASE WaitStep
  <2>1. CASE WaitContinues
    BY <2>1, AckKept DEF WaitContinues, tfState, backend, Live, AckInv
  <2>2. CASE WaitSucceeds
    <3>1. CASE pc = "goneWait"
      <4>1. ~Live(opId)
        BY <2>2, <3>1 DEF WaitSucceeds, Poll, Reached, Target, LoopAt, Errors
      <4> QED
        BY <1>0, <1>1, <2>2, <3>1, <4>1 DEF WaitSucceeds, Finish, DeletePoints
    <3>2. CASE pc # "goneWait"
      BY <2>2, <3>2, AckKept
      DEF WaitSucceeds, Goto, AfterReady, FollowUpMerges, tfState, backend, Live
    <3> QED
      BY <3>1, <3>2
  <2>3. CASE WaitFails
    <3>1. pc \in WaitPoints
      BY <2>3 DEF WaitFails, Poll
    <3>2. pc \notin CreatePoints => opId = tracked
      BY <1>0, <3>1 DEF WaitPoints, CreatePoints, UpdatePoints, DeletePoints
    <3> QED
      BY <1>0, <2>3, <3>2, AckKept DEF WaitFails, Record, Finish, tfState, backend, Live
  <2> QED
    BY <1>5, <2>1, <2>2, <2>3 DEF WaitStep
<1> QED
  BY <1>2, <1>3, <1>4, <1>5

LEMMA AckWorld ==
    ASSUME TypeOK, PointInv, AckInv, Terraform \/ Backend \/ Misfortune \/ People
    PROVE  AckInv'
<1>1. CASE Apply
  BY <1>1, AckKept DEF Apply, PointInv, tfState, backend, Live
<1>2. CASE PlanStep
  BY <1>2, AckKept
  DEF PlanStep, PlanDestroy, PlanUpdate, PlanNothing, Goto, Finish, PointInv, tfState,
      backend, Live
<1>3. ASSUME NEW i \in Ids, Vanish(i), UNCHANGED <<spec, tfState, op>> PROVE AckInv'
  BY <1>3, VanishedOnly
  DEF AckInv, AcknowledgedIsRecorded, TypeOK, FollowUpMerges, tfState, op
<1>4. ASSUME NEW i \in Ids,
             UNCHANGED backend \/ Born(i) \/ StartTeardown(i) \/ \E s \in Statuses : Become(i, s),
             UNCHANGED <<spec, tfState, op, acked>>
      PROVE  AckInv'
  BY <1>4, LivesOn, AckKept DEF tfState, op, AckInv
<1>5. ASSUME NEW i \in Ids, Progress(i) PROVE AckInv'
  BY <1>3, <1>4, <1>5, StatusAssumption, BackendStatusAssumption
  DEF Progress, ProvisionOk, TeardownRuns, TeardownOk, WorkStatuses
<1>6. ASSUME NEW i \in Ids, Break(i) \/ Recover(i) PROVE AckInv'
  BY <1>4, <1>6, BackendStatusAssumption DEF Break, Recover, WorkStatuses
<1>7. CASE Crash
  <2>1. pc \notin CreatePoints => opId = tracked
    BY <1>7 DEF Crash, PointInv, TypeOK, Points
  <2> QED
    BY <1>7, <2>1
    DEF Crash, Finish, PointInv, AckInv, AcknowledgedIsRecorded, FollowUpMerges, tfState,
        backend, Live
<1>8. CASE EditConfig
  BY <1>8, AckKept DEF EditConfig, tfState, op, backend, Live, AckInv
<1>9. ASSUME NEW i \in Ids, ConsoleEdits(i) PROVE AckInv'
  BY <1>9, AckKept DEF ConsoleEdits, tfState, op, Live, AckInv
<1>10. ASSUME NEW i \in Ids, ConsoleDeletes(i) \/ ConsoleDeprovisions(i) \/ ConsoleCreates(i)
       PROVE  AckInv'
  BY <1>3, <1>4, <1>10 DEF ConsoleDeletes, ConsoleDeprovisions, ConsoleCreates
<1>11. ASSUME NEW i \in Ids, Import(i) PROVE AckInv'
  <2>1. FollowUpMerges \/ acked = {}
    BY <1>11, IdAssumption DEF Import, PointInv, AckInv, AcknowledgedIsRecorded, TypeOK
  <2> QED
    BY <1>11, <2>1
    DEF Import, AckInv, AcknowledgedIsRecorded, FollowUpMerges, op, backend, Live
<1> QED
  BY <1>1, <1>2, <1>5, <1>6, <1>7, <1>8, <1>9, <1>10, <1>11
  DEF Terraform, Backend, Misfortune, People

LEMMA AckStep == TypeOK /\ PointInv /\ AckInv /\ [Next]_vars => AckInv'
<1> SUFFICES ASSUME TypeOK, PointInv, AckInv, [Next]_vars PROVE AckInv'
  OBVIOUS
<1>1. CASE UNCHANGED vars
  BY <1>1 DEF vars, AckInv, AcknowledgedIsRecorded, FollowUpMerges, tfState, op, backend, Live
<1> QED
  BY <1>1, AckCreate, AckEngine, AckWorld DEF Next, Engine

LEMMA AckInit == Init => AckInv
  BY DEF Init, AckInv, AcknowledgedIsRecorded

(* No failure makes Terraform lose an object whose id it was given, for    *)
(* every spec that does not merge into its updateAfterCreate follow-up.    *)
THEOREM AcknowledgedObjectsRecorded == Spec => []AcknowledgedIsRecorded
<1>1. Spec => [](TypeOK /\ PointInv /\ AckInv)
  BY TypeInit, TypeStep, AckInit, AckStep, PTL DEF Spec
<1>2. AckInv => AcknowledgedIsRecorded
  BY DEF AckInv
<1> QED
  BY <1>1, <1>2, PTL

-----------------------------------------------------------------------------
(* Teardown. *)

(* An object that shows it is being deleted cannot be torn down again. *)
TeardownInv ==
    /\ \A i \in Ids : status[i] = "Deleting" => i \in deleting
    /\ DeletesOnlyTornDown

(* The two conjuncts against each way the backend changes. *)
LEMMA DeletingMarked ==
    ASSUME TypeOK, TeardownInv, NEW i \in Ids,
           \/ UNCHANGED <<status, deleting>>
           \/ Born(i)
           \/ \E b \in BOOLEAN : Put(i, b)
           \/ StartTeardown(i)
           \/ \E s \in Statuses \ {"Deleting"} : Become(i, s)
           \/ StartRemoval(i)
           \/ Vanish(i)
    PROVE  \A j \in Ids : status'[j] = "Deleting" => j \in deleting'
<1> USE StatusAssumption, BackendStatusAssumption DEF TypeOK, TeardownInv, WorkStatuses
<1>1. CASE UNCHANGED <<status, deleting>>
  BY <1>1
<1>2. CASE Born(i)
  BY <1>2 DEF Born, Live
<1>3. CASE \E b \in BOOLEAN : Put(i, b)
  BY <1>3 DEF Put
<1>4. CASE StartTeardown(i)
  BY <1>4 DEF StartTeardown
<1>5. CASE \E s \in Statuses \ {"Deleting"} : Become(i, s)
  BY <1>5 DEF Become
<1>6. CASE Vanish(i)
  BY <1>6 DEF Vanish
<1>7. CASE StartRemoval(i) /\ ~Vanish(i)
  BY <1>7 DEF StartRemoval
<1> QED
  BY <1>1, <1>2, <1>3, <1>4, <1>5, <1>6, <1>7

(* While the engine is about to delete, others leave a torn-down object    *)
(* torn down.                                                              *)
LEMMA TornDownStays ==
    ASSUME TypeOK, PointInv, TeardownInv, NEW i \in Ids,
           \/ UNCHANGED status
           \/ Born(i)
           \/ StartTeardown(i)
           \/ status[i] \in WorkStatuses \ {"Deleting"} /\ \E s \in Statuses : Become(i, s)
           \/ Vanish(i),
           UNCHANGED <<spec, tfState, op>>
    PROVE  DeletesOnlyTornDown'
<1> SUFFICES ASSUME pc = "delete", spec.deprovision, Live(opId)'
             PROVE  status'[opId] \in {DeprovisionedState, "Deleting"}
  BY DEF DeletesOnlyTornDown, op
<1>0. opId' = opId /\ opId = tracked /\ opId \in Ids
  BY DEF PointInv, DeletePoints, op
<1> USE <1>0, StatusAssumption, BackendStatusAssumption
    DEF TypeOK, TeardownInv, DeletesOnlyTornDown, Live, WorkStatuses
<1>1. CASE UNCHANGED status
  BY <1>1
<1>2. CASE Born(i)
  BY <1>2 DEF Born
<1>3. CASE StartTeardown(i)
  BY <1>3 DEF StartTeardown, CanTearDown, TornDown
<1>4. CASE status[i] \in WorkStatuses \ {"Deleting"} /\ \E s \in Statuses : Become(i, s)
  BY <1>4 DEF Become
<1>5. CASE Vanish(i)
  BY <1>5 DEF Vanish
<1> QED
  BY <1>1, <1>2, <1>3, <1>4, <1>5

(* The engine gets to the DELETE only through the wait for the teardown.   *)
LEMMA DeleteReached ==
    ASSUME TypeOK, PointInv, TeardownInv, Engine \/ Terraform
    PROVE  DeletesOnlyTornDown'
<1>1. CASE pc' # "delete"
  BY <1>1 DEF DeletesOnlyTornDown
<1>2. CASE PlanDestroy
  BY <1>2 DEF PlanDestroy, Goto, DeletesOnlyTornDown
<1>3. CASE WaitSucceeds /\ pc = "deprovisionWait"
  BY <1>3
  DEF WaitSucceeds, Poll, Reached, Target, LoopAt, ObjectView, Goto, DeletesOnlyTornDown,
      Live, backend, Errors
<1>4. CASE WaitContinues
  BY <1>4, PointsDisjoint DEF WaitContinues, Poll, WaitPoints, DeletesOnlyTornDown
<1>5. CASE pc' = "delete" /\ ~PlanDestroy /\ ~WaitSucceeds /\ ~WaitContinues
  BY <1>5
  DEF Engine, Terraform, CreateStep, ReadStep, UpdateStep, DeleteStep, WaitStep, PlanStep,
      CreateAcked, CreateReplyLost, CreateRefused, CreateReadOk, CreateReadFails,
      CreateMergeOk, CreateMergeFails, CreateUpdateOk, CreateUpdateFails, CreateSave,
      ReadOk, ReadGone, ReadFails, UpdateSkipped, UpdateRefreshes, UpdateSends,
      UpdateReadOk, UpdateReadFails, UpdatePutOk, UpdatePutFails, UpdateSave, ProbeGone,
      ProbeSkips, ProbeTriggers, DeprovisionOk, DeprovisionFails, DeleteOk, DeleteFails,
      WaitFails, Apply, PlanUpdate, PlanNothing, Goto, Finish, AfterCreate, AfterReady
<1>6. CASE WaitSucceeds /\ pc # "deprovisionWait" /\ pc' = "delete"
  BY <1>6 DEF WaitSucceeds, Goto, Finish, AfterReady
<1> QED
  BY <1>1, <1>2, <1>3, <1>4, <1>5, <1>6

LEMMA TeardownStep == TypeOK /\ PointInv /\ TeardownInv /\ [Next]_vars => TeardownInv'
<1> SUFFICES ASSUME TypeOK, PointInv, TeardownInv, [Next]_vars PROVE TeardownInv'
  OBVIOUS
<1> DEFINE Marked == \A j \in Ids : status'[j] = "Deleting" => j \in deleting'
<1>0. pc \in UpdatePoints \cup DeletePoints \cup (CreatePoints \ {"create"}) => opId \in Ids
  BY DEF PointInv
<1>1. ASSUME Engine \/ Terraform PROVE Marked
  <2>1. CASE UNCHANGED backend
    BY <2>1 DEF backend, TeardownInv
  <2>2. CASE \E i \in Ids : CreateAcked(i) \/ CreateReplyLost(i)
    BY <2>2, DeletingMarked DEF CreateAcked, CreateReplyLost
  <2>3. CASE CreateUpdateOk \/ CreateUpdateFails
    BY <1>0, <2>1, <2>3, DeletingMarked
    DEF CreateUpdateOk, CreateUpdateFails, CreatePoints
  <2>4. CASE UpdatePutOk \/ UpdatePutFails
    <3>1. SecretChanged \in BOOLEAN
      BY Zenon DEF SecretChanged
    <3> QED
      BY <1>0, <2>1, <2>4, <3>1, DeletingMarked DEF UpdatePutOk, UpdatePutFails, UpdatePoints
  <2>5. CASE DeprovisionOk \/ DeprovisionFails
    BY <1>0, <2>1, <2>5, DeletingMarked DEF DeprovisionOk, DeprovisionFails, DeletePoints
  <2>6. CASE DeleteOk \/ DeleteFails
    BY <1>0, <2>1, <2>6, DeletingMarked DEF DeleteOk, DeleteFails, DeletePoints
  <2> QED
    BY <1>1, <2>1, <2>2, <2>3, <2>4, <2>5, <2>6
    DEF Engine, Terraform, CreateStep, ReadStep, UpdateStep, DeleteStep, WaitStep, PlanStep,
        CreateRefused, CreateReadOk, CreateReadFails, CreateMergeOk, CreateMergeFails,
        CreateSave, ReadOk, ReadGone, ReadFails, UpdateSkipped, UpdateRefreshes,
        UpdateSends, UpdateReadOk, UpdateReadFails, UpdateSave, ProbeGone, ProbeSkips,
        ProbeTriggers, WaitContinues, WaitSucceeds, WaitFails, Apply, PlanDestroy,
        PlanUpdate, PlanNothing
<1>2. CASE Engine \/ Terraform
  BY <1>1, <1>2, DeleteReached DEF TeardownInv
<1>3. ASSUME NEW i \in Ids, Progress(i) \/ Break(i) \/ Recover(i) PROVE TeardownInv'
  <2>1. Vanish(i) \/ (status[i] \in WorkStatuses \ {"Deleting"}
                        /\ \E s \in Statuses \ {"Deleting"} : Become(i, s))
    BY <1>3, StatusAssumption, BackendStatusAssumption
    DEF Progress, Break, Recover, ProvisionOk, TeardownRuns, TeardownOk, WorkStatuses
  <2>2. UNCHANGED <<spec, tfState, op>>
    BY <1>3 DEF Progress, Break, Recover
  <2> QED
    BY <2>1, <2>2, DeletingMarked, TornDownStays DEF TeardownInv
<1>4. CASE Crash
  BY <1>4 DEF Crash, Finish, TeardownInv, DeletesOnlyTornDown, backend
<1>5. CASE EditConfig
  BY <1>5 DEF EditConfig, TeardownInv, DeletesOnlyTornDown, backend, op, Live
<1>6. ASSUME NEW i \in Ids, ConsoleEdits(i) \/ ConsoleDeletes(i)
                              \/ ConsoleDeprovisions(i) \/ ConsoleCreates(i)
      PROVE  TeardownInv'
  BY <1>6, DeletingMarked, TornDownStays
  DEF ConsoleEdits, ConsoleDeletes, ConsoleDeprovisions, ConsoleCreates, TeardownInv
<1>7. ASSUME NEW i \in Ids, Import(i) PROVE TeardownInv'
  BY <1>7 DEF Import, TeardownInv, DeletesOnlyTornDown, backend, op
<1>8. CASE UNCHANGED vars
  BY <1>8 DEF vars, TeardownInv, DeletesOnlyTornDown, backend, op, Live
<1> QED
  BY <1>2, <1>3, <1>4, <1>5, <1>6, <1>7, <1>8 DEF Next, Backend, Misfortune, People

LEMMA TeardownInit == Init => TeardownInv
  BY BackendStatusAssumption DEF Init, TeardownInv, DeletesOnlyTornDown

(* The removal of a live object with a deprovision call is asked for only  *)
(* once it is torn down.                                                   *)
THEOREM DeletesFollowTeardown == Spec => []DeletesOnlyTornDown
<1>1. Spec => [](TypeOK /\ PointInv /\ TeardownInv)
  BY TypeInit, TypeStep, TeardownInit, TeardownStep, PTL DEF Spec
<1>2. TeardownInv => DeletesOnlyTornDown
  BY DEF TeardownInv
<1> QED
  BY <1>1, <1>2, PTL

-----------------------------------------------------------------------------
(* The import mark. *)

(* An attribute that was never adopted is covered by the mark. *)
MarkInv == adopted \/ imported

LEMMA MarkStep == MarkInv /\ [Next]_vars => MarkInv'
<1> SUFFICES ASSUME MarkInv, [Next]_vars PROVE MarkInv'
  OBVIOUS
<1>1. CASE UNCHANGED tfState
  BY <1>1 DEF MarkInv, tfState
<1>2. CASE ReadOk
  BY <1>2 DEF ReadOk, MarkInv
<1>3. CASE (\E i \in Ids \cup {NoId}, t \in BOOLEAN : Record(i, t)) \/ Drop
  BY <1>3 DEF MarkInv, Record, Drop
<1>4. CASE \E i \in Ids : Import(i)
  BY <1>4 DEF Import, MarkInv
<1>5. CASE CreateReadFails \/ CreateUpdateFails \/ CreateSave \/ UpdateSkipped \/ UpdateSave
             \/ WaitFails
  BY <1>1, <1>5
  DEF CreateReadFails, CreateUpdateFails, CreateSave, UpdateSkipped, UpdateSave, WaitFails,
      Record, MarkInv
<1>6. CASE ReadGone \/ ProbeGone \/ DeleteOk \/ WaitSucceeds
  BY <1>1, <1>3, <1>6 DEF ReadGone, ProbeGone, DeleteOk, WaitSucceeds
<1>7. CASE CreateStep \/ ReadStep \/ UpdateStep
  BY <1>1, <1>2, <1>5, <1>6, <1>7
  DEF CreateStep, CreateAcked, CreateReplyLost, CreateRefused, CreateReadOk, CreateMergeOk,
      CreateMergeFails, CreateUpdateOk, ReadStep, ReadFails, UpdateStep, UpdateRefreshes,
      UpdateSends, UpdateReadOk, UpdateReadFails, UpdatePutOk, UpdatePutFails
<1>8. CASE DeleteStep \/ WaitStep
  BY <1>1, <1>5, <1>6, <1>8
  DEF DeleteStep, ProbeSkips, ProbeTriggers, DeprovisionOk, DeprovisionFails, DeleteFails,
      WaitStep, WaitContinues
<1>9. CASE Terraform \/ Backend \/ Misfortune \/ People \/ UNCHANGED vars
  BY <1>1, <1>4, <1>9
  DEF Terraform, Apply, PlanStep, PlanDestroy, PlanUpdate, PlanNothing, Backend, Progress,
      Misfortune, Crash, Break, Recover, People, EditConfig, ConsoleEdits, ConsoleDeletes,
      ConsoleDeprovisions, ConsoleCreates, vars
<1> QED
  BY <1>7, <1>8, <1>9 DEF Next, Engine

(* A plan replaces an imported object only for a reason the configuration  *)
(* gives.                                                                  *)
THEOREM ImportKeepsObject == Spec => ImportedIsNotReplaced
<1> DEFINE Kept == pc = "plan" /\ pc' \in DeletePoints =>
                     ~wanted \/ tainted \/ (~spec.update /\ BodyChanged)
<1>1. Init => MarkInv
  BY DEF Init, MarkInv
<1>2. TypeOK /\ MarkInv /\ [Next]_vars => [Kept]_vars
  <2> SUFFICES ASSUME MarkInv, [Next]_vars, pc = "plan", pc' \in DeletePoints
               PROVE  ~wanted \/ tainted \/ (~spec.update /\ BodyChanged)
    OBVIOUS
  <2>1. PlanDestroy
    <3>1. "plan" \notin CreatePoints \cup UpdatePoints \cup DeletePoints \cup WaitPoints
      BY DEF CreatePoints, UpdatePoints, DeletePoints, WaitPoints
    <3>2. "idle" \notin DeletePoints /\ "update" \notin DeletePoints
      BY DEF DeletePoints
    <3>3. pc' # pc /\ pc' # "idle"
      BY <3>1, <3>2
    <3>4. ~Engine
      BY <3>1, <3>3
      DEF Engine, CreateStep, CreateAcked, CreateReplyLost, CreateRefused, CreateReadOk,
          CreateReadFails, CreateMergeOk, CreateMergeFails, CreateUpdateOk,
          CreateUpdateFails, CreateSave, ReadStep, ReadOk, ReadGone, ReadFails, UpdateStep,
          UpdateSkipped, UpdateRefreshes, UpdateSends, UpdateReadOk, UpdateReadFails,
          UpdatePutOk, UpdatePutFails, UpdateSave, DeleteStep, ProbeGone, ProbeSkips,
          ProbeTriggers, DeprovisionOk, DeprovisionFails, DeleteOk, DeleteFails, WaitStep,
          WaitContinues, WaitSucceeds, WaitFails, Poll
    <3>5. ~Backend /\ ~Misfortune /\ ~People /\ ~UNCHANGED vars
      BY <3>3
      DEF Backend, Progress, Misfortune, Crash, Finish, Break, Recover, People, EditConfig,
          ConsoleEdits, ConsoleDeletes, ConsoleDeprovisions, ConsoleCreates, Import, vars, op
    <3> QED
      BY <3>1, <3>2, <3>3, <3>4, <3>5
      DEF Next, Terraform, Apply, PlanStep, PlanUpdate, PlanNothing, Goto, Finish
  <2> QED
    BY <2>1 DEF PlanDestroy, NeedsReplace, MarkInv
<1> QED
  BY <1>1, <1>2, MarkStep, LifecycleTypeCorrect, PTL DEF Spec, ImportedIsNotReplaced

-----------------------------------------------------------------------------
(* The write-only secret. *)

(* Where the object an operation holds has the configured secret. *)
SentPoints == (CreatePoints \ {"create"})
                \cup {"updateRefresh", "updateWait", "updateRead", "updateSave"}

UpToDate(i) == Live(i) => secret[i] >= wantSecret

(* The state trails the configuration, and the object the state.  The      *)
(* configuration of an immutable resource keeps its first version.         *)
SecretInv ==
    /\ knownSecret <= wantSecret
    /\ SecretNeverOlder
    /\ pc \in SentPoints => UpToDate(opId)
    /\ pc \in {"updateMerge", "updatePut"} => spec.update
    /\ ~spec.update => \A i \in Ids : UpToDate(i)

(* Steps of the backend leave every object with a secret at least as new,  *)
(* or make a new one with the configured secret.                           *)
SecretsKept ==
    \A j \in Ids :
        Live(j)' => \/ Live(j) /\ secret'[j] >= secret[j]
                    \/ secret'[j] >= wantSecret

LEMMA SecretsStep ==
    ASSUME TypeOK, SecretInv, NEW i \in Ids,
           \/ UNCHANGED backend
           \/ Born(i)
           \/ \E b \in BOOLEAN : Put(i, b)
           \/ StartTeardown(i)
           \/ status[i] # "absent" /\ \E s \in Statuses : Become(i, s)
           \/ StartRemoval(i)
           \/ Vanish(i)
    PROVE  SecretsKept
<1> USE DEF TypeOK, Live, SecretsKept
<1>1. CASE UNCHANGED backend
  BY <1>1 DEF backend
<1>2. CASE Born(i)
  BY <1>2 DEF Born
<1>3. CASE StartTeardown(i)
  BY <1>3 DEF StartTeardown, CanTearDown
<1>4. CASE status[i] # "absent" /\ \E s \in Statuses : Become(i, s)
  BY <1>4 DEF Become
<1>5. CASE Vanish(i)
  BY <1>5 DEF Vanish
<1>6. CASE StartRemoval(i) /\ ~Vanish(i)
  BY <1>6 DEF StartRemoval
<1>7. CASE \E b \in BOOLEAN : Put(i, b)
  BY <1>7 DEF Put
<1> QED
  BY <1>1, <1>2, <1>3, <1>4, <1>5, <1>6, <1>7

(* An object that had the configured secret, or the one in state, keeps    *)
(* it over such a step.                                                    *)
LEMMA SecretsFollow ==
    ASSUME TypeOK, TypeOK', SecretInv, SecretsKept, UNCHANGED <<spec, wantSecret>>
    PROVE  /\ \A j \in Ids : UpToDate(j) => UpToDate(j)'
           /\ \A j \in Ids : j = tracked /\ Live(j)' => secret'[j] >= knownSecret
           /\ ~spec.update => \A j \in Ids : UpToDate(j)'
<1> USE DEF TypeOK, SecretInv, SecretsKept, UpToDate
<1>1. \A j \in Ids : secret[j] \in Nat /\ secret'[j] \in Nat
  OBVIOUS
<1>2. ASSUME NEW j \in Ids, UpToDate(j), Live(j)' PROVE secret'[j] >= wantSecret
  <2>1. CASE secret'[j] >= wantSecret
    BY <2>1
  <2>2. CASE Live(j) /\ secret'[j] >= secret[j]
    BY <1>1, <1>2, <2>2
  <2> QED
    BY <1>2, <2>1, <2>2
<1>3. \A j \in Ids : UpToDate(j) => UpToDate(j)'
  BY <1>2
<1>4. ASSUME NEW j \in Ids, j = tracked, Live(j)' PROVE secret'[j] >= knownSecret
  <2>1. CASE secret'[j] >= wantSecret
    BY <1>1, <2>1
  <2>2. CASE Live(j) /\ secret'[j] >= secret[j]
    <3>1. secret[j] >= knownSecret
      BY <1>4, <2>2, IdAssumption DEF SecretNeverOlder
    <3> QED
      BY <1>1, <2>2, <3>1
  <2> QED
    BY <1>4, <2>1, <2>2
<1> QED
  BY <1>3, <1>4

(* A step that records, keeps or drops the entry. *)
LEMMA SecretKept ==
    ASSUME TypeOK, TypeOK', SecretInv, SecretsKept, UNCHANGED <<spec, wantSecret>>,
           \/ tracked' = NoId /\ knownSecret' <= wantSecret
           \/ UNCHANGED <<tracked, knownSecret>>
           \/ tracked' = opId /\ knownSecret' = wantSecret
                /\ \A j \in Ids : j = opId => UpToDate(j) \/ UpToDate(j)',
           pc' \in SentPoints =>
             /\ opId' \in Ids
             /\ \A j \in Ids : j = opId' => UpToDate(j) \/ UpToDate(j)',
           pc' \in {"updateMerge", "updatePut"} => spec.update
    PROVE  SecretInv'
<1>1. knownSecret' <= wantSecret'
  BY DEF TypeOK, SecretInv
<1>2. SecretNeverOlder'
  <2> SUFFICES ASSUME tracked' # NoId, Live(tracked)' PROVE secret'[tracked'] >= knownSecret'
    BY DEF SecretNeverOlder
  <2>1. tracked' \in Ids
    BY DEF TypeOK
  <2>2. CASE UNCHANGED <<tracked, knownSecret>>
    BY <2>1, <2>2, SecretsFollow DEF Live
  <2>3. CASE tracked' = opId /\ knownSecret' = wantSecret
                /\ \A j \in Ids : j = opId => UpToDate(j) \/ UpToDate(j)'
    <3>1. \A j \in Ids : j = opId => UpToDate(j)'
      BY <2>3, SecretsFollow
    <3> QED
      BY <2>1, <2>3, <3>1 DEF UpToDate, Live
  <2> QED
    BY <2>2, <2>3
<1>3. pc' \in SentPoints => UpToDate(opId)'
  <2>1. \A j \in Ids : UpToDate(j)' <=> (status'[j] # "absent" => secret'[j] >= wantSecret')
    BY DEF UpToDate, Live
  <2> QED
    BY <2>1, SecretsFollow DEF UpToDate, Live
<1>4. ~spec'.update => \A i \in Ids : UpToDate(i)'
  BY SecretsFollow
<1> QED
  BY <1>1, <1>2, <1>3, <1>4 DEF SecretInv

LEMMA SecretCreate ==
    ASSUME TypeOK, TypeOK', PointInv, SecretInv, CreateStep
    PROVE  SecretInv'
<1>0. /\ pc \in CreatePoints
      /\ pc # "create" => opId \in Ids /\ UpToDate(opId)
      /\ UNCHANGED <<spec, wantSecret>>
  BY DEF CreateStep, CreateAcked, CreateReplyLost, CreateRefused, CreateReadOk,
         CreateReadFails, CreateMergeOk, CreateMergeFails, CreateUpdateOk,
         CreateUpdateFails, CreateSave, CreatePoints, PointInv, SecretInv, SentPoints, config
<1>1. SecretsKept
  <2>1. CASE UNCHANGED backend
    BY <2>1, SecretsStep DEF SecretsKept, backend, Live, TypeOK
  <2>2. CASE \E i \in Ids : CreateAcked(i) \/ CreateReplyLost(i)
    BY <2>2, SecretsStep DEF CreateAcked, CreateReplyLost
  <2>3. CASE CreateUpdateOk \/ CreateUpdateFails
    BY <1>0, <2>1, <2>3, SecretsStep DEF CreateUpdateOk, CreateUpdateFails
  <2> QED
    BY <2>1, <2>2, <2>3
    DEF CreateStep, CreateRefused, CreateReadOk, CreateReadFails, CreateMergeOk,
        CreateMergeFails, CreateSave
<1>2. ASSUME NEW i \in Ids, CreateAcked(i) PROVE SecretInv'
  <2>1. UpToDate(i)'
    BY <1>0, <1>2 DEF CreateAcked, Born, UpToDate, TypeOK
  <2> QED
    BY <1>0, <1>1, <1>2, <2>1, SecretKept
    DEF CreateAcked, tfState, AfterCreate, AfterReady
<1>3. ASSUME NEW i \in Ids, CreateReplyLost(i) PROVE SecretInv'
  BY <1>0, <1>1, <1>3, SecretKept
  DEF CreateReplyLost, Finish, tfState, SentPoints, CreatePoints
<1>4. CASE CreateRefused \/ CreateMergeFails
  BY <1>0, <1>1, <1>4, SecretKept
  DEF CreateRefused, CreateMergeFails, Finish, tfState, SentPoints, CreatePoints
<1>5. CASE CreateReadOk \/ CreateMergeOk \/ CreateUpdateOk
  BY <1>0, <1>1, <1>5, SecretKept
  DEF CreateReadOk, CreateMergeOk, CreateUpdateOk, Goto, tfState, AfterReady
<1>6. CASE CreateReadFails \/ CreateUpdateFails \/ CreateSave
  BY <1>0, <1>1, <1>6, SecretKept
  DEF CreateReadFails, CreateUpdateFails, CreateSave, Record, Finish, SentPoints, CreatePoints
<1> QED
  BY <1>2, <1>3, <1>4, <1>5, <1>6 DEF CreateStep

LEMMA SecretUpdate ==
    ASSUME TypeOK, TypeOK', PointInv, SecretInv, UpdateStep
    PROVE  SecretInv'
<1>0. /\ pc \in UpdatePoints
      /\ opId \in Ids /\ opId = tracked
      /\ UNCHANGED <<spec, wantSecret>>
  BY DEF UpdateStep, UpdateSkipped, UpdateRefreshes, UpdateSends, UpdateReadOk,
         UpdateReadFails, UpdatePutOk, UpdatePutFails, UpdateSave, UpdatePoints, PointInv,
         config
<1>1. SecretChanged \in BOOLEAN
  BY Zenon DEF SecretChanged
<1>2. SecretsKept
  <2>1. CASE UNCHANGED backend
    BY <2>1, SecretsStep DEF SecretsKept, backend, Live, TypeOK
  <2> QED
    BY <1>0, <1>1, <2>1, SecretsStep
    DEF UpdateStep, UpdateSkipped, UpdateRefreshes, UpdateSends, UpdateReadOk,
        UpdateReadFails, UpdatePutOk, UpdatePutFails, UpdateSave
(* An unchanged version is one the object already has. *)
<1>3. ASSUME ~SecretChanged PROVE UpToDate(opId)
  <2>1. CASE ~spec.update
    BY <1>0, <2>1 DEF SecretInv
  <2>2. CASE knownSecret = wantSecret
    BY <1>0, <2>2, IdAssumption DEF SecretInv, SecretNeverOlder, UpToDate
  <2>3. CASE wantSecret = 0
    BY <1>0, <2>3 DEF UpToDate, TypeOK
  <2> QED
    BY <1>3, <2>1, <2>2, <2>3 DEF SecretChanged
<1>4. CASE UpdateSkipped
  BY <1>0, <1>2, <1>3, <1>4, SecretKept
  DEF UpdateSkipped, Record, Finish, SentPoints, CreatePoints
<1>5. CASE UpdateRefreshes
  BY <1>0, <1>2, <1>3, <1>5, SecretKept
  DEF UpdateRefreshes, Goto, tfState, SecretChanged
<1>6. CASE UpdateSends
  BY <1>0, <1>2, <1>6, SecretKept DEF UpdateSends, Goto, tfState, SentPoints, CreatePoints
<1>7. CASE UpdateReadOk
  <2>1. pc # "updateMerge" => UpToDate(opId)
    BY <1>7 DEF UpdateReadOk, SecretInv, SentPoints
  <2>2. pc = "updateMerge" => spec.update
    BY DEF SecretInv
  <2>3. "updatePut" \notin SentPoints /\ "updateSave" \notin {"updateMerge", "updatePut"}
    BY DEF SentPoints, CreatePoints
  <2> QED
    BY <1>0, <1>2, <1>7, <2>1, <2>2, <2>3, SecretKept DEF UpdateReadOk, Goto, tfState
<1>8. CASE UpdateReadFails \/ UpdatePutFails
  BY <1>0, <1>2, <1>8, SecretKept
  DEF UpdateReadFails, UpdatePutFails, Finish, tfState, SentPoints, CreatePoints
<1>9. CASE UpdatePutOk
  <2>1. UpToDate(opId) \/ SecretChanged
    BY <1>3
  <2>2. SecretChanged => \A j \in Ids : j = opId => UpToDate(j)'
    BY <1>0, <1>9 DEF UpdatePutOk, Put, UpToDate, TypeOK
  <2>3. opId' = opId /\ UNCHANGED <<tracked, knownSecret>>
    BY <1>9 DEF UpdatePutOk, Goto, tfState
  <2>4. pc' \notin {"updateMerge", "updatePut"}
    BY <1>9 DEF UpdatePutOk, Goto
  <2> QED
    BY <1>0, <1>2, <2>1, <2>2, <2>3, <2>4, SecretKept
<1>10. CASE UpdateSave
  BY <1>0, <1>2, <1>10, SecretKept
  DEF UpdateSave, Record, Finish, SecretInv, SentPoints, CreatePoints
<1> QED
  BY <1>4, <1>5, <1>6, <1>7, <1>8, <1>9, <1>10 DEF UpdateStep

LEMMA SecretEngine ==
    ASSUME TypeOK, TypeOK', PointInv, SecretInv, ReadStep \/ DeleteStep \/ WaitStep
    PROVE  SecretInv'
<1>0. /\ pc \in {"read"} \cup DeletePoints \cup WaitPoints
      /\ opId \in Ids
      /\ pc \in WaitPoints => pc \in SentPoints \cup DeletePoints
      /\ UNCHANGED <<spec, wantSecret>>
  BY DEF ReadStep, ReadOk, ReadGone, ReadFails, DeleteStep, ProbeGone, ProbeSkips,
         ProbeTriggers, DeprovisionOk, DeprovisionFails, DeleteOk, DeleteFails, WaitStep,
         WaitContinues, WaitSucceeds, WaitFails, Poll, WaitPoints, CreatePoints,
         UpdatePoints, DeletePoints, SentPoints, PointInv, config
<1>1. SecretsKept
  <2>1. CASE UNCHANGED backend
    BY <2>1, SecretsStep DEF SecretsKept, backend, Live, TypeOK
  <2> QED
    BY <1>0, <2>1, SecretsStep
    DEF ReadStep, ReadOk, ReadGone, ReadFails, DeleteStep, ProbeGone, ProbeSkips,
        ProbeTriggers, DeprovisionOk, DeprovisionFails, DeleteOk, DeleteFails, WaitStep,
        WaitContinues, WaitSucceeds, WaitFails
<1>2. /\ "idle" \notin SentPoints
      /\ "plan" \notin SentPoints
      /\ DeletePoints \cap SentPoints = {}
      /\ {"idle", "plan"} \cap {"updateMerge", "updatePut"} = {}
      /\ DeletePoints \cap {"updateMerge", "updatePut"} = {}
      /\ WaitPoints \cap {"updateMerge", "updatePut"} = {}
  BY DEF SentPoints, CreatePoints, DeletePoints, WaitPoints
<1>3. CASE ReadStep
  BY <1>0, <1>1, <1>2, <1>3, SecretKept
  DEF ReadStep, ReadOk, ReadGone, ReadFails, Goto, Finish, Drop, TypeOK, tfState
<1>4. CASE DeleteStep
  BY <1>0, <1>1, <1>2, <1>4, SecretKept
  DEF DeleteStep, ProbeGone, ProbeSkips, ProbeTriggers, DeprovisionOk, DeprovisionFails,
      DeleteOk, DeleteFails, Goto, Finish, Drop, TypeOK, tfState, DeletePoints
<1>5. CASE WaitContinues
  <2>1. pc \in WaitPoints
    BY <1>5 DEF WaitContinues, Poll
  <2> QED
    BY <1>0, <1>1, <1>2, <1>5, <2>1, SecretKept DEF WaitContinues, tfState, SecretInv
<1>6. CASE WaitSucceeds
  <2>1. CASE pc \in {"deprovisionWait", "goneWait"}
    BY <1>0, <1>1, <1>2, <1>6, <2>1, SecretKept
    DEF WaitSucceeds, Goto, Finish, Drop, TypeOK, tfState, DeletePoints
  <2>2. CASE pc \notin {"deprovisionWait", "goneWait"}
    <3>1. pc \in SentPoints
      BY <1>6, <2>2 DEF WaitSucceeds, SentPoints, CreatePoints
    <3> QED
      BY <1>0, <1>1, <1>6, <2>2, <3>1, SecretKept
      DEF WaitSucceeds, Goto, AfterReady, tfState, SecretInv
  <2> QED
    BY <2>1, <2>2
<1>7. CASE WaitFails
  <2>1. pc \in CreatePoints => UpToDate(opId)
    BY <1>0, <1>7 DEF WaitFails, Poll, WaitPoints, CreatePoints, SentPoints, SecretInv
  <2> QED
    BY <1>0, <1>1, <1>2, <1>7, <2>1, SecretKept
    DEF WaitFails, Record, Finish, tfState
<1> QED
  BY <1>3, <1>4, <1>5, <1>6, <1>7 DEF WaitStep

LEMMA SecretWorld ==
    ASSUME TypeOK, TypeOK', PointInv, SecretInv,
           Terraform \/ Backend \/ Misfortune \/ People
    PROVE  SecretInv'
<1>0. /\ {"read", "create", "plan", "idle", "update"} \cap SentPoints = {}
      /\ DeletePoints \cap SentPoints = {}
      /\ DeletePoints \cap {"updateMerge", "updatePut"} = {}
  BY DEF SentPoints, CreatePoints, DeletePoints
<1>1. CASE Terraform
  <2>1. SecretsKept
    BY <1>1
    DEF Terraform, Apply, PlanStep, PlanDestroy, PlanUpdate, PlanNothing, SecretsKept,
        backend, Live, TypeOK
  <2> QED
    BY <1>0, <1>1, <2>1, SecretKept
    DEF Terraform, Apply, PlanStep, PlanDestroy, PlanUpdate, PlanNothing, Goto, Finish,
        tfState, config, DeletePoints
<1>2. ASSUME SecretsKept, UNCHANGED <<spec, tfState, config, op>> PROVE SecretInv'
  <2>1. opId \in Ids \/ pc \notin SentPoints
    BY DEF PointInv, SentPoints, CreatePoints, UpdatePoints
  <2> QED
    BY <1>2, <2>1, SecretKept DEF tfState, config, op, SecretInv
<1>3. ASSUME NEW i \in Ids,
             \/ Progress(i) \/ Break(i) \/ Recover(i)
             \/ ConsoleDeletes(i) \/ ConsoleDeprovisions(i) \/ ConsoleCreates(i)
      PROVE  SecretInv'
  <2>1. \/ Born(i) \/ StartTeardown(i) \/ Vanish(i)
        \/ status[i] # "absent" /\ \E s \in Statuses : Become(i, s)
    BY <1>3, StatusAssumption, BackendStatusAssumption
    DEF Progress, Break, Recover, ConsoleDeletes, ConsoleDeprovisions, ConsoleCreates,
        ProvisionOk, TeardownRuns, TeardownOk, WorkStatuses
  <2>2. UNCHANGED <<spec, tfState, config, op>>
    BY <1>3
    DEF Progress, Break, Recover, ConsoleDeletes, ConsoleDeprovisions, ConsoleCreates
  <2> QED
    BY <1>2, <2>1, <2>2, SecretsStep
<1>4. CASE Crash
  <2>1. SecretsKept
    BY <1>4 DEF Crash, SecretsKept, backend, Live, TypeOK
  <2> QED
    BY <1>0, <1>4, <2>1, SecretKept DEF Crash, Finish, tfState, config
(* Only an updatable resource has a write-only secret to rotate. *)
<1>5. CASE EditConfig
  <2>1. UNCHANGED <<spec, status, secret, tracked, knownSecret, pc, opId>>
    BY <1>5 DEF EditConfig, backend, tfState, op
  <2>2. wantSecret' = wantSecret \/ (spec.update /\ wantSecret' = wantSecret + 1)
    BY <1>5 DEF EditConfig
  <2>3. pc \notin SentPoints
    BY <1>0, <1>5 DEF EditConfig
  <2>4. SecretNeverOlder'
    BY <2>1 DEF SecretInv, SecretNeverOlder, Live
  <2>5. knownSecret' <= wantSecret'
    BY <2>1, <2>2 DEF SecretInv, TypeOK
  <2>6. ~spec'.update => \A i \in Ids : UpToDate(i)'
    BY <2>1, <2>2 DEF SecretInv, UpToDate, Live
  <2> QED
    BY <2>1, <2>3, <2>4, <2>5, <2>6 DEF SecretInv
<1>6. ASSUME NEW i \in Ids, ConsoleEdits(i) PROVE SecretInv'
  BY <1>2, <1>6 DEF ConsoleEdits, SecretsKept, Live, TypeOK
<1>7. ASSUME NEW i \in Ids, Import(i) PROVE SecretInv'
  <2>1. UNCHANGED <<spec, status, secret, wantSecret, pc, opId>>
    BY <1>7 DEF Import, backend, config, op
  <2>2. knownSecret' = 0
    BY <1>7 DEF Import
  <2>3. SecretNeverOlder' /\ knownSecret' <= wantSecret'
    BY <2>1, <2>2 DEF SecretNeverOlder, TypeOK
  <2>4. pc \notin SentPoints
    BY <1>0, <1>7 DEF Import
  <2> QED
    BY <2>1, <2>3, <2>4 DEF SecretInv, UpToDate, Live
<1> QED
  BY <1>1, <1>3, <1>4, <1>5, <1>6, <1>7 DEF Backend, Misfortune, People

LEMMA SecretInit == Init => SecretInv
  BY DEF Init, SecretInv, SecretNeverOlder, UpToDate, Live, SentPoints, CreatePoints

LEMMA SecretStep ==
    TypeOK /\ TypeOK' /\ PointInv /\ SecretInv /\ [Next]_vars => SecretInv'
<1> SUFFICES ASSUME TypeOK, TypeOK', PointInv, SecretInv, [Next]_vars PROVE SecretInv'
  OBVIOUS
<1>1. CASE UNCHANGED vars
  BY <1>1
  DEF vars, SecretInv, SecretNeverOlder, UpToDate, Live, backend, tfState, config, op
<1> QED
  BY <1>1, SecretCreate, SecretUpdate, SecretEngine, SecretWorld DEF Next, Engine

(* The recorded version of a write-only secret is never newer than the one *)
(* the backend holds.                                                      *)
THEOREM SecretStateTrailsBackend == Spec => []SecretNeverOlder
<1>1. TypeOK /\ PointInv /\ SecretInv /\ [Next]_vars => SecretInv'
  BY TypeStep, SecretStep
<1>2. Spec => [](TypeOK /\ PointInv /\ SecretInv)
  BY <1>1, TypeInit, TypeStep, SecretInit, PTL DEF Spec
<1>3. SecretInv => SecretNeverOlder
  BY DEF SecretInv
<1> QED
  BY <1>2, <1>3, PTL
-----------------------------------------------------------------------------
(* The refinement of Ownership. *)

Existing == {i \in Ids : Live(i)}

(* What the ways the backend changes do to the set of objects. *)
LEMMA ExistingSame ==
    ASSUME TypeOK, NEW i \in Ids,
           \/ UNCHANGED backend
           \/ \E b \in BOOLEAN : Put(i, b)
           \/ StartTeardown(i)
           \/ status[i] # "absent" /\ \E s \in Statuses : Become(i, s)
           \/ StartRemoval(i) /\ spec.waiter
    PROVE  Existing' = Existing
<1> USE StatusAssumption, BackendStatusAssumption DEF TypeOK, Existing, Live, WorkStatuses
<1>1. CASE UNCHANGED backend
  BY <1>1 DEF backend
<1>2. CASE \E b \in BOOLEAN : Put(i, b)
  BY <1>2 DEF Put
<1>3. CASE StartTeardown(i)
  BY <1>3 DEF StartTeardown, CanTearDown
<1>4. CASE status[i] # "absent" /\ \E s \in Statuses : Become(i, s)
  BY <1>4 DEF Become
<1>5. CASE StartRemoval(i) /\ spec.waiter
  BY <1>5 DEF StartRemoval
<1> QED
  BY <1>1, <1>2, <1>3, <1>4, <1>5

LEMMA ExistingGrows ==
    ASSUME TypeOK, NEW i \in Ids, Born(i)
    PROVE  i \notin Existing /\ Existing' = Existing \cup {i}
  BY StatusAssumption, BackendStatusAssumption
  DEF TypeOK, Existing, Live, WorkStatuses, Born

LEMMA ExistingShrinks ==
    ASSUME TypeOK, NEW i \in Ids, Vanish(i)
    PROVE  Existing' = Existing \ {i}
  BY DEF TypeOK, Existing, Live, Vanish

(* Steps of Ownership, told by the objects, the owned one and the crashes. *)
LEMMA OwnedSteps ==
    /\ UNCHANGED <<Existing, Owner, crashes>> => [Owned!Next]_Owned!vars
    /\ crashes' = crashes =>
         \A i \in Ids :
           /\ Owner = NoId /\ i \notin Existing /\ Existing' = Existing \cup {i} /\ Owner' = i
                => Owned!Next
           /\ Owner = NoId /\ i \in Existing /\ Existing' = Existing /\ Owner' = i
                => Owned!Next
           /\ i \notin Existing /\ i # Owner /\ Existing' = Existing \cup {i} /\ Owner' = Owner
                => Owned!Next
           /\ i \in Existing /\ Existing' = Existing \ {i} /\ Owner' = Owner
                => Owned!Next
           /\ Owner = i /\ i \in Existing /\ Existing' = Existing \ {i} /\ Owner' = NoId
                => Owned!Next
    /\ crashes' = crashes /\ Owner \notin Existing /\ Existing' = Existing /\ Owner' = NoId
         => Owned!Next
    /\ crashes' = crashes + 1 /\ Existing' = Existing /\ Owner' \in {Owner, NoId}
         => Owned!Next
  BY DEF Existing, Owned!Next, Owned!vars, Owned!Acquire, Owned!Adopt, Owned!Appear,
         Owned!Disappear, Owned!Release, Owned!RemoveOwned, Owned!Crash

LEMMA OwnedCreate ==
    ASSUME TypeOK, PointInv, AckInv, CreateStep
    PROVE  [Owned!Next]_Owned!vars
<1>0. /\ spec' = spec
      /\ crashes' = crashes
      /\ tracked = NoId
      /\ pc = "create" => opId = NoId
      /\ pc # "create" => opId \in Ids
  BY DEF CreateStep, CreateAcked, CreateReplyLost, CreateRefused, CreateReadOk,
         CreateReadFails, CreateMergeOk, CreateMergeFails, CreateUpdateOk,
         CreateUpdateFails, CreateSave, CreatePoints, PointInv
<1> USE <1>0, OwnedSteps, IdAssumption DEF Owner, FollowUpMerges
<1>1. ASSUME NEW i \in Ids, CreateAcked(i) PROVE [Owned!Next]_Owned!vars
  BY <1>1, ExistingGrows DEF CreateAcked, tfState
<1>2. ASSUME NEW i \in Ids, CreateReplyLost(i) PROVE [Owned!Next]_Owned!vars
  BY <1>2, ExistingGrows DEF CreateReplyLost, Finish, tfState
<1>3. CASE CreateRefused
  BY <1>3 DEF CreateRefused, Finish, tfState, backend, Existing, Live
<1>4. CASE CreateReadOk \/ CreateMergeOk
  BY <1>4 DEF CreateReadOk, CreateMergeOk, Goto, tfState, backend, Existing, Live
<1>5. CASE CreateReadFails \/ CreateSave
  BY <1>5 DEF CreateReadFails, CreateSave, Record, Finish, backend, Existing, Live
<1>6. CASE CreateMergeFails
  BY <1>6 DEF CreateMergeFails, Finish, backend, Existing, Live, AckInv
<1>7. CASE CreateUpdateOk \/ CreateUpdateFails
  <2>1. Existing' = Existing
    BY <1>7, ExistingSame DEF CreateUpdateOk, CreateUpdateFails
  <2> QED
    BY <1>7, <2>1 DEF CreateUpdateOk, CreateUpdateFails, Goto, Record, Finish, tfState
<1> QED
  BY <1>1, <1>2, <1>3, <1>4, <1>5, <1>6, <1>7 DEF CreateStep

LEMMA OwnedEngine ==
    ASSUME TypeOK, PointInv, ReadStep \/ UpdateStep \/ DeleteStep \/ WaitStep
    PROVE  [Owned!Next]_Owned!vars
<1>0. /\ spec' = spec
      /\ crashes' = crashes
      /\ opId \in Ids
      /\ pc \in {"read"} \cup UpdatePoints \cup DeletePoints => opId = tracked
      /\ pc \in CreatePoints => tracked = NoId
  BY DEF ReadStep, ReadOk, ReadGone, ReadFails, UpdateStep, UpdateSkipped, UpdateRefreshes,
         UpdateSends, UpdateReadOk, UpdateReadFails, UpdatePutOk, UpdatePutFails, UpdateSave,
         DeleteStep, ProbeGone, ProbeSkips, ProbeTriggers, DeprovisionOk, DeprovisionFails,
         DeleteOk, DeleteFails, WaitStep, WaitContinues, WaitSucceeds, WaitFails, Poll,
         PointInv, WaitPoints, CreatePoints, UpdatePoints, DeletePoints
<1> USE <1>0, OwnedSteps, IdAssumption DEF Owner, FollowUpMerges
(* The entry of an object that is gone is dropped. *)
<1>1. ASSUME opId = tracked, ~Live(opId), UNCHANGED backend, Drop, opId' \in {NoId, opId}
      PROVE  [Owned!Next]_Owned!vars
  <2>1. Existing' = Existing /\ opId \notin Existing
    BY <1>1 DEF backend, Existing, Live
  <2> QED
    BY <1>1, <2>1 DEF Drop
<1>2. CASE ReadStep
  BY <1>1, <1>2 DEF ReadStep, ReadOk, ReadGone, ReadFails, Goto, Finish, tfState, backend,
                    Existing, Live
<1>3. CASE UpdateStep
  <2>1. opId = tracked
    BY <1>3 DEF UpdateStep, UpdateSkipped, UpdateRefreshes, UpdateSends, UpdateReadOk,
                UpdateReadFails, UpdatePutOk, UpdatePutFails, UpdateSave, UpdatePoints
  <2>2. CASE UNCHANGED backend
    <3>1. Existing' = Existing
      BY <2>2 DEF backend, Existing, Live
    <3> QED
      BY <1>3, <2>1, <3>1
      DEF UpdateStep, UpdateSkipped, UpdateRefreshes, UpdateSends, UpdateReadOk,
          UpdateReadFails, UpdatePutOk, UpdatePutFails, UpdateSave, Goto, Finish, Record,
          tfState
  <2>3. CASE UpdatePutOk \/ UpdatePutFails
    <3>1. SecretChanged \in BOOLEAN
      BY Zenon DEF SecretChanged
    <3>2. Existing' = Existing
      BY <2>3, <3>1, ExistingSame DEF UpdatePutOk, UpdatePutFails
    <3> QED
      BY <2>1, <2>3, <3>2 DEF UpdatePutOk, UpdatePutFails, Goto, Finish, tfState
  <2> QED
    BY <1>3, <2>2, <2>3
    DEF UpdateStep, UpdateSkipped, UpdateRefreshes, UpdateSends, UpdateReadOk,
        UpdateReadFails, UpdateSave
<1>4. CASE DeleteStep
  <2>0. opId = tracked
    BY <1>4 DEF DeleteStep, ProbeGone, ProbeSkips, ProbeTriggers, DeprovisionOk,
                DeprovisionFails, DeleteOk, DeleteFails, DeletePoints
  <2>1. CASE ProbeGone
    BY <1>1, <2>0, <2>1 DEF ProbeGone, Finish
  <2>2. CASE ProbeSkips \/ ProbeTriggers
    BY <2>2 DEF ProbeSkips, ProbeTriggers, Goto, tfState, backend, Existing, Live
  <2>3. CASE DeprovisionOk \/ DeprovisionFails
    <3>1. Existing' = Existing
      BY <2>3, ExistingSame DEF DeprovisionOk, DeprovisionFails
    <3> QED
      BY <2>0, <2>3, <3>1 DEF DeprovisionOk, DeprovisionFails, Goto, Finish, tfState
  <2>4. CASE DeleteOk \/ DeleteFails
    <3>1. CASE Live(opId) /\ Vanish(opId)
      <4>1. opId \in Existing /\ Existing' = Existing \ {opId}
        BY <3>1, ExistingShrinks DEF Existing
      <4>2. Owner' \in {Owner, NoId}
        BY <2>0, <2>4 DEF DeleteOk, DeleteFails, Goto, Finish, Drop, tfState
      <4>3. Owner \in {opId, NoId}
        BY <2>0
      <4> QED
        BY <4>1, <4>2, <4>3
    <3>2. CASE StartRemoval(opId) /\ spec.waiter
      <4>1. Existing' = Existing
        BY <3>2, ExistingSame
      <4> QED
        BY <2>0, <2>4, <3>2, <4>1 DEF DeleteOk, DeleteFails, Goto, Finish, tfState
    <3>3. CASE DeleteOk /\ ~Live(opId) /\ UNCHANGED <<backend, acked>>
      <4>1. CASE spec.waiter
        BY <3>3, <4>1 DEF DeleteOk, Goto, tfState, backend, Existing, Live
      <4>2. CASE ~spec.waiter
        BY <1>1, <2>0, <3>3, <4>2 DEF DeleteOk, Finish
      <4> QED
        BY <4>1, <4>2
    <3>4. CASE DeleteFails /\ UNCHANGED <<backend, acked>>
      BY <2>0, <3>4 DEF DeleteFails, Finish, tfState, backend, Existing, Live
    <3> QED
      BY <2>4, <3>1, <3>2, <3>3, <3>4 DEF DeleteOk, DeleteFails, StartRemoval
  <2> QED
    BY <1>4, <2>1, <2>2, <2>3, <2>4 DEF DeleteStep
<1>5. CASE WaitStep
  <2>0. Existing' = Existing
    BY <1>5 DEF WaitStep, WaitContinues, WaitSucceeds, WaitFails, backend, Existing, Live
  <2>1. CASE WaitContinues
    BY <2>0, <2>1 DEF WaitContinues, tfState
  <2>2. CASE WaitSucceeds
    <3>1. CASE pc = "goneWait"
      <4>1. ~Live(opId)
        BY <2>2, <3>1 DEF WaitSucceeds, Poll, Reached, Target, LoopAt, Errors
      <4>2. opId = tracked /\ Drop /\ Finish /\ UNCHANGED backend
        BY <2>2, <3>1 DEF WaitSucceeds, DeletePoints
      <4> QED
        BY <1>1, <4>1, <4>2 DEF Finish
    <3>2. CASE pc # "goneWait"
      BY <2>0, <2>2, <3>2 DEF WaitSucceeds, Goto, tfState
    <3> QED
      BY <3>1, <3>2
  <2>3. CASE WaitFails
    <3>1. pc \notin CreatePoints => opId = tracked
      BY <2>3 DEF WaitFails, Poll, WaitPoints, CreatePoints, UpdatePoints, DeletePoints
    <3> QED
      BY <2>0, <2>3, <3>1 DEF WaitFails, Record, Finish, tfState
  <2> QED
    BY <1>5, <2>1, <2>2, <2>3 DEF WaitStep
<1> QED
  BY <1>2, <1>3, <1>4, <1>5

LEMMA OwnedWorld ==
    ASSUME TypeOK, PointInv, Terraform \/ Backend \/ Misfortune \/ People
    PROVE  [Owned!Next]_Owned!vars
<1>0. spec' = spec /\ (crashes' = crashes \/ Crash)
  BY DEF Terraform, Apply, PlanStep, PlanDestroy, PlanUpdate, PlanNothing, Backend, Progress,
         Misfortune, Break, Recover, Crash, People, EditConfig, ConsoleEdits, ConsoleDeletes,
         ConsoleDeprovisions, ConsoleCreates, Import
<1> USE <1>0, OwnedSteps, IdAssumption DEF Owner, FollowUpMerges
<1>1. CASE Terraform
  BY <1>1 DEF Terraform, Apply, PlanStep, PlanDestroy, PlanUpdate, PlanNothing, Goto, Finish,
              PointInv, tfState, backend, Existing, Live
<1>2. ASSUME NEW i \in Ids, Live(i), Vanish(i), UNCHANGED <<tfState, op, crashes>>
      PROVE  [Owned!Next]_Owned!vars
  <2>1. i \in Existing /\ Existing' = Existing \ {i}
    BY <1>2, ExistingShrinks DEF Existing
  <2> QED
    BY <1>2, <2>1 DEF tfState, op
<1>3. ASSUME NEW i \in Ids, ~Live(i), Vanish(i), UNCHANGED <<tfState, op, crashes>>
      PROVE  [Owned!Next]_Owned!vars
  <2>1. Existing' = Existing
    BY <1>3, ExistingShrinks DEF Existing
  <2> QED
    BY <1>3, <2>1 DEF tfState, op
<1>4. ASSUME NEW i \in Ids,
             \/ UNCHANGED backend
             \/ StartTeardown(i)
             \/ status[i] # "absent" /\ \E s \in Statuses : Become(i, s),
             UNCHANGED <<tfState, op, crashes>>
      PROVE  [Owned!Next]_Owned!vars
  <2>1. Existing' = Existing
    BY <1>4, ExistingSame
  <2> QED
    BY <1>4, <2>1 DEF tfState, op
<1>5. ASSUME NEW i \in Ids, Progress(i) \/ Break(i) \/ Recover(i)
      PROVE  [Owned!Next]_Owned!vars
  <2>1. \/ Vanish(i)
        \/ status[i] # "absent" /\ \E s \in Statuses : Become(i, s)
    BY <1>5, StatusAssumption, BackendStatusAssumption
    DEF Progress, Break, Recover, ProvisionOk, TeardownRuns, TeardownOk, WorkStatuses
  <2>2. UNCHANGED <<tfState, op, crashes>>
    BY <1>5 DEF Progress, Break, Recover
  <2> QED
    BY <1>2, <1>3, <1>4, <2>1, <2>2
<1>6. CASE Crash
  <2>1. Existing' = Existing /\ opId' = NoId /\ tracked' = tracked /\ crashes' = crashes + 1
    BY <1>6 DEF Crash, Finish, tfState, backend, Existing, Live
  <2>2. opId = tracked \/ tracked = NoId
    BY <1>6 DEF Crash, PointInv, TypeOK, Points
  <2> QED
    BY <2>1, <2>2
<1>7. CASE EditConfig \/ \E i \in Ids : ConsoleEdits(i)
  BY <1>7 DEF EditConfig, ConsoleEdits, tfState, op, backend, Existing, Live
<1>8. ASSUME NEW i \in Ids, ConsoleDeletes(i) \/ ConsoleDeprovisions(i)
      PROVE  [Owned!Next]_Owned!vars
  BY <1>2, <1>4, <1>8 DEF ConsoleDeletes, ConsoleDeprovisions
<1>9. ASSUME NEW i \in Ids, ConsoleCreates(i) PROVE [Owned!Next]_Owned!vars
  BY <1>9, ExistingGrows DEF ConsoleCreates, Born, tfState, op
<1>10. ASSUME NEW i \in Ids, Import(i) PROVE [Owned!Next]_Owned!vars
  <2>1. /\ i \in Existing
        /\ Existing' = Existing
        /\ tracked = NoId /\ opId = NoId
        /\ tracked' = i /\ opId' = NoId
        /\ crashes' = crashes
    BY <1>10 DEF Import, PointInv, op, backend, Existing, Live
  <2> QED
    BY <2>1
<1> QED
  BY <1>1, <1>5, <1>6, <1>7, <1>8, <1>9, <1>10 DEF Backend, Misfortune, People

LEMMA OwnedInit == Init => Owned!Init
  BY DEF Init, Owned!Init, Owner, Live

LEMMA OwnedStep ==
    TypeOK /\ PointInv /\ AckInv /\ [Next]_vars => [Owned!Next]_Owned!vars
<1> SUFFICES ASSUME TypeOK, PointInv, AckInv, [Next]_vars
             PROVE  [Owned!Next]_Owned!vars
  OBVIOUS
<1>1. CASE UNCHANGED vars
  BY <1>1, OwnedSteps
  DEF vars, Owner, FollowUpMerges, Existing, Live, backend, tfState, op
<1> QED
  BY <1>1, OwnedCreate, OwnedEngine, OwnedWorld DEF Next, Engine

(* The engine implements Ownership: whatever fails, and whoever else       *)
(* changes the backend, each of its steps takes on one object while it     *)
(* owns none, lets go of one that no longer exists, or is none of          *)
(* Ownership's business; only a crash loses an object.                     *)
THEOREM EngineKeepsOwnership == Spec => OwnershipKept
<1>1. Spec => [](TypeOK /\ PointInv /\ AckInv)
  BY TypeInit, TypeStep, AckInit, AckStep, PTL DEF Spec
<1>2. TypeOK /\ PointInv /\ AckInv /\ [Next]_vars => [Owned!Next]_Owned!vars
  BY OwnedStep
<1> QED
  BY <1>1, <1>2, OwnedInit, PTL DEF Spec, OwnershipKept, Owned!Spec
=============================================================================
