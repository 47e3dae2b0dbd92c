-------------------------- MODULE SingleIntentProofs --------------------------
(***************************************************************************)
(* Proofs about SingleIntentUpdate, for every number of attributes, every  *)
(* set of values, every division of the body and every bound.              *)
(***************************************************************************)
EXTENDS SingleIntentUpdate, WellFoundedInduction, TLAPS

(* The change whose turn it is is one of those left. *)
LEMMA CurrentIsLeft ==
    ASSUME changes \subseteq Intents, changes # {}
    PROVE  Current \in changes /\ Current \in Intents
  <1>1. changes \subseteq Nat
    BY IntentAssumption DEF Intents
  <1>2. PICK i \in changes : \A j \in changes : ~ (<<j, i>> \in OpToRel(<, Nat))
    BY <1>1, WFMin, NatLessThanWellFounded
  <1>3. \A j \in changes : i <= j
    <2> TAKE j \in changes
    <2>1. i \in Nat /\ j \in Nat
      BY <1>1
    <2>2. OpToRel(<, Nat) = {ss \in Nat \X Nat : ss[1] < ss[2]}
      BY Zenon DEF OpToRel
    <2>3. ~ (j < i)
      BY <1>2, <2>1, <2>2
    <2> QED
      BY <2>1, <2>3
  <1> QED
    BY <1>3 DEF Current

LEMMA BudgetType ==
    ASSUME TypeOK,
           \/ Fault
           \/ Edit
           \/ UNCHANGED <<faults, edits>>
    PROVE  faults' \in 0 .. MaxFaults /\ edits' \in 0 .. MaxEdits
  BY BudgetAssumption DEF TypeOK, Fault, Edit

(* What a call that the backend takes leaves behind. *)
LEMMA AcceptType ==
    ASSUME TypeOK, pc = "put", Accept
    PROVE  /\ phase' \in {"updating", "queued"}
           /\ late' \in BOOLEAN
           /\ ~late' => ~late /\ phase' = "updating"
           /\ target' \in Attributes
           /\ own' \in 1 .. N
           /\ actual' = actual
  <1>1. Current \in Intents
    BY CurrentIsLeft DEF TypeOK
  <1>2. PICK base \in {actual, target}, extra \in {{}, InBody} :
          target' = [i \in Intents |->
                       IF i \in extra \cup {Current} THEN want[i] ELSE base[i]]
    BY DEF Accept
  <1>3. base \in Attributes /\ want \in Attributes
    BY DEF TypeOK
  <1>4. target' \in Attributes
    BY <1>2, <1>3 DEF Attributes
  <1>5. /\ phase' \in {"updating", "queued"}
        /\ late' \in BOOLEAN
        /\ ~late' => ~late /\ phase' = "updating"
        /\ own' = Current
        /\ actual' = actual
    BY DEF Accept, TypeOK
  <1> QED
    BY <1>1, <1>4, <1>5 DEF Intents

LEMMA TypeInit == Init => TypeOK
  <1> SUFFICES ASSUME Init PROVE TypeOK
    OBVIOUS
  <1>1. faults \in 0 .. MaxFaults /\ edits \in 0 .. MaxEdits /\ own \in 0 .. N
    BY BudgetAssumption, IntentAssumption DEF Init
  <1> QED
    BY <1>1 DEF Init, TypeOK

LEMMA EngineType == TypeOK /\ Engine => TypeOK'
  <1> SUFFICES ASSUME TypeOK, Engine PROVE TypeOK'
    OBVIOUS
  <1>1. CASE ReadOk \/ PlanNothing
    BY <1>1, BudgetType DEF TypeOK, ReadOk, PlanNothing, backend, config, history
  <1>2. CASE UpdateReadsOnly
    <2>1. faults' \in 0 .. MaxFaults /\ edits' \in 0 .. MaxEdits
      BY <1>2, BudgetType DEF UpdateReadsOnly
    <2>2. other' \in BOOLEAN
      BY <1>2 DEF UpdateReadsOnly, TypeOK
    <2> QED
      BY <1>2, <2>1, <2>2 DEF TypeOK, UpdateReadsOnly, backend, history
  <1>3. CASE UpdateStarts
    BY <1>3, BudgetType DEF TypeOK, UpdateStarts, Changed, backend, config, history
  <1>4. CASE WaitSucceeds
    <2>1. \/ pc' = "put" /\ pc = "before"
          \/ pc' = "before" /\ changes # {}
          \/ pc' = "get" /\ changes = {}
      BY <1>4 DEF WaitSucceeds
    <2> QED
      BY <1>4, <2>1 DEF TypeOK, WaitSucceeds, backend, config, history
  <1>5. CASE WaitFails \/ GetFails
    <2>1. faults' \in 0 .. MaxFaults /\ edits' \in 0 .. MaxEdits
      BY <1>5, BudgetType DEF WaitFails, GetFails
    <2>2. UNCHANGED <<backend, own, late>> /\ Abandon
      BY <1>5 DEF WaitFails, GetFails
    <2> QED
      BY <2>1, <2>2 DEF TypeOK, Abandon, backend, config
  <1>6. CASE PutOk
    <2>1. /\ phase' \in {"updating", "queued"}
          /\ late' \in BOOLEAN
          /\ ~late' => phase' = "updating"
          /\ target' \in Attributes /\ own' \in 1 .. N /\ actual' = actual
      BY <1>6, AcceptType DEF PutOk
    <2> QED
      BY <1>6, <2>1, IntentAssumption DEF TypeOK, PutOk, config
  <1>7. CASE PutFails
    <2>1. faults' \in 0 .. MaxFaults /\ edits' \in 0 .. MaxEdits
      BY <1>7, BudgetType DEF PutFails
    <2>2. /\ phase' \in {"ready", "queued", "updating", "failed"}
          /\ late' \in BOOLEAN
          /\ phase' = "queued" => late'
          /\ actual' \in Attributes /\ target' \in Attributes
          /\ own' \in 0 .. N
      <3>1. CASE Accept
        BY <1>7, <3>1, AcceptType, IntentAssumption DEF PutFails, TypeOK
      <3>2. CASE UNCHANGED <<backend, own, late>>
        BY <3>2 DEF TypeOK, backend
      <3> QED
        BY <1>7, <3>1, <3>2 DEF PutFails
    <2> QED
      BY <1>7, <2>1, <2>2 DEF TypeOK, PutFails, Abandon, config
  <1>8. CASE GetOk
    BY <1>8, BudgetType DEF TypeOK, GetOk, backend, history
  <1> QED
    BY <1>1, <1>2, <1>3, <1>4, <1>5, <1>6, <1>7, <1>8 DEF Engine

LEMMA OthersType == TypeOK /\ (Backend \/ People) => TypeOK'
  <1> SUFFICES ASSUME TypeOK, Backend \/ People PROVE TypeOK'
    OBVIOUS
  <1>1. CASE Begin \/ Recover
    BY <1>1 DEF TypeOK, Begin, Recover, config, history
  <1>2. CASE Complete
    BY <1>2, IntentAssumption DEF TypeOK, Complete, config
  <1>3. CASE Break
    BY <1>3, BudgetType, IntentAssumption DEF TypeOK, Break, config
  <1>4. ASSUME NEW i \in Intents, NEW v \in Values, ConsoleUpdates(i, v)
        PROVE  TypeOK'
    <2>1. target' \in Attributes
      BY <1>4 DEF ConsoleUpdates, TypeOK, Attributes
    <2>2. faults' \in 0 .. MaxFaults /\ edits' \in 0 .. MaxEdits
      BY <1>4, BudgetType DEF ConsoleUpdates
    <2> QED
      BY <1>4, <2>1, <2>2 DEF TypeOK, ConsoleUpdates, config
  <1>5. CASE EditConfig
    BY <1>5, BudgetType DEF TypeOK, EditConfig, backend, history
  <1> QED
    BY <1>1, <1>2, <1>3, <1>4, <1>5 DEF Backend, People

LEMMA TypeStep == TypeOK /\ [Next]_vars => TypeOK'
  <1>1. TypeOK /\ UNCHANGED vars => TypeOK'
    BY DEF TypeOK, vars, backend, config, history
  <1> QED
    BY <1>1, EngineType, OthersType DEF Next

(* Every variable keeps to its type; the loop of the engine is over        *)
(* exactly when no change is left.                                         *)
THEOREM TypeCorrect == Spec => []TypeOK
  <1>1. Init => TypeOK
    BY TypeInit
  <1>2. TypeOK /\ [Next]_vars => TypeOK'
    BY TypeStep
  <1> QED
    BY <1>1, <1>2, PTL DEF Spec

-----------------------------------------------------------------------------
(* The backend is at an update of the engine's only while the object shows *)
(* it, and otherwise differs from its target by others' changes alone.     *)
OwnInv ==
    ~late => /\ own # 0 => phase = "updating"
             /\ own = 0 => \A i \in Intents \ unseen : target[i] = actual[i]

(* From the poll before a call to the call, and after the last poll,       *)
(* nothing of the engine's is under way.                                   *)
IdleInv == ~late /\ pc \in {"put", "get"} => own = 0

(* What the operation has dealt with so far, and what it had not to touch. *)
DoneInv ==
    /\ ~late /\ pc = "plan" => \A i \in Intents \ unseen : recorded[i] = target[i]
    /\ ~late /\ pc \in {"before", "put", "after", "get"} =>
         \A i \in Intents \ (changes \cup unseen) : target[i] = want[i]

IInv == TypeOK /\ OwnInv /\ IdleInv /\ DoneInv

LEMMA IInvInit == Init => IInv
  <1>1. Init => OwnInv /\ IdleInv /\ DoneInv
    BY DEF Init, OwnInv, IdleInv, DoneInv
  <1> QED
    BY <1>1, TypeInit DEF IInv

(* A call that the backend takes while nothing of the engine's is under    *)
(* way leaves every attribute at its plan that is not left to be sent.     *)
LEMMA AcceptDone ==
    ASSUME IInv, pc = "put", Accept, ~late'
    PROVE  /\ own' # 0
           /\ phase' = "updating"
           /\ \A i \in Intents \ ((changes \ {Current}) \cup unseen) : target'[i] = want[i]
  <1>0. TypeOK /\ ~late
    BY AcceptType DEF IInv
  <1>1. own = 0 /\ TypeOK
    BY <1>0 DEF IInv, IdleInv
  <1>2. own' \in 1 .. N /\ phase' = "updating"
    BY <1>1, AcceptType
  <1>3. PICK base \in {actual, target}, extra \in {{}, InBody} :
          target' = [i \in Intents |->
                       IF i \in extra \cup {Current} THEN want[i] ELSE base[i]]
    BY DEF Accept
  <1>4. ASSUME NEW i \in Intents \ ((changes \ {Current}) \cup unseen)
        PROVE  target'[i] = want[i]
    <2>1. CASE i = Current
      BY <1>3, <2>1
    <2>2. CASE i # Current
      <3>1. target[i] = want[i] /\ target[i] = actual[i]
        BY <1>0, <1>1, <1>4, <2>2 DEF IInv, OwnInv, DoneInv
      <3>2. base[i] = want[i]
        BY <3>1
      <3> QED
        BY <1>3, <3>2
    <2> QED
      BY <2>1, <2>2
  <1>5. own' # 0
    BY <1>2, IntentAssumption
  <1> QED
    BY <1>2, <1>4, <1>5

LEMMA EngineStep == ASSUME IInv, Engine PROVE (OwnInv /\ IdleInv /\ DoneInv)'
  <1> USE DEF IInv
  <1>1. CASE ReadOk
    <2>1. \A i \in Intents \ unseen' : target[i] = actual[i]
      BY <1>1 DEF ReadOk
    <2> QED
      BY <1>1, <2>1 DEF ReadOk, OwnInv, IdleInv, DoneInv, backend
  <1>2. CASE PlanNothing \/ UpdateReadsOnly
    BY <1>2 DEF PlanNothing, UpdateReadsOnly, OwnInv, IdleInv, DoneInv, backend, history
  <1>3. CASE UpdateStarts
    <2>1. ~late => \A i \in Intents \ (changes' \cup unseen) : target[i] = want[i]
      BY <1>3 DEF UpdateStarts, Changed, DoneInv
    <2> QED
      BY <1>3, <2>1 DEF UpdateStarts, OwnInv, IdleInv, DoneInv, backend, config, history
  <1>4. CASE WaitSucceeds
    <2>1. ~late => own = 0
      BY <1>4 DEF WaitSucceeds, Ready, OwnInv, TypeOK
    <2>2. pc' \in {"put", "before", "get"}
      BY <1>4 DEF WaitSucceeds
    <2> QED
      BY <1>4, <2>1, <2>2 DEF WaitSucceeds, OwnInv, IdleInv, DoneInv, backend, config, history
  <1>5. CASE WaitFails \/ GetFails
    BY <1>5 DEF WaitFails, GetFails, Abandon, OwnInv, IdleInv, DoneInv, backend
  <1>6. CASE PutOk
    <2>1. ~late' =>
          /\ own' # 0
          /\ phase' = "updating"
          /\ \A i \in Intents \ (changes' \cup unseen) : target'[i] = want[i]
      BY <1>6, AcceptDone DEF PutOk
    <2> QED
      BY <1>6, <2>1 DEF PutOk, OwnInv, IdleInv, DoneInv, config
  <1>7. CASE PutFails
    <2>1. pc' = "idle" /\ unseen' = unseen
      BY <1>7 DEF PutFails, Abandon
    <2>2. OwnInv'
      <3>1. CASE Accept
        BY <1>7, <2>1, <3>1, AcceptDone DEF PutFails, OwnInv
      <3>2. CASE UNCHANGED <<backend, own, late>>
        BY <2>1, <3>2 DEF OwnInv, backend
      <3> QED
        BY <1>7, <3>1, <3>2 DEF PutFails
    <2> QED
      BY <2>1, <2>2 DEF IdleInv, DoneInv
  <1>8. CASE GetOk
    BY <1>8 DEF GetOk, OwnInv, IdleInv, DoneInv, backend, history
  <1> QED
    BY <1>1, <1>2, <1>3, <1>4, <1>5, <1>6, <1>7, <1>8 DEF Engine

LEMMA OthersStep ==
    ASSUME IInv, Backend \/ People \/ UNCHANGED vars
    PROVE  (OwnInv /\ IdleInv /\ DoneInv)'
  <1> USE DEF IInv
  <1>1. CASE Begin \/ Recover
    BY <1>1 DEF Begin, Recover, TypeOK, OwnInv, IdleInv, DoneInv, config, history
  <1>2. CASE Complete
    BY <1>2 DEF Complete, OwnInv, IdleInv, DoneInv, config
  <1>3. CASE Break
    <2>1. /\ own' = 0 /\ actual' = actual /\ target' = actual
          /\ unseen' = unseen \cup {i \in Intents : target[i] # actual[i]}
          /\ UNCHANGED <<config, recorded, pc, changes, late>>
      BY <1>3 DEF Break
    <2>2. \A i \in Intents \ unseen' : target'[i] = target[i] /\ i \notin unseen
      BY <2>1
    <2> QED
      BY <2>1, <2>2 DEF OwnInv, IdleInv, DoneInv, config
  <1>4. ASSUME NEW i \in Intents, NEW v \in Values, ConsoleUpdates(i, v)
        PROVE  (OwnInv /\ IdleInv /\ DoneInv)'
    <2>1. /\ phase = "ready" /\ own' = own /\ actual' = actual
          /\ target' = [target EXCEPT ![i] = v]
          /\ unseen' = unseen \cup {i}
          /\ UNCHANGED <<config, recorded, pc, changes, late>>
      BY <1>4 DEF ConsoleUpdates
    <2>2. \A j \in Intents \ unseen' : target'[j] = target[j] /\ j \notin unseen
      BY <2>1 DEF TypeOK, Attributes
    <2> QED
      BY <2>1, <2>2 DEF OwnInv, IdleInv, DoneInv, config
  <1>5. CASE EditConfig
    BY <1>5 DEF EditConfig, OwnInv, IdleInv, DoneInv, backend, history
  <1>6. CASE UNCHANGED vars
    BY <1>6 DEF vars, OwnInv, IdleInv, DoneInv, backend, config, history
  <1> QED
    BY <1>1, <1>2, <1>3, <1>4, <1>5, <1>6 DEF Backend, People

LEMMA IInvInvariant == Spec => []IInv
  <1>1. Init => IInv
    BY IInvInit
  <1>2. IInv /\ [Next]_vars => IInv'
    <2> SUFFICES ASSUME IInv, [Next]_vars PROVE IInv'
      OBVIOUS
    <2>1. TypeOK'
      BY TypeStep DEF IInv
    <2>2. (OwnInv /\ IdleInv /\ DoneInv)'
      BY EngineStep, OthersStep DEF Next
    <2> QED
      BY <2>1, <2>2 DEF IInv
  <1> QED
    BY <1>1, <1>2, PTL DEF Spec

(* The API takes one change at a time: when the engine sends one, nothing  *)
(* it sent before, in this operation or in one that failed, is still under *)
(* way.                                                                    *)
THEOREM OneChangeAtATime == Spec => OneAtATime
  <1> DEFINE Alone == PutOk \/ PutFails => late \/ own = 0
  <1>1. IInv => Alone
    BY DEF IInv, IdleInv, PutOk, PutFails
  <1> QED
    BY <1>1, IInvInvariant, PTL DEF OneAtATime

(* The plan is saved as state although the object was read for its         *)
(* readiness only: every value saved is nevertheless the object's, except  *)
(* where somebody else changed it behind the plan.                         *)
THEOREM OnlyRealValuesSaved == Spec => SavedValuesAreReal
  <1> DEFINE Real == GetOk /\ ~late => \A i \in Intents \ unseen : recorded'[i] = actual[i]
  <1>1. IInv => Real
    <2> SUFFICES ASSUME IInv, GetOk, ~late, NEW i \in Intents \ unseen
                 PROVE  recorded'[i] = actual[i]
      OBVIOUS
    <2>1. pc = "get" /\ changes = {} /\ own = 0
      BY DEF GetOk, IInv, TypeOK, IdleInv
    <2>2. target[i] = actual[i] /\ target[i] = want[i]
      BY <2>1 DEF IInv, OwnInv, DoneInv
    <2> QED
      BY <2>2 DEF GetOk
  <1> QED
    BY <1>1, IInvInvariant, PTL DEF SavedValuesAreReal
=============================================================================
