------------------------- MODULE AttributeFlowProofs -------------------------
(***************************************************************************)
(* The theorems of AttributeFlow.  Each is of specifications whose         *)
(* attributes say what their API does (AllDeclared).  The inductive        *)
(* invariant, Whole, is what is known of an attribute at every step: of    *)
(* the plan that is applied (Base), of an output (Outputs), of what a      *)
(* reply has shown (Filling, Seen), of what no reply shows (Remembered,    *)
(* Unhidden), and of what an apply has done so far (Landed).  Settled adds *)
(* what holds after an apply that succeeded.                               *)
(***************************************************************************)
EXTENDS AttributeFlow, TLAPS

States ==
    [x : Known, b : Bs \cup {Null}, d : BOOLEAN \cup {Null}, out : Outs \cup {Null},
     meta : BOOLEAN \cup {Null}]

PlanRecords ==
    [x : Known \cup {Unknown}, b : Bs \cup {Null}, d : BOOLEAN \cup {Null},
     out : Outs \cup {Null, Unknown}, meta : BOOLEAN \cup {Null}]

Objects == [x : Values \cup {Null, Empty}, b : Bs, d : BOOLEAN, u : BOOLEAN, out : Outs]

Wanted(c, s) ==
    [x : Known \cup {Unknown}, b : {c.b}, d : {c.d}, out : {s.out, Unknown}, meta : {c.meta}]

LEMMA ModifiedType ==
    ASSUME NEW k \in Kinds, NEW c \in Configs, NEW s \in States
    PROVE  Modified(k, c, s) \in Wanted(c, s)
<1>1. Proposed(k, c, s) \in [x : Known, b : {c.b}, d : {c.d}, out : {s.out}, meta : {c.meta}]
  BY DEF Proposed, States, Configs, Kinds, Known, HasDefault
<1>2. Marked(k, c, s) \in Wanted(c, s)
  BY <1>1 DEF Marked, Wanted
<1> QED
  BY <1>2 DEF Modified, Wanted, States, Known

LEMMA PlanType ==
    ASSUME NEW k \in Kinds, NEW c \in Configs, NEW s \in States
    PROVE  UpdatePlan(k, c, s) \in Wanted(c, s)
BY ModifiedType DEF UpdatePlan, ModifyPlan, Wanted, States

(* The x that is planned: what is configured, or the default, or, for      *)
(* the server to say, the prior one or an unknown one.                     *)
Intended(k, c, s) ==
    IF c.x # Null THEN {c.x}
    ELSE IF HasDefault(k) THEN {IF k.default = Empty /\ s.x = Null THEN Null ELSE k.default}
    ELSE IF Computed(k) THEN {s.x, Unknown}
    ELSE {Null}

(* An update leaves a computed x open.                                     *)
LeftOpen(k, c, s) ==
    /\ c.x = Null
    /\ Computed(k)
    /\ \/ Settable(k) /\ Has(k, "recomputeWhenChanged") /\ c.b # s.b
       \/ /\ ~Settable(k) /\ k.flags \cap {"forceNew", "sendFromState"} = {}
          /\ Has(k, "stable") => s.x = Null
          /\ Has(k, "stableUnlessChanged") => s.x = Null \/ c.b # s.b

LEMMA IntendedKnown ==
    ASSUME NEW k \in Kinds, NEW c \in Configs, NEW s \in States
    PROVE  /\ Unknown \notin Known /\ Unknown \notin Bs /\ Null \notin Bs
           /\ c.x # Unknown /\ k.default # Unknown /\ s.x # Unknown
BY SpecialsAssumption, ValuesAssumption DEF Kinds, Configs, States, Known, Specials

LEMMA ModifiedX ==
    ASSUME NEW k \in Kinds, ValidKind(k), NEW a, Declared(k, a),
           NEW c \in Configs, NEW s \in States
    PROVE  /\ Modified(k, c, s).x \in Intended(k, c, s)
           /\ Modified(k, c, s).x = Unknown => LeftOpen(k, c, s)
<1> DEFINE p == Proposed(k, c, s)
           q == Marked(k, c, s)
           m == Modified(k, c, s)
<1>1. /\ p.x = IF c.x # Null THEN c.x
               ELSE IF HasDefault(k) THEN k.default
               ELSE IF Computed(k) THEN s.x ELSE Null
      /\ p.b = c.b
      /\ p \in [x : Known, b : {c.b}, d : {c.d}, out : {s.out}, meta : {c.meta}]
  BY DEF Proposed, States, Configs, Kinds, Known, HasDefault
<1>2. q = IF p = s THEN p
          ELSE [p EXCEPT !.out = Unknown,
                         !.x = IF Computed(k) /\ c.x = Null /\ ~HasDefault(k) THEN Unknown ELSE @]
  BY DEF Marked
<1> HIDE DEF p
<1>7. /\ q \in Wanted(c, s)
      /\ q.b = c.b
      /\ \/ q.x = p.x
         \/ q.x = Unknown /\ Computed(k) /\ c.x = Null /\ ~HasDefault(k)
  BY <1>1, <1>2 DEF Wanted
<1>8. m = [q EXCEPT !.x =
            IF recomputeWhenChanged(k, c, s, q) THEN Unknown
            ELSE IF nullStateMatchesEmptyDefault(k, c, s) THEN Null
            ELSE IF @ = Unknown /\ KeptForUnknown(k, s, q) THEN s.x
            ELSE @]
  BY DEF Modified
<1> HIDE DEF q, m
<1>3. m.x = IF recomputeWhenChanged(k, c, s, q) THEN Unknown
            ELSE IF nullStateMatchesEmptyDefault(k, c, s) THEN Null
            ELSE IF q.x = Unknown /\ KeptForUnknown(k, s, q) THEN s.x
            ELSE q.x
  BY <1>7, <1>8 DEF Wanted
<1>4. /\ Has(k, "recomputeWhenChanged") => Computed(k) /\ Settable(k) /\ ~HasDefault(k)
      /\ HasDefault(k) => Computed(k) /\ Settable(k)
      /\ ~Computed(k) => Settable(k)
  BY DEF ValidKind, Declared, Computed, Settable, Kinds
<1>5. m.x \in Intended(k, c, s)
  BY <1>1, <1>3, <1>4, <1>7, IntendedKnown
     DEF Intended, recomputeWhenChanged, nullStateMatchesEmptyDefault, HasDefault
<1>6. ASSUME m.x = Unknown PROVE LeftOpen(k, c, s)
  <2>1. \/ recomputeWhenChanged(k, c, s, q)
        \/ q.x = Unknown /\ ~KeptForUnknown(k, s, q)
    BY <1>1, <1>3, <1>6, IntendedKnown, SpecialsAssumption
  <2>2. CASE recomputeWhenChanged(k, c, s, q)
    BY <1>4, <1>7, <2>2 DEF recomputeWhenChanged, LeftOpen
  <2>3. CASE q.x = Unknown /\ ~KeptForUnknown(k, s, q)
    <3>1. c.x = Null /\ Computed(k)
      BY <1>1, <1>7, <2>3, IntendedKnown, SpecialsAssumption
    <3> QED
      BY <1>7, <2>3, <3>1 DEF KeptForUnknown, useStateForUnknown, preserveNonNullOnly,
         stableUnlessKeeps, LeftOpen, Has
  <2> QED
    BY <2>1, <2>2, <2>3
<1> QED
  BY <1>5, <1>6 DEF m

(* ModifyPlan only holds at its prior value what the server decides.       *)
LEMMA PlanX ==
    ASSUME NEW k \in Kinds, ValidKind(k), NEW a, Declared(k, a),
           NEW c \in Configs, c.x # Null => Settable(k), NEW s \in States
    PROVE  /\ UpdatePlan(k, c, s).x \in Intended(k, c, s)
           /\ UpdatePlan(k, c, s).x = Unknown => LeftOpen(k, c, s)
           /\ \/ UpdatePlan(k, c, s).x = Modified(k, c, s).x
              \/ Modified(k, c, s).x = Unknown /\ UpdatePlan(k, c, s).x = s.x
<1> DEFINE m == Modified(k, c, s)
           p == UpdatePlan(k, c, s)
<1>1. /\ m.x \in Intended(k, c, s) /\ (m.x = Unknown => LeftOpen(k, c, s))
      /\ m \in Wanted(c, s)
  BY ModifiedX, ModifiedType
<1>2. p = ModifyPlan(k, s, m)
  BY DEF UpdatePlan
<1> SUFFICES /\ p.x \in Intended(k, c, s)
             /\ p.x = Unknown => LeftOpen(k, c, s)
             /\ p.x = m.x \/ (m.x = Unknown /\ p.x = s.x)
  OBVIOUS
<1> HIDE DEF m, p
<1>3. CASE bodyFromRaw(k, m) # bodyFromRaw(k, s) \/ ~Computed(k)
  <2>1. p.x = m.x
    BY <1>1, <1>2, <1>3 DEF ModifyPlan, Wanted
  <2> QED
    BY <1>1, <2>1
<1>4. CASE bodyFromRaw(k, m) = bodyFromRaw(k, s) /\ Computed(k)
  <2>1. p.x = s.x
    BY <1>1, <1>2, <1>4 DEF ModifyPlan, Wanted
  <2>2. ~Settable(k) => c.x = Null /\ ~HasDefault(k)
    BY DEF Settable, Declared
  <2>3. HasUpdatePath(k)
    BY <1>4 DEF HasUpdatePath, Declared
  <2>4. Settable(k) /\ m.x # Unknown => m.x = s.x
    BY <1>4, <2>3, IntendedKnown DEF bodyFromRaw, SentX
  <2>5. m.x # Unknown => m.x = s.x
    BY <1>1, <1>4, <2>2, <2>4 DEF Intended
  <2>6. m.x = Unknown => s.x \in Intended(k, c, s)
    BY <1>1, IntendedKnown, SpecialsAssumption DEF Intended
  <2> QED
    BY <1>1, <2>1, <2>5, <2>6, IntendedKnown
<1> QED
  BY <1>3, <1>4

-----------------------------------------------------------------------------
(* Types.                                                                  *)

LEMMA StateXType ==
    ASSUME NEW k \in Kinds, NEW base \in Known \cup {Unknown}, NEW shown \in Known,
           NEW refresh \in BOOLEAN, Has(k, "noRead") => base # Unknown
    PROVE  /\ StateX(k, base, shown, refresh) \in Known
           /\ StateX(k, base, shown, refresh) = Masked => Masked \in {base, shown}
<1>1. ~TakesResponse(k, base, refresh) => base # Unknown
  BY DEF TakesResponse
<1>2. CASE Has(k, "noRead") \/ ~TakesResponse(k, base, refresh)
  BY <1>1, <1>2 DEF StateX
<1>3. CASE ~Has(k, "noRead") /\ TakesResponse(k, base, refresh)
  <2> DEFINE restored == restorePreservedValues(k, base, shown)
             formed == keepEmptyForm(k, base, restored)
             kept == keepStable(k, base, formed, refresh)
             cased == keepPriorCasing(k, base, kept)
  <2>1. restored \in Known /\ restored \in {base, shown}
    BY DEF restorePreservedValues
  <2> HIDE DEF restored
  <2>2. formed \in Known /\ formed \in {base, shown}
    BY <2>1, SpecialsAssumption DEF keepEmptyForm, Known, formed
  <2> HIDE DEF formed
  <2>3. kept \in Known /\ kept \in {base, shown}
    BY <2>2 DEF keepStable, kept
  <2> HIDE DEF kept
  <2>4. cased \in Known /\ cased \in {base, shown}
    BY <2>3 DEF keepPriorCasing, SameButCase, Known, cased
  <2> HIDE DEF cased
  <2>5. keepEquivalentValue(k, base, cased) \in Known /\ keepEquivalentValue(k, base, cased) \in {base, shown}
    BY <2>4 DEF keepEquivalentValue, ResolvedForm, Known
  <2>6. StateX(k, base, shown, refresh) = keepEquivalentValue(k, base, cased)
    BY <1>3 DEF StateX, cased, kept, formed, restored
  <2> QED
    BY <2>5, <2>6
<1> QED
  BY <1>2, <1>3

(* The object, when there is one. *)
LEMMA ShownType ==
    ASSUME backend \in Objects, NEW write, NEW v \in Shown(write)
    PROVE  /\ v \in Known
           /\ v = Masked => api = "masked"
<1>1. /\ backend.x \in Known /\ backend.x # Masked /\ Null \in Known /\ Empty \in Known /\ Masked \in Known
      /\ Null # Masked /\ Empty # Masked /\ \A w \in Values : w \in Known /\ w # Masked
  BY SpecialsAssumption, ValuesAssumption DEF Objects, Known, Specials
<1>2. \A w : ResolvedForm(kind, backend.x, w) => Resolved[backend.x] \subseteq Values
  BY ValuesAssumption DEF ResolvedForm
<1> QED
  BY <1>1, <1>2 DEF Shown

(* TypeOK, in terms of the sets above. *)
Typed ==
    /\ [kind |-> kind, api |-> api] \in Cases
    /\ config \in Configurations
    /\ state \in States
    /\ plan \in PlanRecords
    /\ backend = NoObject \/ backend \in Objects
    /\ cur = NoObject \/ cur \in Objects
    /\ pc \in {"idle", "create", "replace", "update", "merged", "reply"}
    /\ pc = "idle" <=> plan = NoState
    /\ pc = "merged" => cur # NoObject
    /\ imported \in BOOLEAN /\ warned \in BOOLEAN
    /\ edits \in 0 .. MaxEdits /\ faults \in 0 .. MaxFaults
    /\ rejected \in {"none", "plan", "result"}
    /\ touched \in BOOLEAN /\ moved \in BOOLEAN /\ hidden \in BOOLEAN /\ clean \in BOOLEAN
    /\ asked \in Values \cup {Null, Empty}

LEMMA TypedIsTypeOK == Typed <=> TypeOK
BY DEF Typed, TypeOK, States, PlanRecords, Objects

Case == kind \in Kinds /\ ValidKind(kind) /\ api \in Habits /\ Declared(kind, api) /\ FormsApart

LEMMA CaseOK == ASSUME AllDeclared, Typed PROVE Case
BY CasesAssumption DEF AllDeclared, Typed, Case

LEMMA ObjectOK ==
    ASSUME Typed
    PROVE  /\ backend # NoObject => backend \in Objects
           /\ cur # NoObject => cur \in Objects
           /\ NoObject \notin Objects
           /\ state \in States /\ plan \in PlanRecords /\ config \in Configs
BY ValuesAssumption DEF Typed, Objects, NoObject, States, PlanRecords, Specials, Configurations

(* A new object is asked for what is configured, or the default.           *)
CreatedX(k, c) ==
    IF c.x # Null THEN c.x
    ELSE IF HasDefault(k) THEN k.default
    ELSE IF Computed(k) THEN Unknown ELSE Null

LEMMA CreatePlanIs ==
    ASSUME NEW k \in Kinds, NEW c \in Configs
    PROVE  /\ CreatePlan(k, c) = [x |-> CreatedX(k, c), b |-> c.b, d |-> c.d, out |-> Unknown, meta |-> c.meta]
           /\ CreatePlan(k, c) \in PlanRecords
<1> DEFINE p == Proposed(k, c, NoState)
<1>1. p = [x |-> IF c.x # Null THEN c.x
                 ELSE IF HasDefault(k) THEN k.default
                 ELSE Null,
           b |-> c.b, d |-> c.d, out |-> Null, meta |-> c.meta]
  BY DEF Proposed, NoState
<1>2. p # NoState
  BY <1>1, IntendedKnown, ValuesAssumption DEF NoState, Configs, Specials
<1>3. CreatePlan(k, c) = [p EXCEPT !.out = Unknown,
                                   !.x = IF Computed(k) /\ c.x = Null /\ ~HasDefault(k) THEN Unknown ELSE @]
  BY <1>2 DEF CreatePlan, Marked
<1> HIDE DEF p
<1>4. CreatePlan(k, c) = [x |-> CreatedX(k, c), b |-> c.b, d |-> c.d, out |-> Unknown, meta |-> c.meta]
  BY <1>1, <1>3 DEF CreatedX
<1>5. CreatedX(k, c) \in Known \cup {Unknown}
  BY DEF CreatedX, Configs, Kinds, Known, HasDefault
<1> QED
  BY <1>4, <1>5 DEF Configs, PlanRecords

CreatePlanned == ~Tracked /\ plan = CreatePlan(kind, config) /\ ~warned

UpdatePlanned ==
    /\ Tracked
    /\ plan = UpdatePlan(kind, config, state)
    /\ ~PlansReplace(kind, config, state, imported)
    /\ plan # state
    /\ warned = warnIgnoredChanges(kind, config, state, imported)

(* The plan being applied is still that of the configuration and the state.*)
Planned ==
    /\ pc = "create" => CreatePlanned /\ backend = NoObject
    /\ pc = "replace" => /\ Tracked /\ plan = CreatePlan(kind, config) /\ ~warned
                         /\ PlansReplace(kind, config, state, imported)
    /\ pc = "update" => UpdatePlanned
    /\ pc = "merged" => UpdatePlanned /\ Updates /\ kind.update = "merge"
    /\ pc = "reply" => CreatePlanned \/ (UpdatePlanned /\ Updates)

Located ==
    /\ Tracked => state.b \in Bs /\ state.d \in BOOLEAN /\ state.out \in Outs
    /\ Tracked \/ pc = "reply" => backend # NoObject
    /\ ~Tracked /\ pc = "idle" => backend = NoObject

Unmasked == state.x = Masked => api = "masked"

Base == Typed /\ Located /\ Planned /\ Unmasked

LEMMA ConfiguredIsSettable ==
    ASSUME Typed PROVE config.x # Null => Settable(kind)
BY DEF Typed, Configurations, ConfigX, Settable

LEMMA PlanFacts ==
    ASSUME Base, Case, pc # "idle"
    PROVE  /\ plan \in PlanRecords /\ plan # NoState
           /\ plan.b = config.b /\ plan.d = config.d /\ plan.meta = config.meta
           /\ plan.b \in Bs /\ plan.d \in BOOLEAN
           /\ plan.x # Masked
           /\ Has(kind, "noRead") => plan.x # Unknown
<1>1. /\ kind \in Kinds /\ config \in Configs /\ state \in States /\ plan \in PlanRecords
      /\ pc \in {"idle", "create", "replace", "update", "merged", "reply"}
      /\ config.b \in Bs /\ config.d \in BOOLEAN /\ config.x # Masked /\ config.x # Unknown
      /\ kind.default # Masked /\ kind.default # Unknown /\ Null # Masked /\ Unknown # Masked /\ Null # Unknown
  BY ObjectOK, SpecialsAssumption, ValuesAssumption DEF Base, Typed, Case, Configs, Kinds, Specials
<1>2. \/ plan = CreatePlan(kind, config)
      \/ plan = UpdatePlan(kind, config, state)
  BY <1>1 DEF Base, Planned, CreatePlanned, UpdatePlanned
<1>3. Has(kind, "noRead") => (Computed(kind) => HasDefault(kind))
  BY DEF Case, Declared
<1>4. CASE plan = CreatePlan(kind, config)
  <2>1. plan = [x |-> CreatedX(kind, config), b |-> config.b, d |-> config.d, out |-> Unknown,
                meta |-> config.meta]
    BY <1>1, <1>4, CreatePlanIs
  <2>2. CreatedX(kind, config) # Masked /\ (Has(kind, "noRead") => CreatedX(kind, config) # Unknown)
    BY <1>1, <1>3 DEF CreatedX
  <2> QED
    BY <1>1, <2>1, <2>2, ValuesAssumption DEF NoState, Specials
<1>5. CASE plan = UpdatePlan(kind, config, state)
  <2>1. plan \in Wanted(config, state)
    BY <1>1, <1>5, PlanType
  <2>2. plan.x \in Intended(kind, config, state)
    BY <1>1, <1>5, PlanX, ConfiguredIsSettable DEF Case, Base
  <2>3. Computed(kind) => state.x # Masked
    BY DEF Base, Unmasked, Case, Declared
  <2>4. plan.x # Masked /\ (Has(kind, "noRead") => plan.x # Unknown)
    BY <1>1, <1>3, <2>2, <2>3 DEF Intended
  <2> QED
    BY <1>1, <2>1, <2>4, ValuesAssumption DEF Wanted, NoState, Specials
<1> QED
  BY <1>2, <1>4, <1>5

Answers == [x : Known, b : Bs, d : BOOLEAN, out : Outs]

LEMMA ReplyType ==
    ASSUME backend \in Objects, NEW write, NEW reply \in Replies(write)
    PROVE  /\ reply \in Answers /\ reply.x \in Shown(write)
           /\ reply.x = Masked => api = "masked"
           /\ reply.b = backend.b /\ reply.d = backend.d /\ reply.out = backend.out
<1>1. PICK v \in Shown(write) : reply = [x |-> v, b |-> backend.b, d |-> backend.d, out |-> backend.out]
  BY DEF Replies
<1>2. v \in Known /\ (v = Masked => api = "masked")
  BY ShownType
<1> QED
  BY <1>1, <1>2 DEF Answers, Objects

LEMMA BuiltType ==
    ASSUME NEW k \in Kinds, NEW base \in PlanRecords, NEW reply \in Answers, NEW refresh \in BOOLEAN,
           Has(k, "noRead") => base.x # Unknown, ~refresh => base.b \in Bs /\ base.d \in BOOLEAN
    PROVE  LET r == buildStateRaw(k, base, reply, refresh) IN
           /\ r \in States /\ r # NoState
           /\ r.x = StateX(k, base.x, reply.x, refresh)
           /\ r.b = IF refresh THEN reply.b ELSE base.b
           /\ r.d = IF refresh THEN reply.d ELSE base.d
           /\ r.b \in Bs /\ r.d \in BOOLEAN /\ r.out \in Outs
           /\ r.out = reply.out /\ r.meta = base.meta
           /\ r.x = Masked => Masked \in {base.x, reply.x}
<1> DEFINE r == buildStateRaw(k, base, reply, refresh)
<1>1. /\ r = [x |-> StateX(k, base.x, reply.x, refresh),
              b |-> IF refresh THEN reply.b ELSE base.b,
              d |-> IF refresh THEN reply.d ELSE base.d,
              out |-> reply.out, meta |-> base.meta]
  BY DEF buildStateRaw
<1>2. /\ StateX(k, base.x, reply.x, refresh) \in Known
      /\ StateX(k, base.x, reply.x, refresh) = Masked => Masked \in {base.x, reply.x}
  BY StateXType DEF PlanRecords, Answers
<1> HIDE DEF r
<1>3. r.b \in Bs
  BY <1>1 DEF Answers
<1>4. r # NoState
  BY <1>3, ValuesAssumption DEF NoState, Specials
<1>5. r \in States
  BY <1>1, <1>2 DEF States, Answers, PlanRecords
<1> QED
  BY <1>1, <1>2, <1>3, <1>4, <1>5 DEF Answers, r

(* What a refresh makes of the state. *)
LEMMA RefreshType ==
    ASSUME Base, Case, NEW s \in Refreshed, Tracked
    PROVE  /\ s \in States /\ s # NoState
           /\ s.b = backend.b /\ s.d = backend.d /\ s.out = backend.out /\ s.meta = state.meta
           /\ s.b \in Bs /\ s.d \in BOOLEAN /\ s.out \in Outs
           /\ s.x = Masked => api = "masked"
           /\ \E v \in Shown(FALSE) : s.x = StateX(kind, state.x, v, TRUE)
<1>1. backend \in Objects /\ kind \in Kinds /\ state \in States
  BY ObjectOK DEF Base, Located, Case
<1>2. PICK reply \in Replies(FALSE) : s = buildStateRaw(kind, state, reply, TRUE)
  BY DEF Refreshed
<1>3. /\ reply \in Answers /\ reply.x \in Shown(FALSE)
      /\ reply.x = Masked => api = "masked"
      /\ reply.b = backend.b /\ reply.d = backend.d /\ reply.out = backend.out
  BY <1>1, ReplyType
<1>4. state \in PlanRecords /\ state.x # Unknown
  BY <1>1, SpecialsAssumption, ValuesAssumption DEF States, PlanRecords, Known, Specials
<1> QED
  BY <1>1, <1>2, <1>3, <1>4, BuiltType DEF Base, Unmasked

(* What the end of an apply makes of the plan. *)
LEMMA EndType ==
    ASSUME Base, Case, pc # "idle", backend # NoObject, NEW write, NEW reply \in Replies(write)
    PROVE  LET r == buildStateRaw(kind, plan, reply, FALSE) IN
           /\ r \in States /\ r # NoState
           /\ r.b = plan.b /\ r.d = plan.d /\ r.out = backend.out /\ r.meta = plan.meta
           /\ r.b \in Bs /\ r.d \in BOOLEAN /\ r.out \in Outs
           /\ r.x = Masked => api = "masked"
           /\ r.x = StateX(kind, plan.x, reply.x, FALSE)
           /\ reply.x \in Shown(write)
<1>1. backend \in Objects /\ kind \in Kinds
  BY ObjectOK DEF Base, Case
<1>2. /\ reply \in Answers /\ reply.x \in Shown(write)
      /\ reply.x = Masked => api = "masked"
      /\ reply.b = backend.b /\ reply.d = backend.d /\ reply.out = backend.out
  BY <1>1, ReplyType
<1>3. /\ plan \in PlanRecords /\ (Has(kind, "noRead") => plan.x # Unknown)
      /\ plan.b \in Bs /\ plan.d \in BOOLEAN /\ plan.x # Masked
  BY PlanFacts
<1> QED
  BY <1>1, <1>2, <1>3, BuiltType

-----------------------------------------------------------------------------
(* Every step keeps Base. *)

LEMMA ForeignType ==
    ASSUME Case, backend \in Objects
    PROVE  ForeignX \subseteq Values \cup {Null}
BY ServerAssumption DEF ForeignX, RealX, Objects

LEMMA ImportedReply ==
    ASSUME Case, backend' \in Objects, UNCHANGED <<kind, api>>, NEW reply \in Replies(FALSE)'
    PROVE  /\ reply \in Answers
           /\ reply.x = Masked => api = "masked"
           /\ reply.x \in Shown(FALSE)'
           /\ reply.b = backend'.b /\ reply.d = backend'.d /\ reply.out = backend'.out
<1>1. /\ backend'.x \in Known /\ backend'.x # Masked /\ Null \in Known /\ Empty \in Known /\ Masked \in Known
      /\ Null # Masked /\ Empty # Masked /\ \A w \in Values : w \in Known /\ w # Masked
  BY SpecialsAssumption, ValuesAssumption DEF Objects, Known, Specials
<1>2. \A w : ResolvedForm(kind, backend'.x, w) => Resolved[backend'.x] \subseteq Values
  BY ValuesAssumption DEF ResolvedForm
<1>3. PICK v \in Shown(FALSE)' : reply = [x |-> v, b |-> backend'.b, d |-> backend'.d, out |-> backend'.out]
  BY DEF Replies
<1>4. v \in Known /\ (v = Masked => api = "masked")
  BY <1>1, <1>2 DEF Shown, ResolvedForm
<1> QED
  BY <1>3, <1>4 DEF Answers, Objects

LEMMA ImportBase == ASSUME Case, Base, Import PROVE Base'
<1>1. /\ state = NoState /\ pc = "idle" /\ backend = NoObject
      /\ UNCHANGED <<kind, api, config, plan, warned, pc, cur, edits, faults, rejected, touched, moved, clean, asked>>
      /\ hidden' \in BOOLEAN /\ imported' = TRUE
  BY DEF Import, Tracked, Readable
<1>2. backend' \in Objects
  BY ServerAssumption DEF Import, ForeignX, RealX, Objects, Outs
<1>3. PICK reply \in Replies(FALSE)' : state' = buildStateRaw(kind, NoState, reply, TRUE)
  BY DEF Import
<1>4. /\ reply \in Answers
      /\ reply.x = Masked => api = "masked"
  BY <1>1, <1>2, <1>3, ImportedReply
<1>5. NoState \in PlanRecords /\ NoState.x # Unknown /\ NoState.x # Masked
  BY SpecialsAssumption DEF NoState, PlanRecords, Known
<1>6. /\ state' \in States /\ state' # NoState
      /\ state'.b \in Bs /\ state'.d \in BOOLEAN /\ state'.out \in Outs
      /\ state'.x = Masked => api = "masked"
  BY <1>3, <1>4, <1>5, BuiltType DEF Case
<1>7. backend' # NoObject
  BY <1>2, ObjectOK DEF Base
<1>8. Typed'
  BY <1>1, <1>2, <1>6 DEF Base, Typed, Configurations, ConfigX, RealX, ResolvedForm
<1> QED
  BY <1>1, <1>6, <1>7, <1>8 DEF Base, Located, Planned, Unmasked, Tracked

LEMMA ConfigurationsSame == ASSUME UNCHANGED <<kind, api>> PROVE Configurations' = Configurations
BY DEF Configurations, ConfigX, RealX

LEMMA NoStateType == NoState \in States /\ NoState \in PlanRecords
BY DEF NoState, States, PlanRecords, Known

LEMMA PlanBase == ASSUME Case, Base, Plan PROVE Base'
<1> USE DEF Base
<1>0. /\ UNCHANGED <<kind, api, config, imported, cur, backend, edits, faults, hidden, clean, asked>>
      /\ Configurations' = Configurations /\ pc = "idle"
  BY ConfigurationsSame DEF Plan, PlanCreate, PlanReplace, PlanUpdate, PlanNothing, PlanRejected, Plans
<1>1. /\ kind \in Kinds /\ config \in Configs /\ state \in States
      /\ config.b \in Bs /\ Null \notin Bs
  BY ObjectOK, IntendedKnown DEF Case, Configs
<1>2. CreatePlan(kind, config) \in PlanRecords /\ CreatePlan(kind, config) # NoState
  BY <1>1, CreatePlanIs DEF NoState
<1>3. CASE PlanCreate
  <2>1. Typed'
    BY <1>0, <1>2, <1>3 DEF Typed, PlanCreate, Plans
  <2> QED
    BY <2>1, <1>0, <1>3 DEF PlanCreate, Plans, Located, Planned, Unmasked, Tracked, CreatePlanned
<1>4. ASSUME NEW s \in Refreshed, PlanReplace(s) \/ PlanUpdate(s) \/ PlanNothing(s) PROVE Base'
  <2>1. Tracked /\ state' = s
    BY <1>4 DEF PlanReplace, PlanUpdate, PlanNothing
  <2>2. /\ s \in States /\ s # NoState
        /\ s.b \in Bs /\ s.d \in BOOLEAN /\ s.out \in Outs
        /\ s.x = Masked => api = "masked"
    BY <2>1, RefreshType
  <2>3. Located' /\ Unmasked' /\ Tracked'
    BY <1>0, <2>1, <2>2 DEF Located, Unmasked, Tracked
  <2>4. CASE PlanReplace(s)
    <3>1. Typed'
      BY <1>0, <1>2, <2>1, <2>2, <2>4 DEF Typed, PlanReplace, Plans
    <3> QED
      BY <3>1, <1>0, <2>1, <2>3, <2>4 DEF PlanReplace, Plans, Planned
  <2>5. CASE PlanUpdate(s)
    <3>1. UpdatePlan(kind, config, s) \in Wanted(config, s)
      BY <1>1, <2>2, PlanType
    <3>2. UpdatePlan(kind, config, s) \in PlanRecords /\ UpdatePlan(kind, config, s) # NoState
      BY <1>1, <2>2, <3>1 DEF Wanted, PlanRecords, Configs, NoState
    <3>3. Typed'
      BY <1>0, <2>1, <2>2, <2>5, <3>2 DEF Typed, PlanUpdate, Plans, warnIgnoredChanges
    <3> QED
      BY <3>3, <1>0, <2>1, <2>3, <2>5 DEF PlanUpdate, Plans, Planned, UpdatePlanned
  <2>6. CASE PlanNothing(s)
    <3>1. Typed'
      BY <1>0, <2>1, <2>2, <2>6, NoStateType DEF Typed, PlanNothing, Plans
    <3> QED
      BY <3>1, <1>0, <2>1, <2>3, <2>6 DEF PlanNothing, Plans, Planned
  <2> QED
    BY <1>4, <2>4, <2>5, <2>6
<1>5. ASSUME NEW s \in Refreshed, PlanRejected(s) PROVE Base'
  <2>1. Typed'
    BY <1>0, <1>5 DEF Typed, PlanRejected
  <2> QED
    BY <2>1, <1>5 DEF PlanRejected, Located, Planned, Unmasked, Tracked
<1> QED
  BY <1>3, <1>4, <1>5 DEF Plan

LEMMA DestroyBase == ASSUME Case, Base, Destroy PROVE Base'
<1>1. Configurations' = Configurations
  BY ConfigurationsSame DEF Destroy
<1>2. Typed'
  BY <1>1, NoStateType DEF Base, Typed, Destroy, history
<1>3. Planned'
  BY DEF Base, Destroy, history, Planned, CreatePlanned, Tracked
<1> QED
  BY <1>2, <1>3, SpecialsAssumption DEF Base, Destroy, history, Located, Unmasked, Tracked, NoState

LEMMA CreatedType ==
    ASSUME Case, Base, pc = "create"
    PROVE  Created([x |-> SentX(kind, plan), b |-> plan.b, d |-> plan.d]) \in Objects
<1>1. plan \in PlanRecords /\ plan.b \in Bs /\ plan.d \in BOOLEAN /\ plan.x # Masked
  BY PlanFacts
<1>2. SentX(kind, plan) \in Values \cup {Null, Empty}
  BY <1>1 DEF SentX, PlanRecords, Known
<1> QED
  BY <1>1, <1>2, ServerAssumption DEF Created, Default, Objects, Outs

LEMMA CreateBase == ASSUME Case, Base, Create PROVE Base'
<1>1. Configurations' = Configurations
  BY ConfigurationsSame DEF Create
<1>2. backend' \in Objects
  BY CreatedType DEF Create
<1>3. Typed'
  BY <1>1, <1>2 DEF Base, Typed, Create
<1>4. Planned'
  BY DEF Base, Create, Planned, CreatePlanned, Tracked
<1>5. backend' # NoObject
  BY <1>2, ObjectOK DEF Base
<1> QED
  BY <1>3, <1>4, <1>5 DEF Base, Create, Planned, CreatePlanned, Located, Unmasked, Tracked

(* The end of an apply, with or without a reply. *)
LEMMA EndsBase ==
    ASSUME Case, Base, pc # "idle", backend # NoObject, NEW r, Ends(r),
           r \in States, r # NoState, r.x = Masked => api = "masked",
           r.b \in Bs, r.d \in BOOLEAN, r.out \in Outs
    PROVE  Base'
<1>1. Configurations' = Configurations
  BY ConfigurationsSame DEF Ends
<1>2. config.x \in Values \cup {Null, Empty}
  BY ObjectOK DEF Base, Configs
<1>3. Typed'
  BY <1>1, <1>2, NoStateType DEF Base, Typed, Ends, Compatible
<1> QED
  BY <1>3 DEF Base, Ends, Planned, Located, Unmasked, Tracked

LEMMA EndsWithReplyBase ==
    ASSUME Case, Base, pc # "idle", backend # NoObject, NEW write, EndsWithReply(write)
    PROVE  Base'
<1>1. PICK reply \in Replies(write) : Ends(buildStateRaw(kind, plan, reply, FALSE))
  BY DEF EndsWithReply
<1> QED
  BY <1>1, EndType, EndsBase

LEMMA FinishBase == ASSUME Case, Base, Finish PROVE Base'
BY EndsWithReplyBase DEF Finish, Base, Located

LEMMA ReadsOnlyBase == ASSUME Case, Base, UpdateReadsOnly PROVE Base'
BY EndsWithReplyBase DEF UpdateReadsOnly, Base, Located, Planned, UpdatePlanned

LEMMA SkippedBase == ASSUME Case, Base, UpdateSkipped PROVE Base'
<1>1. pc = "update" /\ backend # NoObject
  BY DEF UpdateSkipped, Base, Located, Planned, UpdatePlanned
<1>2. CASE FullyKnown(plan)
  <2>1. /\ plan \in PlanRecords /\ plan # NoState /\ plan.x # Masked /\ plan.b \in Bs /\ plan.d \in BOOLEAN
    BY <1>1, PlanFacts
  <2>2. plan \in Wanted(config, state) /\ state.out \in Outs
    BY <1>1, PlanType, ObjectOK DEF Base, Planned, UpdatePlanned, Located, Case
  <2>3. plan.x # Unknown /\ plan.out # Unknown
    BY <1>2, <2>1 DEF FullyKnown, PlanRecords
  <2>4. plan \in States /\ plan.out \in Outs
    BY <2>1, <2>2, <2>3 DEF States, PlanRecords, Wanted
  <2> QED
    BY <1>1, <1>2, <2>1, <2>4, EndsBase DEF UpdateSkipped
<1>3. CASE ~FullyKnown(plan)
  BY <1>1, <1>3, EndsWithReplyBase DEF UpdateSkipped
<1> QED
  BY <1>2, <1>3

LEMMA MergeReadBase == ASSUME Case, Base, MergeRead PROVE Base'
<1>1. Configurations' = Configurations
  BY ConfigurationsSame DEF MergeRead
<1>2. UpdatePlanned /\ Updates /\ backend # NoObject
  BY DEF MergeRead, Base, Planned, Located, UpdatePlanned
<1>3. UpdatePlanned' /\ Updates'
  BY <1>2 DEF MergeRead, UpdatePlanned, Updates, Tracked
<1>4. Typed'
  BY <1>1, <1>2 DEF MergeRead, Base, Typed, history
<1> QED
  BY <1>3, <1>4 DEF MergeRead, history, Base, Planned, Located, Unmasked, Tracked

Bodies == [x : Values \cup {Null, Empty}, b : Bs, d : BOOLEAN, u : BOOLEAN]

(* At an update: where it is, and what it sends. *)
LEMMA SendsFacts ==
    ASSUME Case, Base, Sends
    PROVE  /\ pc \in {"update", "merged"} /\ pc # "idle" /\ UpdatePlanned /\ Updates
           /\ backend \in Objects /\ Body \in Bodies
           /\ Body.b = plan.b /\ Body.d = plan.d
<1>1. /\ pc \in {"update", "merged"} /\ pc # "idle" /\ UpdatePlanned /\ Updates
      /\ backend \in Objects
      /\ kind.update = "merge" => cur \in Objects
  BY DEF Sends, Base, Planned, Located, UpdatePlanned, Typed
<1>2. /\ plan \in PlanRecords /\ plan.b \in Bs /\ plan.d \in BOOLEAN /\ plan.x # Masked
  BY <1>1, PlanFacts
<1> DEFINE sent == sendStoredCasing(kind, state, plan)
           body == dropUnchangedUpdateFields(kind, state, plan)
           Short == [x : Values \cup {Null, Empty}, b : {plan.b}, d : {plan.d}]
<1>3. bodyFromRaw(kind, plan) \in Short
  BY <1>2 DEF bodyFromRaw, SentX, PlanRecords, Known
<1>4. sent \in Short
  BY <1>3 DEF sendStoredCasing, SameButCase
<1>5. body \in Short
  BY <1>4 DEF dropUnchangedUpdateFields
<1> HIDE DEF sent, body
<1>6. CASE kind.update = "merge"
  <2>1. Body = mergeIntoCurrent(kind, cur, plan, body)
    BY <1>6 DEF Body, body
  <2>2. Body \in Bodies /\ Body.b = plan.b /\ Body.d = plan.d
    BY <1>1, <1>2, <1>5, <1>6, <2>1 DEF mergeIntoCurrent, Bodies, Objects
  <2> QED
    BY <1>1, <2>2
<1>7. CASE kind.update # "merge"
  <2>1. Body = [x |-> body.x, b |-> body.b, d |-> body.d, u |-> backend.u]
    BY <1>7 DEF Body, body
  <2>2. Body \in Bodies /\ Body.b = plan.b /\ Body.d = plan.d
    BY <1>1, <1>2, <1>5, <2>1 DEF Bodies, Objects
  <2> QED
    BY <1>1, <2>2
<1> QED
  BY <1>6, <1>7

LEMMA StoredType ==
    ASSUME Case, backend \in Objects, NEW body \in Bodies
    PROVE  Stored(body) \in Values \cup {Null, Empty}
BY ServerAssumption DEF Stored, Default, Objects, Bodies

LEMMA AcceptedType ==
    ASSUME Case, Base, Sends, Accepted
    PROVE  /\ backend' \in Objects /\ backend' # NoObject
           /\ backend' = [x |-> Stored(Body), b |-> plan.b, d |-> plan.d, u |-> Body.u, out |-> 1 - backend.out]
<1>1. backend \in Objects /\ Body \in Bodies /\ Body.b = plan.b /\ Body.d = plan.d
  BY SendsFacts
<1>2. Stored(Body) \in Values \cup {Null, Empty}
  BY <1>1, StoredType
<1>3. backend' \in Objects
  BY <1>1, <1>2 DEF Accepted, Objects, Bodies, Outs
<1> QED
  BY <1>1, <1>3, ObjectOK DEF Accepted, Base

LEMMA PutBase == ASSUME Case, Base, UpdatePut PROVE Base'
<1>1. Configurations' = Configurations
  BY ConfigurationsSame DEF UpdatePut
<1>2. Sends /\ Accepted /\ UpdatePlanned /\ Updates /\ pc # "idle"
  BY SendsFacts DEF UpdatePut
<1>3. backend' \in Objects /\ backend' # NoObject
  BY <1>2, AcceptedType
<1>4. Typed'
  BY <1>1, <1>2, <1>3 DEF UpdatePut, Base, Typed, history
<1>5. UpdatePlanned' /\ Updates'
  BY <1>2 DEF UpdatePut, UpdatePlanned, Updates, Tracked
<1> QED
  BY <1>3, <1>4, <1>5 DEF UpdatePut, history, Base, Planned, Located, Unmasked, Tracked

LEMMA FailsBase ==
    ASSUME Case, Base, Fails, hidden' \in BOOLEAN, faults' \in 0 .. MaxFaults,
           UNCHANGED backend \/ backend' \in Objects, backend # NoObject, Tracked
    PROVE  Base'
<1>1. Configurations' = Configurations
  BY ConfigurationsSame DEF Fails
<1>2. backend' # NoObject
  BY ObjectOK DEF Base
<1>3. Typed'
  <2>1. backend' = NoObject \/ backend' \in Objects
    BY DEF Base, Typed
  <2>2. pc' = "idle" /\ plan' = NoState /\ plan' \in PlanRecords /\ cur' = NoObject /\ warned' = FALSE
    BY NoStateType DEF Fails
  <2> QED
    BY <1>1, <2>1, <2>2 DEF Fails, Base, Typed
<1> QED
  BY <1>2, <1>3 DEF Fails, Base, Planned, Located, Unmasked, Tracked

LEMMA RefusedBase == ASSUME Case, Base, UpdateRefused PROVE Base'
<1>1. Fails /\ UNCHANGED <<backend, faults, hidden>> /\ backend # NoObject /\ Tracked
  BY SendsFacts, ObjectOK DEF UpdateRefused, Base, UpdatePlanned
<1>2. hidden' \in BOOLEAN /\ faults' \in 0 .. MaxFaults
  BY <1>1 DEF Base, Typed
<1> QED
  BY <1>1, <1>2, FailsBase

LEMMA UpdateFailsBase == ASSUME Case, Base, UpdateFails PROVE Base'
<1>1. /\ Fails /\ backend # NoObject /\ Tracked /\ Sends
      /\ Accepted \/ UNCHANGED backend
      /\ hidden' \in BOOLEAN
  BY SendsFacts, ObjectOK DEF UpdateFails, Base, UpdatePlanned, Typed, HidesChange, Readable
<1>2. faults' \in 0 .. MaxFaults
  BY BoundAssumption DEF UpdateFails, Base, Typed
<1>3. UNCHANGED backend \/ backend' \in Objects
  BY <1>1, AcceptedType
<1> QED
  BY <1>1, <1>2, <1>3, FailsBase

LEMMA EditConfigBase == ASSUME Case, Base, EditConfig PROVE Base'
<1>1. Configurations' = Configurations
  BY ConfigurationsSame DEF EditConfig
<1>2. edits' \in 0 .. MaxEdits /\ clean' = FALSE
  BY BoundAssumption DEF EditConfig, Edit, Base, Typed
<1>3. Typed'
  BY <1>1, <1>2 DEF EditConfig, Base, Typed
<1> QED
  BY <1>3 DEF EditConfig, Base, Planned, Located, Unmasked, Tracked

(* The object changes under the plan. *)
LEMMA BackendBase ==
    ASSUME Case, Base, backend # NoObject, backend' \in Objects,
           UNCHANGED <<kind, api, config, state, imported, plan, warned, pc, cur>>,
           Typed'
    PROVE  Base'
<1>1. backend' # NoObject
  BY ObjectOK DEF Base
<1>2. CreatePlanned' = CreatePlanned /\ UpdatePlanned' = UpdatePlanned /\ Updates' = Updates /\ Tracked' = Tracked
  BY DEF CreatePlanned, UpdatePlanned, Updates, Tracked
<1> QED
  BY <1>1, <1>2 DEF Base, Planned, Located, Unmasked

LEMMA ConsoleBase == ASSUME Case, Base, Console PROVE Base'
<1>1. Configurations' = Configurations
  BY ConfigurationsSame DEF Console
<1>2. backend \in Objects
  BY DEF Console, Base, Typed
<1>3. backend' \in Objects
  BY <1>2, ForeignType DEF Console, Objects
<1>4. edits' \in 0 .. MaxEdits /\ clean' = FALSE /\ hidden' \in BOOLEAN
  BY BoundAssumption DEF Console, Edit, Base, Typed, HidesChange, Readable
<1>5. Typed'
  BY <1>1, <1>3, <1>4 DEF Console, Base, Typed
<1> QED
  BY <1>3, <1>5, BackendBase DEF Console

LEMMA AssignBase == ASSUME Case, Base, Assign PROVE Base'
<1>1. Configurations' = Configurations
  BY ConfigurationsSame DEF Assign
<1>2. backend' \in Objects
  BY ServerAssumption DEF Assign, Base, Typed, Objects
<1>3. Typed'
  BY <1>1, <1>2 DEF Assign, Base, Typed, history
<1> QED
  BY <1>2, <1>3, BackendBase DEF Assign

LEMMA TickBase == ASSUME Case, Base, Tick PROVE Base'
<1>1. Configurations' = Configurations
  BY ConfigurationsSame DEF Tick
<1>2. backend' \in Objects
  BY DEF Tick, Base, Typed, Objects, Outs
<1>3. Typed'
  BY <1>1, <1>2 DEF Tick, Base, Typed
<1> QED
  BY <1>2, <1>3, BackendBase DEF Tick

LEMMA BaseStep == ASSUME AllDeclared, Base, [Next]_vars PROVE Base'
<1>1. Case
  BY CaseOK DEF Base
<1>2. CASE UNCHANGED vars
  BY <1>2, ConfigurationsSame DEF vars, history, Base, Typed, Located, Planned, Unmasked, Tracked,
     CreatePlanned, UpdatePlanned, Updates
<1> QED
  BY <1>1, <1>2, ImportBase, PlanBase, DestroyBase, CreateBase, FinishBase, ReadsOnlyBase, SkippedBase,
     MergeReadBase, PutBase, RefusedBase, UpdateFailsBase, EditConfigBase, ConsoleBase, AssignBase, TickBase
     DEF Next, Apply, Environment

LEMMA BaseInit == ASSUME Init PROVE Base
<1>1. PICK case \in Cases : kind = case.kind /\ api = case.api
  BY DEF Init
<1>2. [kind |-> kind, api |-> api] \in Cases
  BY <1>1, CasesAssumption
<1>3. 0 \in 0 .. MaxEdits /\ 0 \in 0 .. MaxFaults
  BY BoundAssumption
<1>4. config \in Configurations
  BY DEF Init
<1>5. Typed
  BY <1>2, <1>3, <1>4, NoStateType DEF Init, Typed
<1> QED
  BY <1>5, SpecialsAssumption DEF Init, Base, Located, Planned, Unmasked, Tracked, NoState

(* The variables have their types. *)
THEOREM AttributeTypes == ASSUME AllDeclared PROVE Spec => []TypeOK
<1>1. Init => Base
  BY BaseInit
<1>2. Base /\ [Next]_vars => Base'
  BY BaseStep
<1>3. Base => TypeOK
  BY TypedIsTypeOK DEF Base
<1> QED
  BY <1>1, <1>2, <1>3, PTL DEF Spec

-----------------------------------------------------------------------------
(* Plans are valid, and known where they must be.                          *)

LEMMA PlanIntended ==
    ASSUME Case, Base, NEW s \in States
    PROVE  /\ UpdatePlan(kind, config, s) \in Wanted(config, s)
           /\ UpdatePlan(kind, config, s).x \in Intended(kind, config, s)
           /\ UpdatePlan(kind, config, s).x = Unknown => LeftOpen(kind, config, s)
           /\ ValidPlan(kind, config, s, UpdatePlan(kind, config, s))
<1>1. /\ UpdatePlan(kind, config, s) \in Wanted(config, s)
      /\ UpdatePlan(kind, config, s).x \in Intended(kind, config, s)
      /\ UpdatePlan(kind, config, s).x = Unknown => LeftOpen(kind, config, s)
  BY PlanType, PlanX, ConfiguredIsSettable, ObjectOK DEF Case, Base
<1>2. HasDefault(kind) => Computed(kind)
  BY DEF Case, Declared, Computed
<1> QED
  BY <1>1, <1>2 DEF Intended, ValidPlan

LEMMA KnownStaysKnownOf == ASSUME Case, Base PROVE KnownStaysKnown
<1> SUFFICES ASSUME pc = "update", plan.x = Unknown
             PROVE  \/ state.x = Null
                    \/ plan.b # state.b
                    \/ ~Settable(kind) /\ kind.flags \cap {"stable", "stableUnlessChanged", "forceNew", "sendFromState"} = {}
  BY DEF KnownStaysKnown
<1>1. state \in States /\ plan = UpdatePlan(kind, config, state)
  BY ObjectOK DEF Base, Planned, UpdatePlanned
<1>2. LeftOpen(kind, config, state) /\ plan.b = config.b
  BY <1>1, PlanIntended DEF Wanted
<1> QED
  BY <1>2 DEF LeftOpen, Has

(* An update keeps x known, for others may depend on it, unless its input  *)
(* changes or it is an output that may change.                             *)
THEOREM UpdateKeepsKnown == ASSUME AllDeclared PROVE Spec => []KnownStaysKnown
<1>1. Init => Base
  BY BaseInit
<1>2. Base /\ [Next]_vars => Base'
  BY BaseStep
<1>3. Base => KnownStaysKnown
  BY KnownStaysKnownOf, CaseOK DEF Base
<1> QED
  BY <1>1, <1>2, <1>3, PTL DEF Spec

-----------------------------------------------------------------------------
(* What an apply returns is what was planned. *)

(* The outputs are held at their prior values only by a plan that sends    *)
(* nothing.                                                                *)
LEMMA HeldOut ==
    ASSUME Case, Base, NEW s \in States, s.out # Unknown,
           UpdatePlan(kind, config, s) # s, UpdatePlan(kind, config, s).out # Unknown
    PROVE  /\ UpdateSkips(kind, s, UpdatePlan(kind, config, s))
           /\ FullyKnown(UpdatePlan(kind, config, s))
           /\ config.b = s.b
<1> DEFINE m == Modified(kind, config, s)
           p == UpdatePlan(kind, config, s)
           o == Proposed(kind, config, s)
           q == Marked(kind, config, s)
<1>1. /\ p = ModifyPlan(kind, s, m)
      /\ m \in Wanted(config, s) /\ p \in Wanted(config, s)
      /\ p.x \in Intended(kind, config, s)
      /\ kind \in Kinds /\ config \in Configs
  BY ModifiedType, PlanIntended, ObjectOK DEF UpdatePlan, Case, Base
<1>2. o \in [x : Known, b : {config.b}, d : {config.d}, out : {s.out}, meta : {config.meta}]
  BY <1>1 DEF Proposed, States, Configs, Kinds, Known, HasDefault
<1>3. q = IF o = s THEN o
          ELSE [o EXCEPT !.out = Unknown,
                         !.x = IF Computed(kind) /\ config.x = Null /\ ~HasDefault(kind) THEN Unknown ELSE @]
  BY DEF Marked
<1>4. m = [q EXCEPT !.x =
            IF recomputeWhenChanged(kind, config, s, q) THEN Unknown
            ELSE IF nullStateMatchesEmptyDefault(kind, config, s) THEN Null
            ELSE IF @ = Unknown /\ KeptForUnknown(kind, s, q) THEN s.x
            ELSE @]
  BY DEF Modified
<1> HIDE DEF m, o, p, q
<1>5. CASE o = s
  <2>1. q = s /\ q.b = s.b
    BY <1>3, <1>5
  <2>2. m = s
    BY <1>1, <1>4, <2>1, IntendedKnown DEF recomputeWhenChanged, nullStateMatchesEmptyDefault, States
  <2>3. p = s
    BY <1>1, <2>2 DEF ModifyPlan, States
  <2> QED
    BY <2>3 DEF p
<1>6. CASE o # s
  <2>1. m.out = Unknown
    BY <1>2, <1>3, <1>4, <1>6
  <2>2. bodyFromRaw(kind, m) = bodyFromRaw(kind, s)
    BY <1>1, <2>1 DEF ModifyPlan, p
  <2>3. /\ p.x = IF Computed(kind) THEN s.x ELSE m.x
        /\ p.out = s.out /\ p.b = config.b /\ p.d = config.d
        /\ m.b = config.b /\ m.d = config.d
    BY <1>1, <2>2 DEF ModifyPlan, Wanted
  <2>4. config.b = s.b /\ config.d = s.d
    BY <2>2, <2>3 DEF bodyFromRaw
  <2>5. p.x # Unknown
    BY <1>1, <2>3, IntendedKnown, SpecialsAssumption DEF Intended
  <2>6. bodyFromRaw(kind, p) = bodyFromRaw(kind, s)
    BY <2>2, <2>3, <2>4 DEF bodyFromRaw, SentX
  <2>7. ~(HasUpdatePath(kind) /\ SameButCase(p.x, s.x))
    <3>1. SUFFICES ASSUME HasUpdatePath(kind), SameButCase(p.x, s.x) PROVE FALSE
      OBVIOUS
    <3>2. ~Computed(kind) /\ Settable(kind)
      BY <2>3, <3>1 DEF SameButCase, Computed, Settable, Case, Kinds
    <3>3. p.x = s.x
      BY <1>1, <2>5, <2>6, <3>1, <3>2, IntendedKnown DEF bodyFromRaw, SentX
    <3> QED
      BY <3>1, <3>3 DEF SameButCase
  <2>8. UpdateSkips(kind, s, p)
    BY <2>6, <2>7 DEF UpdateSkips, sendStoredCasing
  <2>9. FullyKnown(p)
    BY <1>1, <2>3, <2>5, IntendedKnown, FieldsAssumption, SpecialsAssumption DEF FullyKnown, Wanted, Configs, Specials
  <2> QED
    BY <2>4, <2>8, <2>9 DEF p
<1> QED
  BY <1>5, <1>6

(* An update that sends something keeps an output only by its kind.        *)
Keeps(k, p, s) ==
    \/ k.flags \cap {"forceNew", "sendFromState"} # {}
    \/ Has(k, "stable") /\ s.x # Null
    \/ Has(k, "stableUnlessChanged") /\ s.x # Null /\ p.b = s.b

LEMMA HeldX ==
    ASSUME Case, Base, ~Settable(kind), NEW s \in States, s.out # Unknown,
           UpdatePlan(kind, config, s) # s, UpdatePlan(kind, config, s).x # Unknown
    PROVE  /\ UpdatePlan(kind, config, s).x = s.x
           /\ \/ Keeps(kind, config, s)
              \/ /\ UpdateSkips(kind, s, UpdatePlan(kind, config, s))
                 /\ FullyKnown(UpdatePlan(kind, config, s))
                 /\ config.b = s.b
<1> DEFINE m == Modified(kind, config, s)
           p == UpdatePlan(kind, config, s)
           q == Marked(kind, config, s)
<1>1. /\ p = ModifyPlan(kind, s, m)
      /\ m \in Wanted(config, s) /\ p \in Wanted(config, s)
      /\ p.x \in Intended(kind, config, s)
      /\ kind \in Kinds /\ config \in Configs
      /\ config.x = Null /\ ~HasDefault(kind) /\ Computed(kind)
  BY ModifiedType, PlanIntended, ObjectOK, ConfiguredIsSettable
     DEF UpdatePlan, Case, Base, Settable, Computed, Declared
<1>2. p.x = s.x
  BY <1>1 DEF Intended
<1>3. ASSUME p.out = Unknown PROVE Keeps(kind, config, s)
  <2>1. m.out = Unknown /\ p.x = m.x
    BY <1>1, <1>3 DEF ModifyPlan, Wanted, p
  <2>2. Proposed(kind, config, s) \in [x : {s.x}, b : {config.b}, d : {config.d}, out : {s.out}, meta : {config.meta}]
    BY <1>1 DEF Proposed
  <2>3. m = [q EXCEPT !.x =
              IF recomputeWhenChanged(kind, config, s, q) THEN Unknown
              ELSE IF nullStateMatchesEmptyDefault(kind, config, s) THEN Null
              ELSE IF @ = Unknown /\ KeptForUnknown(kind, s, q) THEN s.x
              ELSE @]
    BY DEF Modified
  <2>4. q.x = Unknown /\ q.b = config.b /\ q \in Wanted(config, s)
    BY <1>1, <2>1, <2>2, <2>3 DEF Marked, Wanted
  <2>5. ~recomputeWhenChanged(kind, config, s, q) /\ ~nullStateMatchesEmptyDefault(kind, config, s)
    BY <1>1, SpecialsAssumption DEF recomputeWhenChanged, nullStateMatchesEmptyDefault, HasDefault, Specials, Case, ValidKind, Settable
  <2>6. KeptForUnknown(kind, s, q)
    BY <2>1, <2>3, <2>4, <2>5 DEF Wanted
  <2> QED
    BY <2>4, <2>6 DEF KeptForUnknown, useStateForUnknown, preserveNonNullOnly, stableUnlessKeeps, Keeps, Has
<1>4. ASSUME p.out # Unknown PROVE UpdateSkips(kind, s, p) /\ FullyKnown(p) /\ config.b = s.b
  BY <1>4, HeldOut
<1> QED
  BY <1>2, <1>3, <1>4

(* Two forms of one value. *)
SameForm(v, w) ==
    \/ v = w
    \/ Has(kind, "caseInsensitive") /\ SameButCase(v, w)

LEMMA SameFormTransitive ==
    ASSUME NEW u, NEW v, NEW w, SameForm(u, v), SameForm(v, w)
    PROVE  SameForm(u, w) /\ SameForm(v, u)
BY DEF SameForm, SameButCase

(* What the server gives an output, and what the state holds of it.        *)
Given(v, b) ==
    \/ SameForm(v, IF Derives THEN Derived[b] ELSE Filled)
    \/ api = "late" /\ v = Null

Outputs ==
    /\ pc = "update" /\ ~moved => state.out = backend.out
    /\ pc \in {"update", "merged"} => state.b = backend.b
    /\ pc = "reply" => backend.b = plan.b
    /\ ~Settable(kind) =>
         /\ backend # NoObject => Given(backend.x, backend.b)
         /\ pc \in {"update", "merged"} \/ (pc = "reply" /\ Tracked) =>
              Given(state.x, state.b) /\ (state.x # Null => backend.x # Null)

(* What a reply shows, habit by habit. *)
LEMMA ShownIs ==
    ASSUME Case, NEW write \in BOOLEAN, ~Has(kind, "equivalentResponseValues")
    PROVE  /\ api \in {"plain", "late", "derived", "delta"} => Shown(write) = {backend.x}
           /\ api = "blank" => Shown(write) = IF IsEmpty(backend.x) THEN {Null, Empty} ELSE {backend.x}
           /\ api = "masked" => Shown(write) = IF IsEmpty(backend.x) THEN {backend.x} ELSE {Masked}
           /\ api = "redacted" => Shown(write) = {Empty}
           /\ api = "recased" =>
                Shown(write) = IF backend.x \in Values THEN {w \in Values : Form[w] = Form[backend.x]}
                               ELSE {backend.x}
           /\ api = "partial" => Shown(write) = IF write THEN {backend.x, Null} ELSE {backend.x}
<1>1. \A w : ~ResolvedForm(kind, backend.x, w)
  BY DEF ResolvedForm
<1>2. api \in {"plain", "late", "derived", "delta"} => Shown(write) = {backend.x}
  BY <1>1 DEF Shown
<1>3. api = "blank" => Shown(write) = IF IsEmpty(backend.x) THEN {Null, Empty} ELSE {backend.x}
  BY <1>1 DEF Shown
<1>4. api = "masked" => Shown(write) = IF IsEmpty(backend.x) THEN {backend.x} ELSE {Masked}
  BY <1>1 DEF Shown
<1>5. api = "redacted" => Shown(write) = {Empty}
  BY <1>1 DEF Shown
<1>6. api = "recased" =>
        Shown(write) = IF backend.x \in Values THEN {w \in Values : Form[w] = Form[backend.x]}
                       ELSE {backend.x}
  BY <1>1 DEF Shown
<1>7. api = "partial" => Shown(write) = IF write THEN {backend.x, Null} ELSE {backend.x}
  BY <1>1 DEF Shown
<1> QED
  BY <1>2, <1>3, <1>4, <1>5, <1>6, <1>7

(* A reply shows an output in one of its forms, or leaves it out.          *)
LEMMA OutputShown ==
    ASSUME Case, ~Settable(kind), backend \in Objects, Given(backend.x, backend.b),
           NEW write \in BOOLEAN, NEW v \in Shown(write)
    PROVE  \/ SameForm(v, backend.x)
           \/ api = "partial" /\ write /\ v = Null
<1>1. /\ api \notin {"masked", "redacted"} /\ ~Has(kind, "equivalentResponseValues")
      /\ api = "recased" => Has(kind, "caseInsensitive")
  BY DEF Case, Declared, ValidKind, Settable, Computed
<1>2. api # "late" => backend.x \in Values
  BY ServerAssumption DEF Given, SameForm, SameButCase, Objects
<1>3. api = "blank" => Shown(write) = {backend.x}
  BY <1>1, <1>2, ShownIs, ValuesAssumption DEF IsEmpty, Specials
<1>4. api \in {"plain", "late", "derived", "delta", "blank"} => Shown(write) = {backend.x}
  BY <1>1, <1>3, ShownIs
<1>5. api \in Habits
  BY DEF Case
<1>6. CASE api = "recased"
  BY <1>1, <1>2, <1>6, ShownIs DEF SameForm, SameButCase
<1>7. CASE api = "partial"
  BY <1>1, <1>7, ShownIs DEF SameForm
<1>8. CASE api \in {"plain", "late", "derived", "delta", "blank"}
  BY <1>4, <1>8 DEF SameForm
<1> QED
  BY <1>1, <1>5, <1>6, <1>7, <1>8 DEF Habits

(* A refresh takes an output as the server gives it. *)
LEMMA OutputRefreshed ==
    ASSUME Case, Base, Outputs, ~Settable(kind), Tracked, NEW s \in Refreshed
    PROVE  Given(s.x, s.b) /\ (s.x # Null => backend.x # Null)
<1>1. backend \in Objects /\ Given(backend.x, backend.b) /\ state \in States
  BY ObjectOK DEF Base, Located, Outputs
<1>2. PICK v \in Shown(FALSE) : s.x = StateX(kind, state.x, v, TRUE)
  BY RefreshType
<1>3. s.b = backend.b
  BY RefreshType
<1>4. SameForm(v, backend.x)
  BY <1>1, OutputShown
<1>5. /\ ~Has(kind, "noRead") /\ ~Has(kind, "preserveOnEmptyResponse") /\ ~Has(kind, "equivalentResponseValues")
  BY DEF Case, Declared, ValidKind, Settable, Computed
<1>6. s.x = keepPriorCasing(kind, state.x, v)
  BY <1>2, <1>5 DEF StateX, TakesResponse, restorePreservedValues, keepEmptyForm, keepStable,
     keepEquivalentValue, ResolvedForm
<1>7. SameForm(s.x, v)
  BY <1>6 DEF keepPriorCasing, SameForm
<1>8. SameForm(s.x, backend.x)
  BY <1>4, <1>7, SameFormTransitive
<1>9. Given(s.x, backend.b)
  BY <1>1, <1>8, SameFormTransitive, ValuesAssumption DEF Given, SameForm, SameButCase, Specials
<1> QED
  BY <1>3, <1>8, <1>9, ValuesAssumption DEF SameForm, SameButCase, Specials

LEMMA SentFromState ==
    ASSUME Case, Base, Outputs, Sends, ~Settable(kind), Has(kind, "sendFromState")
    PROVE  /\ Body.x = state.x /\ SameForm(state.x, Filled)
           /\ api \notin {"late", "derived"} /\ Body.x # Null
<1>1. /\ UpdatePlanned /\ state \in States /\ pc \in {"update", "merged"}
      /\ plan = UpdatePlan(kind, config, state)
  BY SendsFacts, ObjectOK DEF Base, UpdatePlanned
<1>2. /\ api \notin {"late", "derived", "delta"} /\ ~Has(kind, "updateOnlyIfChanged")
      /\ HasUpdatePath(kind) /\ ~HasDefault(kind) /\ config.x = Null /\ Computed(kind)
  BY ConfiguredIsSettable DEF Case, Declared, ValidKind, Settable, Computed, HasUpdatePath, Has, Base
<1>3. SameForm(state.x, Filled)
  BY <1>1, <1>2 DEF Outputs, Given, Derives
<1>4. state.x \in Values
  BY <1>3, ServerAssumption DEF SameForm, SameButCase
<1>5. plan.x = state.x
  BY <1>1, <1>2, PlanIntended DEF Intended, LeftOpen, Has
<1>6. state.x # Null /\ state.x # Unknown
  BY <1>4, ValuesAssumption DEF Specials
<1>7. dropUnchangedUpdateFields(kind, state, plan).x = state.x
  BY <1>2, <1>5, <1>6 DEF dropUnchangedUpdateFields, sendStoredCasing, SameButCase, bodyFromRaw, SentX
<1>8. Body.x = state.x
  BY <1>6, <1>7 DEF Body, mergeIntoCurrent
<1> QED
  BY <1>2, <1>3, <1>6, <1>8

(* An update leaves an output what the server gives. *)
LEMMA OutputStored ==
    ASSUME Case, Base, Outputs, Sends, Accepted, ~Settable(kind)
    PROVE  Given(backend'.x, plan.b) /\ (backend.x # Null => backend'.x # Null)
<1>1. /\ backend' = [x |-> Stored(Body), b |-> plan.b, d |-> plan.d, u |-> Body.u, out |-> 1 - backend.out]
      /\ Body.b = plan.b /\ backend # NoObject /\ plan.b \in Bs
  BY AcceptedType, SendsFacts, PlanFacts, ObjectOK DEF Base
<1>2. HasUpdatePath(kind)
  BY DEF Case, Declared, Settable, Computed, HasUpdatePath
<1>3. CASE Has(kind, "sendFromState")
  BY <1>1, <1>2, <1>3, SentFromState DEF Stored, Given, Derives
<1>4. CASE ~Has(kind, "sendFromState") /\ Derives
  <2>1. Stored(Body) = Derived[plan.b]
    BY <1>1, <1>2, <1>4 DEF Stored
  <2> QED
    BY <1>1, <1>4, <2>1, ServerAssumption, ValuesAssumption DEF Given, SameForm, Specials
<1>5. CASE ~Has(kind, "sendFromState") /\ ~Derives
  <2>1. Stored(Body) = backend.x
    BY <1>2, <1>5 DEF Stored
  <2> QED
    BY <1>1, <1>5, <2>1 DEF Outputs, Given
<1> QED
  BY <1>3, <1>4, <1>5

LEMMA OutputCreated ==
    ASSUME Case, Base, pc = "create", ~Settable(kind)
    PROVE  LET o == Created([x |-> SentX(kind, plan), b |-> plan.b, d |-> plan.d]) IN
           Given(o.x, o.b)
<1>1. /\ ~HasDefault(kind) /\ config.x = Null /\ Computed(kind)
      /\ kind \in Kinds /\ config \in Configs
  BY ConfiguredIsSettable, ObjectOK DEF Case, Declared, Settable, Computed, Base
<1>2. plan.x = Unknown
  BY <1>1, CreatePlanIs DEF Base, Planned, CreatePlanned, CreatedX
<1> QED
  BY <1>1, <1>2 DEF SentX, Created, Default, Given, SameForm

LEMMA OutputForeign ==
    ASSUME Case, backend \in Objects, ~Settable(kind), NEW x \in ForeignX
    PROVE  Given(x, backend.b) /\ x # Null
<1>1. x = IF Derives THEN Derived[backend.b] ELSE Filled
  BY DEF ForeignX, Settable, Derives
<1> QED
  BY <1>1, ServerAssumption, ValuesAssumption DEF Given, SameForm, Objects, Specials

LEMMA OutputsStep == ASSUME Case, Base, Outputs, [Next]_vars PROVE Outputs'
<1>0. UNCHANGED <<kind, api>>
  BY DEF Next, Plan, PlanCreate, PlanReplace, PlanUpdate, PlanNothing, PlanRejected, Plans,
     Apply, Destroy, Create, Finish, UpdateReadsOnly, UpdateSkipped, EndsWithReply, Ends,
     MergeRead, UpdatePut, UpdateRefused, UpdateFails, Fails,
     Environment, Import, EditConfig, Console, Assign, Tick, vars
<1>1. Settable(kind)' = Settable(kind) /\ \A v, b : Given(v, b)' = Given(v, b)
  BY <1>0 DEF Settable, Given, SameForm, Derives
<1>2. CASE Import
  <2>1. /\ pc' = "idle" /\ backend' \in Objects
        /\ backend'.x \in IF kind.mode = "computed" /\ Derives THEN {Derived[backend'.b]} ELSE ForeignX
    BY <1>2, ServerAssumption DEF Import, ForeignX, RealX, Objects, Outs
  <2>2. ~Settable(kind) => Given(backend'.x, backend'.b)
    BY <2>1 DEF Settable, ForeignX, Derives, Given, SameForm
  <2> QED
    BY <1>1, <2>1, <2>2 DEF Outputs
<1>3. CASE Plan
  <2>1. backend' = backend /\ pc = "idle"
    BY <1>3 DEF Plan, PlanCreate, PlanReplace, PlanUpdate, PlanNothing, PlanRejected, Plans
  <2>2. CASE pc' # "update"
    BY <1>1, <1>3, <2>1, <2>2 DEF Outputs, Plan, PlanCreate, PlanReplace, PlanUpdate, PlanNothing, PlanRejected, Plans
  <2>3. CASE pc' = "update"
    <3>1. PICK s \in Refreshed : state' = s /\ Tracked
      BY <1>3, <2>1, <2>3 DEF Plan, PlanCreate, PlanReplace, PlanUpdate, PlanNothing, PlanRejected, Plans
    <3>2. s.out = backend.out /\ s.b = backend.b
      BY <3>1, RefreshType
    <3>3. ~Settable(kind) => Given(s.x, s.b) /\ (s.x # Null => backend.x # Null)
      BY <3>1, OutputRefreshed
    <3> QED
      BY <1>1, <2>1, <2>3, <3>1, <3>2, <3>3 DEF Outputs
  <2> QED
    BY <2>2, <2>3
<1>4. CASE Destroy
  BY <1>1, <1>4 DEF Destroy, Outputs
<1>5. CASE Create
  <2>1. ~Settable(kind) => Given(backend'.x, backend'.b)
    BY <1>5, OutputCreated DEF Create
  <2>2. backend'.b = plan.b /\ pc' = "reply" /\ plan' = plan /\ ~Tracked'
    BY <1>5 DEF Create, Created, Base, Planned, CreatePlanned, Tracked
  <2> QED
    BY <1>1, <2>1, <2>2 DEF Outputs
<1>6. CASE Finish \/ UpdateReadsOnly \/ UpdateSkipped \/ UpdateRefused
  BY <1>1, <1>6 DEF Finish, UpdateReadsOnly, UpdateSkipped, EndsWithReply, Ends, UpdateRefused, Fails, Outputs
<1>7. CASE MergeRead
  BY <1>1, <1>7 DEF MergeRead, Outputs
<1>8. CASE UpdatePut
  <2>1. /\ Sends /\ Accepted /\ pc \in {"update", "merged"} /\ pc' = "reply" /\ plan' = plan /\ state' = state
        /\ backend'.b = plan.b
    BY <1>8, SendsFacts, AcceptedType DEF UpdatePut
  <2>2. ~Settable(kind) => Given(backend'.x, plan.b) /\ (backend.x # Null => backend'.x # Null)
    BY <2>1, OutputStored
  <2> QED
    BY <1>1, <2>1, <2>2 DEF Outputs
<1>9. CASE UpdateFails
  <2>1. /\ Sends /\ pc' = "idle" /\ backend # NoObject
        /\ Accepted \/ UNCHANGED backend
        /\ Accepted => backend'.b = plan.b
    BY <1>9, SendsFacts, AcceptedType, ObjectOK DEF UpdateFails, Fails, Base
  <2>2. ~Settable(kind) /\ Accepted => Given(backend'.x, plan.b)
    BY <2>1, OutputStored
  <2> QED
    BY <1>1, <2>1, <2>2 DEF Outputs
<1>10. CASE EditConfig
  BY <1>1, <1>10 DEF EditConfig, Outputs
<1>11. CASE Console
  <2>1. /\ backend \in Objects /\ UNCHANGED <<pc, plan, state, moved>>
        /\ backend'.b = backend.b /\ backend'.out = backend.out
        /\ backend'.x \in ForeignX \/ backend'.x = backend.x
    BY <1>11 DEF Console, Base, Typed, Objects
  <2>2. ~Settable(kind) => /\ Given(backend'.x, backend'.b)
                           /\ backend.x # Null => backend'.x # Null
    BY <1>11, <2>1, OutputForeign DEF Outputs, Console
  <2> QED
    BY <1>1, <2>1, <2>2, <1>11 DEF Outputs, Tracked, Console
<1>12. CASE Assign
  <2>1. /\ backend \in Objects /\ UNCHANGED <<pc, plan, state, moved>>
        /\ backend'.b = backend.b /\ backend'.out = backend.out /\ backend'.x = Filled
        /\ ~Derives /\ Filled # Null /\ backend # NoObject
    BY <1>12, ServerAssumption, ValuesAssumption DEF Assign, history, Base, Typed, Objects, Derives, Specials
  <2>2. Given(backend'.x, backend'.b)
    BY <2>1 DEF Given, SameForm
  <2> QED
    BY <1>1, <2>1, <2>2 DEF Outputs, Tracked
<1>13. CASE Tick
  <2>1. /\ UNCHANGED <<pc, plan, state>> /\ moved' = TRUE
        /\ backend'.b = backend.b /\ backend'.x = backend.x /\ backend # NoObject
    BY <1>13 DEF Tick, Base, Typed, Objects
  <2> QED
    BY <1>1, <2>1 DEF Outputs, Tracked
<1>14. CASE UNCHANGED vars
  BY <1>1, <1>14 DEF vars, history, Outputs, Tracked
<1> QED
  BY <1>2, <1>3, <1>4, <1>5, <1>6, <1>7, <1>8, <1>9, <1>10, <1>11, <1>12, <1>13, <1>14
     DEF Next, Apply, Environment

LEMMA OutputsInit == ASSUME Init PROVE Outputs
BY DEF Init, Outputs

(* The response does not change an output that is planned at its value.    *)
LEMMA OutputKept ==
    ASSUME Case, ~Settable(kind), backend \in Objects, Given(backend.x, backend.b),
           NEW write \in BOOLEAN, NEW v \in Shown(write),
           NEW x \in Values, SameForm(x, backend.x),
           write /\ api = "partial" => Has(kind, "stable") \/ Has(kind, "stableUnlessChanged")
    PROVE  StateX(kind, x, v, FALSE) = x
<1>1. \/ SameForm(v, backend.x)
      \/ api = "partial" /\ write /\ v = Null
  BY OutputShown
<1>2. /\ ~Has(kind, "noRead") /\ ~Has(kind, "preserveOnEmptyResponse") /\ ~Has(kind, "equivalentResponseValues")
  BY DEF Case, Declared, ValidKind, Settable, Computed
<1>3. x # Null /\ x # Unknown /\ x # Empty /\ Null \notin Values /\ Empty \notin Values
  BY ValuesAssumption DEF Specials
<1>4. StateX(kind, x, v, FALSE) = keepPriorCasing(kind, x, keepStable(kind, x, v, FALSE))
  BY <1>2 DEF StateX, TakesResponse, restorePreservedValues, keepEmptyForm,
     keepEquivalentValue, ResolvedForm
<1>5. CASE SameForm(v, backend.x)
  <2>0. SameForm(backend.x, v)
    BY <1>5 DEF SameForm, SameButCase
  <2>1. SameForm(x, v)
    BY <2>0, SameFormTransitive
  <2>2. keepStable(kind, x, v, FALSE) = v
    BY <1>3, <2>1 DEF keepStable, SameForm, SameButCase, IsEmpty
  <2> QED
    BY <1>4, <2>1, <2>2 DEF keepPriorCasing, SameForm
<1>6. CASE api = "partial" /\ write /\ v = Null
  <2>1. keepStable(kind, x, v, FALSE) = x
    BY <1>3, <1>6 DEF keepStable, IsEmpty
  <2> QED
    BY <1>4, <2>1 DEF keepPriorCasing
<1> QED
  BY <1>1, <1>5, <1>6

(* The x of the new state is the planned one. *)
LEMMA ResultX ==
    ASSUME Case, Base, Outputs, pc \in {"update", "reply"}, NEW write \in BOOLEAN,
           NEW v \in Shown(write), plan.x # Unknown,
           pc = "update" => /\ ~write
                            /\ kind.update = "none" \/ ~FullyKnown(plan)
    PROVE  StateX(kind, plan.x, v, FALSE) = plan.x
<1>1. CASE Settable(kind)
  BY <1>1 DEF StateX, TakesResponse
<1>2. CASE ~Settable(kind)
  <2>1. /\ backend \in Objects /\ state \in States /\ state.out # Unknown
        /\ kind \in Kinds /\ config \in Configs
    BY ObjectOK, FieldsAssumption, SpecialsAssumption DEF Base, Located, Planned, UpdatePlanned, Case, States, Specials
  <2>2. UpdatePlanned
    <3>1. ~HasDefault(kind) /\ config.x = Null /\ Computed(kind)
      BY <1>2, ConfiguredIsSettable DEF Case, Declared, Settable, Computed, Base
    <3>2. ~CreatePlanned
      BY <2>1, <3>1, CreatePlanIs DEF CreatePlanned, CreatedX
    <3> QED
      BY <3>2 DEF Base, Planned
  <2>3. /\ plan.x = state.x
        /\ \/ Keeps(kind, config, state)
           \/ /\ UpdateSkips(kind, state, plan)
              /\ FullyKnown(plan)
              /\ config.b = state.b
    BY <1>2, <2>1, <2>2, HeldX DEF UpdatePlanned
  <2>4. \/ Keeps(kind, config, state)
        \/ pc = "update" /\ kind.update = "none"
    <3>1. pc = "reply" => ~UpdateSkips(kind, state, plan)
      BY <2>1, <2>2 DEF Base, Planned, CreatePlanned, UpdatePlanned, Updates
    <3> QED
      BY <2>3, <3>1
  <2>5. /\ Given(state.x, state.b) /\ Given(backend.x, backend.b)
        /\ state.x # Null => backend.x # Null
        /\ backend.b = IF pc = "update" THEN state.b ELSE config.b
    <3>1. plan.b = config.b /\ backend # NoObject
      BY <2>1, PlanFacts, ObjectOK DEF Base
    <3> QED
      BY <1>2, <2>1, <2>2, <3>1 DEF Outputs, UpdatePlanned
  <2>6. /\ Filled \in Values /\ Null \notin Values
        /\ \A b \in Bs : Derived[b] \in Values
        /\ state.b \in Bs /\ backend.b \in Bs
    BY <2>1, <2>2, ServerAssumption, ValuesAssumption DEF Base, Located, UpdatePlanned, Objects, Specials
  <2>7. state.x # Null /\ (Derives => state.b = backend.b)
    <3>1. CASE Keeps(kind, config, state)
      BY <1>2, <2>5, <2>6, <3>1 DEF Keeps, Case, Declared, Given, SameForm, SameButCase, Derives, Has
    <3>2. CASE pc = "update" /\ kind.update = "none"
      BY <2>5, <2>6, <3>2 DEF Case, Declared, Given, SameForm, SameButCase
    <3> QED
      BY <2>4, <3>1, <3>2
  <2>8. state.x \in Values /\ SameForm(state.x, backend.x)
    <3>1. PICK w \in Values : SameForm(state.x, w) /\ SameForm(backend.x, w)
      BY <2>5, <2>6, <2>7 DEF Given
    <3>2. SameForm(state.x, backend.x)
      BY <3>1 DEF SameForm, SameButCase
    <3> QED
      BY <3>1, <3>2 DEF SameForm, SameButCase
  <2>9. write /\ api = "partial" => Has(kind, "stable") \/ Has(kind, "stableUnlessChanged")
    BY <1>2, <2>4 DEF Keeps, Case, Declared, Has
  <2> QED
    BY <1>2, <2>1, <2>3, <2>5, <2>8, <2>9, OutputKept
<1> QED
  BY <1>1, <1>2

(* The end of an apply that reads the object. *)
LEMMA ReplyCompatible ==
    ASSUME Case, Base, Outputs, pc \in {"update", "reply"}, NEW write \in BOOLEAN,
           NEW reply \in Replies(write),
           pc = "update" => /\ ~write
                            /\ \/ kind.update = "none" /\ ~moved
                               \/ UpdateSkips(kind, state, plan) /\ ~FullyKnown(plan)
    PROVE  Compatible(buildStateRaw(kind, plan, reply, FALSE))
<1> DEFINE r == buildStateRaw(kind, plan, reply, FALSE)
<1>1. /\ backend \in Objects /\ backend # NoObject /\ state \in States
      /\ pc # "idle" /\ kind \in Kinds /\ config \in Configs
      /\ plan \in PlanRecords
  BY ObjectOK DEF Base, Located, Planned, UpdatePlanned, Case
<1>2. /\ r \in States
      /\ r.b = plan.b /\ r.d = plan.d /\ r.out = backend.out /\ r.meta = plan.meta
      /\ r.x = StateX(kind, plan.x, reply.x, FALSE)
      /\ reply.x \in Shown(write)
  BY <1>1, EndType
<1>3. plan.x \in {Unknown, r.x}
  <2>1. pc = "update" => /\ ~write
                         /\ kind.update = "none" \/ ~FullyKnown(plan)
    OBVIOUS
  <2> QED
    BY <1>2, <2>1, ResultX
<1>4. plan.out \in {Unknown, r.out}
  <2>1. SUFFICES ASSUME plan.out # Unknown PROVE plan.out = backend.out
    BY <1>2
  <2>2. UpdatePlanned
    BY <1>1, <2>1, CreatePlanIs DEF Base, Planned, CreatePlanned
  <2>3. plan = UpdatePlan(kind, config, state) /\ state.out # Unknown /\ plan # state
    BY <1>1, <2>2, FieldsAssumption, SpecialsAssumption DEF UpdatePlanned, States, Specials
  <2>4. UpdateSkips(kind, state, plan) /\ FullyKnown(plan)
    BY <1>1, <2>1, <2>3, HeldOut
  <2>5. pc = "update" /\ kind.update = "none" /\ ~moved
    BY <2>2, <2>4 DEF Base, Planned, CreatePlanned, UpdatePlanned, Updates
  <2>6. plan \in Wanted(config, state)
    BY <1>1, <2>3, PlanType
  <2> QED
    BY <2>1, <2>5, <2>6 DEF Outputs, Wanted
<1>5. /\ r.x # Unknown /\ r.b # Unknown /\ r.d # Unknown /\ r.out # Unknown /\ r.meta # Unknown
  BY <1>2, IntendedKnown, FieldsAssumption, SpecialsAssumption, ValuesAssumption DEF States, Known, Specials
<1>6. DOMAIN plan = {"x", "b", "d", "out", "meta"}
  BY <1>1 DEF PlanRecords
<1> HIDE DEF r
<1>7. Compatible(r)
  BY <1>2, <1>3, <1>4, <1>5, <1>6 DEF Compatible
<1> QED
  BY <1>7 DEF r

LEMMA NeverRejectedStep ==
    ASSUME Case, Base, Outputs, [Next]_vars
    PROVE  rejected' \notin {"none", rejected} => rejected' = "result" /\ kind.update = "none" /\ moved
<1> SUFFICES ASSUME rejected' \notin {"none", rejected}
             PROVE  rejected' = "result" /\ kind.update = "none" /\ moved
  OBVIOUS
<1>1. CASE Plan
  <2>1. PICK s \in Refreshed : PlanRejected(s)
    BY <1>1 DEF Plan, PlanCreate, PlanReplace, PlanUpdate, PlanNothing, Plans
  <2>2. s \in States
    BY <2>1, RefreshType DEF PlanRejected
  <2> QED
    BY <2>1, <2>2, PlanIntended DEF PlanRejected
<1>2. CASE Finish
  <2>1. PICK reply \in Replies(TRUE) : Ends(buildStateRaw(kind, plan, reply, FALSE))
    BY <1>2 DEF Finish, EndsWithReply
  <2>2. Compatible(buildStateRaw(kind, plan, reply, FALSE))
    BY <1>2, ReplyCompatible DEF Finish
  <2> QED
    BY <2>1, <2>2 DEF Ends
<1>3. CASE UpdateReadsOnly
  <2>1. PICK reply \in Replies(FALSE) : Ends(buildStateRaw(kind, plan, reply, FALSE))
    BY <1>3 DEF UpdateReadsOnly, EndsWithReply
  <2>2. ~moved => Compatible(buildStateRaw(kind, plan, reply, FALSE))
    BY <1>3, ReplyCompatible DEF UpdateReadsOnly
  <2> QED
    BY <1>3, <2>1, <2>2 DEF Ends, UpdateReadsOnly, Base, Typed
<1>4. CASE UpdateSkipped
  <2>1. CASE FullyKnown(plan)
    <3>1. Compatible(plan)
      BY <2>1 DEF FullyKnown, Compatible
    <3> QED
      BY <1>4, <2>1, <3>1 DEF UpdateSkipped, Ends
  <2>2. CASE ~FullyKnown(plan)
    <3>1. PICK reply \in Replies(FALSE) : Ends(buildStateRaw(kind, plan, reply, FALSE))
      BY <1>4, <2>2 DEF UpdateSkipped, EndsWithReply
    <3>2. Compatible(buildStateRaw(kind, plan, reply, FALSE))
      BY <1>4, <2>2, ReplyCompatible DEF UpdateSkipped
    <3> QED
      BY <3>1, <3>2 DEF Ends
  <2> QED
    BY <2>1, <2>2
<1>5. CASE Destroy \/ Create \/ MergeRead \/ UpdatePut \/ UpdateRefused \/ UpdateFails \/ Environment \/ UNCHANGED vars
  BY <1>5 DEF Destroy, Create, MergeRead, UpdatePut, UpdateRefused, UpdateFails, Fails,
     Environment, Import, EditConfig, Console, Assign, Tick, vars, history
<1> QED
  BY <1>1, <1>2, <1>3, <1>4, <1>5 DEF Next, Apply

Sound == Base /\ Outputs

LEMMA SoundInit == ASSUME Init PROVE Sound
BY BaseInit, OutputsInit DEF Sound

LEMMA SoundStep == ASSUME AllDeclared, Sound, [Next]_vars PROVE Sound'
BY BaseStep, OutputsStep, CaseOK DEF Sound, Base

(* Terraform core never refuses what the engine plans or returns, but for  *)
(* an output that moves under the update of a resource without one.        *)
THEOREM PlansAreKept == ASSUME AllDeclared PROVE Spec => NeverRejected
<1>1. Init => Sound
  BY SoundInit
<1>2. Sound /\ [Next]_vars => Sound'
  BY SoundStep
<1>3. Sound /\ [Next]_vars =>
        [rejected' \notin {"none", rejected} =>
            rejected' = "result" /\ kind.update = "none" /\ moved]_vars
  BY NeverRejectedStep, CaseOK DEF Sound, Base
<1> QED
  BY <1>1, <1>2, <1>3, PTL DEF Spec, NeverRejected

-----------------------------------------------------------------------------
(* What the engine sees of the object. *)

(* The same, for an API that shows a value in its resolved form. *)
LEMMA ResolvedShown ==
    ASSUME Case, Has(kind, "equivalentResponseValues"), backend \in Objects, NEW write \in BOOLEAN
    PROVE  /\ Shown(write) = IF backend.x \in Values /\ Resolved[backend.x] # {}
                             THEN Resolved[backend.x] ELSE {backend.x}
           /\ ~Has(kind, "caseInsensitive")
<1>1. api = "plain" /\ ~Has(kind, "caseInsensitive")
  BY DEF Case, Declared, Has
<1>2. (\E w \in Values : ResolvedForm(kind, backend.x, w)) <=> backend.x \in Values /\ Resolved[backend.x] # {}
  BY ValuesAssumption DEF ResolvedForm
<1> QED
  BY <1>1, <1>2 DEF Shown

(* A value, or an empty one for an empty one. *)
Alike(v, w) == SameForm(v, w) \/ (IsEmpty(v) /\ IsEmpty(w))

LEMMA ShownAlike ==
    ASSUME Case, Readable, backend \in Objects, ~Has(kind, "equivalentResponseValues"), NEW v \in Shown(FALSE)
    PROVE  Alike(v, backend.x) /\ v \in Values \cup {Null, Empty}
<1>1. /\ api \in {"plain", "late", "derived", "delta", "blank", "recased", "partial"}
      /\ api = "recased" => Has(kind, "caseInsensitive")
      /\ backend.x \in Values \cup {Null, Empty}
  BY DEF Readable, Case, Declared, Habits, Objects
<1>2. CASE api \in {"plain", "late", "derived", "delta"}
  BY <1>1, <1>2, ShownIs DEF Alike, SameForm
<1>3. CASE api = "blank"
  <2>1. v \in IF IsEmpty(backend.x) THEN {Null, Empty} ELSE {backend.x}
    BY <1>3, ShownIs
  <2> QED
    BY <1>1, <2>1 DEF Alike, SameForm, IsEmpty
<1>4. CASE api = "recased"
  BY <1>1, <1>4, ShownIs DEF Alike, SameForm, SameButCase
<1>5. CASE api = "partial"
  BY <1>1, <1>5, ShownIs DEF Alike, SameForm
<1> QED
  BY <1>1, <1>2, <1>3, <1>4, <1>5

(* What a refresh makes of a value shown, where nothing is hidden. *)
LEMMA RefreshedX ==
    ASSUME Case, Readable, NEW base, NEW v
    PROVE  StateX(kind, base, v, TRUE) =
             keepEquivalentValue(kind, base, keepPriorCasing(kind, base, keepEmptyForm(kind, base, v)))
BY DEF Case, Declared, Readable, StateX, TakesResponse, restorePreservedValues, keepStable

LEMMA View ==
    ASSUME Case, Readable, backend \in Objects, NEW base \in Known, NEW v \in Shown(FALSE)
    PROVE  LET x == StateX(kind, base, v, TRUE) IN
           /\ Same(x, backend.x)
           /\ ~Has(kind, "equivalentResponseValues") => Alike(x, backend.x)
<1> DEFINE formed == keepEmptyForm(kind, base, v)
           cased == keepPriorCasing(kind, base, formed)
           x == StateX(kind, base, v, TRUE)
<1>0. Null \notin Values /\ Empty \notin Values
  BY ValuesAssumption DEF Specials
<1>1. x = keepEquivalentValue(kind, base, cased)
  BY RefreshedX
<1>2. formed = v \/ (IsEmpty(v) /\ IsEmpty(formed))
  BY DEF keepEmptyForm, IsEmpty
<1>3. SameForm(cased, formed)
  BY DEF keepPriorCasing, SameForm, SameButCase
<1> HIDE DEF x, cased, formed
<1>4. CASE ~Has(kind, "equivalentResponseValues")
  <2>1. x = cased
    BY <1>1, <1>4 DEF keepEquivalentValue, ResolvedForm
  <2>2. Alike(v, backend.x)
    BY <1>4, ShownAlike
  <2>3. Alike(x, backend.x)
    BY <1>0, <1>2, <1>3, <2>1, <2>2 DEF Alike, SameForm, SameButCase, IsEmpty
  <2> QED
    BY <2>3 DEF Alike, SameForm, Same, x
<1>5. CASE Has(kind, "equivalentResponseValues")
  <2>1. /\ v \in IF backend.x \in Values /\ Resolved[backend.x] # {}
                 THEN Resolved[backend.x] ELSE {backend.x}
        /\ ~Has(kind, "caseInsensitive")
        /\ Resolved \in [Values -> SUBSET Values]
    BY <1>5, ResolvedShown, ValuesAssumption
  <2>2. cased = formed
    BY <1>3, <2>1 DEF SameForm
  <2>3. x = formed \/ (x = base /\ base \in Values /\ formed \in Resolved[base])
    BY <1>1, <2>2 DEF keepEquivalentValue, ResolvedForm
  <2>4. CASE backend.x \in Values /\ Resolved[backend.x] # {}
    <3>1. v \in Resolved[backend.x] /\ v \in Values /\ formed = v
      BY <1>0, <1>2, <2>1, <2>4 DEF IsEmpty
    <3>2. x = v \/ x = backend.x
      BY <2>3, <2>4, <3>1 DEF Case, FormsApart
    <3>3. Same(x, backend.x)
      BY <1>5, <2>4, <3>1, <3>2 DEF Same, ResolvedForm
    <3> QED
      BY <1>5, <3>3 DEF x
  <2>5. CASE ~(backend.x \in Values /\ Resolved[backend.x] # {})
    <3>1. v = backend.x
      BY <2>1, <2>5
    <3>2. CASE x = formed
      BY <1>2, <3>1, <3>2, <1>5 DEF Same, x
    <3>3. CASE base \in Values /\ formed \in Resolved[base] /\ x = base
      <4>1. formed \in Values /\ formed = backend.x
        BY <1>0, <1>2, <2>1, <3>1, <3>3 DEF IsEmpty
      <4> QED
        BY <1>5, <3>3, <4>1 DEF Same, ResolvedForm, x
    <3> QED
      BY <2>3, <3>2, <3>3
  <2> QED
    BY <2>4, <2>5
<1> QED
  BY <1>4, <1>5

LEMMA QuietMeansDoneOf == ASSUME Case, Base PROVE QuietMeansDone
<1> SUFFICES ASSUME Tracked, Readable, NEW s \in Refreshed, UpdatePlan(kind, config, s) = s
             PROVE  InSync
  BY DEF QuietMeansDone
<1>1. /\ backend \in Objects /\ state \in States /\ s \in States
      /\ kind \in Kinds /\ config \in Configs
  BY RefreshType, ObjectOK DEF Base, Located, Case
<1>2. Same(s.x, backend.x)
  <2>1. PICK v \in Shown(FALSE) : s.x = StateX(kind, state.x, v, TRUE)
    BY RefreshType
  <2>2. state.x \in Known
    BY <1>1 DEF States
  <2> QED
    BY <1>1, <2>1, <2>2, View
<1>3. s.x \in Intended(kind, config, s)
  BY <1>1, PlanIntended
<1>4. Same(Null, backend.x) => IsEmpty(backend.x)
  BY ValuesAssumption DEF Same, SameButCase, ResolvedForm, Specials, IsEmpty
<1>5. IsEmpty(backend.x) => Same(Empty, backend.x)
  BY DEF Same, IsEmpty
<1> QED
  BY <1>2, <1>3, <1>4, <1>5 DEF InSync, Intended

(* A plan is empty only when the object has the configured value, or the   *)
(* API does not show it.                                                   *)
THEOREM EmptyPlanMeansDone == ASSUME AllDeclared PROVE Spec => []QuietMeansDone
<1>1. Init => Base
  BY BaseInit
<1>2. Base /\ [Next]_vars => Base'
  BY BaseStep
<1>3. Base => QuietMeansDone
  BY QuietMeansDoneOf, CaseOK DEF Base
<1> QED
  BY <1>1, <1>2, <1>3, PTL DEF Spec

-----------------------------------------------------------------------------
(* What the plan and the update body have of x. *)

LEMMA KindKept ==
    ASSUME [Next]_vars
    PROVE  UNCHANGED <<kind, api>> /\ (pc # "idle" => UNCHANGED config)
BY DEF Next, Plan, PlanCreate, PlanReplace, PlanUpdate, PlanNothing, PlanRejected, Plans,
   Apply, Destroy, Create, Finish, UpdateReadsOnly, UpdateSkipped, EndsWithReply, Ends,
   MergeRead, UpdatePut, UpdateRefused, UpdateFails, Fails,
   Environment, Import, EditConfig, Console, Assign, Tick, vars

LEMMA KindViews ==
    ASSUME UNCHANGED <<kind, api>>
    PROVE  /\ Computed(kind)' = Computed(kind) /\ Settable(kind)' = Settable(kind)
           /\ Readable' = Readable /\ HasUpdatePath(kind)' = HasUpdatePath(kind)
           /\ HasDefault(kind)' = HasDefault(kind)
           /\ \A v, w : SameForm(v, w)' = SameForm(v, w)
           /\ \A v, w : Alike(v, w)' = Alike(v, w)
           /\ \A v, w : Same(v, w)' = Same(v, w)
BY DEF Computed, Settable, Readable, HasUpdatePath, HasDefault, SameForm, Alike, Same

LEMMA ConfigNotEmpty ==
    ASSUME Case, Base, api # "blank"
    PROVE  config.x # Empty
BY SpecialsAssumption, ValuesAssumption DEF Base, Typed, Configurations, ConfigX, RealX, Specials

(* An attribute that the server does not fill is planned as configured.    *)
LEMMA PlainPlan ==
    ASSUME Case, Base, ~Computed(kind)
    PROVE  /\ pc # "idle" => plan.x = config.x
           /\ ~HasDefault(kind) /\ Settable(kind) /\ ~Derives
<1>1. /\ ~HasDefault(kind) /\ Settable(kind) /\ ~Derives
      /\ kind \in Kinds /\ config \in Configs /\ state \in States
  BY ObjectOK DEF Case, Declared, Computed, Settable, Base, Kinds, Derives
<1>2. plan = CreatePlan(kind, config) => plan.x = config.x
  BY <1>1, CreatePlanIs DEF CreatedX
<1>3. plan = UpdatePlan(kind, config, state) => plan.x = config.x
  BY <1>1, PlanIntended DEF Intended
<1> QED
  BY <1>1, <1>2, <1>3 DEF Base, Typed, Planned, CreatePlanned, UpdatePlanned

LEMMA BodyX ==
    ASSUME Case, Base, Sends, Settable(kind), HasUpdatePath(kind)
    PROVE  \/ Body.x = plan.x /\ plan.x # Unknown /\ plan.x # Null
           \/ Body.x = state.x /\ Has(kind, "caseInsensitive") /\ SameButCase(plan.x, state.x)
           \/ Body.x = Null /\ plan.x = Null
           \/ /\ plan.x = Unknown \/ (api = "delta" /\ plan.x = state.x)
              /\ Body.x = IF kind.update = "merge" THEN cur.x ELSE Null
<1> DEFINE sent == sendStoredCasing(kind, state, plan)
           body == dropUnchangedUpdateFields(kind, state, plan)
<1>1. /\ plan \in PlanRecords /\ Null # Unknown
      /\ Has(kind, "updateOnlyIfChanged") => api = "delta"
      /\ kind.update \in {"put", "merge", "none"}
  BY ObjectOK, SpecialsAssumption DEF Case, Declared, Base, Kinds
<1>2. sent = [x |-> IF Has(kind, "caseInsensitive") /\ SameButCase(plan.x, state.x) THEN state.x
                    ELSE IF plan.x # Unknown THEN plan.x ELSE Null,
              b |-> plan.b, d |-> plan.d]
  BY DEF sendStoredCasing, bodyFromRaw, SentX
<1>3. \/ body = sent
      \/ api = "delta" /\ plan.x = state.x /\ body = [sent EXCEPT !.x = Null]
  BY <1>1 DEF dropUnchangedUpdateFields
<1> HIDE DEF sent, body
<1>4. Body.x = IF kind.update = "merge"
               THEN IF body.x # Null THEN body.x ELSE IF plan.x = Null THEN Null ELSE cur.x
               ELSE body.x
  BY DEF Body, mergeIntoCurrent, body
<1>5. \/ body.x = IF Has(kind, "caseInsensitive") /\ SameButCase(plan.x, state.x) THEN state.x
                  ELSE IF plan.x # Unknown THEN plan.x ELSE Null
      \/ api = "delta" /\ plan.x = state.x /\ body.x = Null
  BY <1>2, <1>3
<1>6. SameButCase(plan.x, state.x) => state.x # Null /\ plan.x # Null /\ plan.x # Unknown
  BY ValuesAssumption DEF SameButCase, Specials
<1> QED
  BY <1>1, <1>4, <1>5, <1>6

(* What an update makes of it. *)
LEMMA StoredX ==
    ASSUME Case, Base, Sends, Accepted, Settable(kind), HasUpdatePath(kind)
    PROVE  \/ backend'.x = plan.x /\ plan.x # Unknown /\ plan.x # Null
           \/ backend'.x = state.x /\ Has(kind, "caseInsensitive") /\ SameButCase(plan.x, state.x)
           \/ /\ plan.x = Null
              /\ backend'.x = IF api = "delta" THEN backend.x ELSE Default(plan.b)
           \/ /\ plan.x = Unknown \/ (api = "delta" /\ plan.x = state.x)
              /\ \/ backend'.x = cur.x /\ kind.update = "merge" /\ cur.x # Null
                 \/ /\ backend'.x = IF api = "delta" THEN backend.x ELSE Default(plan.b)
                    /\ kind.update = "merge" => cur.x = Null
<1>1. /\ backend'.x = Stored(Body) /\ Body.b = plan.b
  BY AcceptedType, SendsFacts
<1>2. Stored(Body) = IF Body.x # Null THEN Body.x
                     ELSE IF api = "delta" THEN backend.x ELSE Default(plan.b)
  BY <1>1 DEF Stored
<1>3. SameButCase(plan.x, state.x) => state.x # Null
  BY ValuesAssumption DEF SameButCase, Specials
<1> QED
  BY <1>1, <1>2, <1>3, BodyX

-----------------------------------------------------------------------------
(* Only an API that takes an absent value for an empty one has an empty    *)
(* value that nobody gave it.                                              *)
Filling == ~Computed(kind) /\ api # "blank" => Empty \notin {state.x, backend.x, cur.x}

LEMMA NotEmptied ==
    ASSUME Case, ~Computed(kind), Settable(kind), NEW base \in Known, base # Empty, NEW v,
           v = Empty => api = "redacted"
    PROVE  StateX(kind, base, v, TRUE) # Empty
<1> DEFINE restored == restorePreservedValues(kind, base, v)
           formed == keepEmptyForm(kind, base, restored)
           cased == keepPriorCasing(kind, base, formed)
<1>1. base # Unknown /\ (v = Empty => Has(kind, "preserveOnEmptyResponse"))
  BY SpecialsAssumption, ValuesAssumption DEF Case, Declared, Known, Specials
<1>2. restored # Empty \/ base = Null
  BY <1>1 DEF restorePreservedValues, IsEmpty
<1> HIDE DEF restored
<1>3. formed # Empty
  BY <1>2, SpecialsAssumption DEF keepEmptyForm, IsEmpty, formed
<1> HIDE DEF formed
<1>4. cased # Empty
  BY <1>3 DEF keepPriorCasing, cased
<1> HIDE DEF cased
<1>5. keepEquivalentValue(kind, base, cased) # Empty
  BY <1>4 DEF keepEquivalentValue
<1> QED
  BY <1>5 DEF StateX, TakesResponse, keepStable, cased, formed, restored

LEMMA FillingStep == ASSUME Case, Base, Filling, [Next]_vars PROVE Filling'
<1> SUFFICES ASSUME ~Computed(kind), api # "blank"
             PROVE  state'.x # Empty /\ backend'.x # Empty /\ cur'.x # Empty
  BY KindKept, KindViews DEF Filling
<1>1. /\ state.x # Empty /\ backend.x # Empty /\ cur.x # Empty
      /\ config.x # Empty
      /\ pc # "idle" => plan.x = config.x
      /\ ~HasDefault(kind) /\ Settable(kind) /\ ~Derives
      /\ Null # Empty /\ Unknown # Empty /\ Empty \notin Values /\ NoState.x # Empty /\ NoObject.x # Empty
  BY PlainPlan, ConfigNotEmpty, SpecialsAssumption, ValuesAssumption DEF Filling, Specials, NoState, NoObject
<1>2. \A b : Default(b) # Empty
  BY <1>1 DEF Default
<1>3. \A v, reply, refresh : (Has(kind, "noRead") \/ ~refresh) /\ plan.x # Unknown
        => buildStateRaw(kind, plan, reply, refresh).x = plan.x
  BY <1>1 DEF buildStateRaw, StateX, TakesResponse
<1>4. CASE Import
  <2>1. backend' \in Objects /\ backend'.x # Empty /\ UNCHANGED <<kind, api, cur>>
    BY <1>1, <1>4, ServerAssumption DEF Import, ForeignX, RealX, Objects, Outs
  <2>2. PICK reply \in Replies(FALSE)' : state' = buildStateRaw(kind, NoState, reply, TRUE)
    BY <1>4 DEF Import
  <2>3. reply.x = Empty => api = "redacted"
    <3>1. PICK v \in Shown(FALSE)' : reply = [x |-> v, b |-> backend'.b, d |-> backend'.d, out |-> backend'.out]
      BY <2>2 DEF Replies
    <3>2. \A w : ResolvedForm(kind, backend'.x, w) => Resolved[backend'.x] \subseteq Values
      BY ValuesAssumption DEF ResolvedForm
    <3>3. v = Empty => api = "redacted"
      BY <1>1, <2>1, <3>2, SpecialsAssumption DEF Shown, ResolvedForm
    <3> QED
      BY <3>1, <3>3
  <2>4. NoState.x \in Known
    BY DEF NoState, Known
  <2>5. StateX(kind, NoState.x, reply.x, TRUE) # Empty
    BY <1>1, <2>3, <2>4, NotEmptied
  <2> QED
    BY <1>1, <2>1, <2>2, <2>5 DEF buildStateRaw
<1>5. CASE Plan
  <2>1. UNCHANGED <<backend, cur>> /\ (state' = state \/ (Tracked /\ state' \in Refreshed))
    BY <1>5 DEF Plan, PlanCreate, PlanReplace, PlanUpdate, PlanNothing, PlanRejected, Plans
  <2>2. ASSUME Tracked, NEW s \in Refreshed PROVE s.x # Empty
    <3>1. PICK v \in Shown(FALSE) : s.x = StateX(kind, state.x, v, TRUE)
      BY <2>2, RefreshType
    <3>2. v = Empty => api = "redacted"
      <4>1. \A w : ResolvedForm(kind, backend.x, w) => Resolved[backend.x] \subseteq Values
        BY ValuesAssumption DEF ResolvedForm
      <4> QED
        BY <1>1, <4>1, SpecialsAssumption DEF Shown, ResolvedForm
    <3>3. state.x \in Known
      BY ObjectOK DEF Base, States
    <3> QED
      BY <1>1, <3>1, <3>2, <3>3, NotEmptied
  <2> QED
    BY <1>1, <2>1, <2>2
<1>6. CASE Destroy
  BY <1>1, <1>6 DEF Destroy
<1>7. CASE Create
  BY <1>1, <1>2, <1>7 DEF Create, Created, SentX
<1>8. CASE Finish \/ UpdateReadsOnly \/ UpdateSkipped
  <2>1. /\ UNCHANGED backend /\ cur' = NoObject /\ pc # "idle"
        /\ \/ state' = plan
           \/ \E reply : state' = buildStateRaw(kind, plan, reply, FALSE)
    BY <1>8 DEF Finish, UpdateReadsOnly, UpdateSkipped, EndsWithReply, Ends
  <2>2. plan.x # Unknown
    BY <1>1, <2>1, IntendedKnown, ObjectOK DEF Base, Case
  <2>3. plan.x # Empty
    BY <1>1, <2>1
  <2> QED
    BY <1>1, <1>3, <2>1, <2>2, <2>3
<1>9. CASE MergeRead
  BY <1>1, <1>9 DEF MergeRead
<1>10. CASE UpdatePut \/ UpdateFails
  <2>1. /\ Sends /\ (Accepted \/ UNCHANGED backend) /\ UNCHANGED state /\ cur' \in {cur, NoObject}
        /\ pc # "idle"
    BY <1>10, SendsFacts DEF UpdatePut, UpdateFails, Fails
  <2>2. ASSUME Accepted PROVE backend'.x # Empty
    <3>1. CASE ~HasUpdatePath(kind)
      BY <1>1, <2>1, <2>2, <3>1, AcceptedType DEF Stored
    <3>2. CASE HasUpdatePath(kind)
      BY <1>1, <1>2, <2>1, <2>2, <3>2, StoredX
    <3> QED
      BY <3>1, <3>2
  <2> QED
    BY <1>1, <2>1, <2>2
<1>11. CASE UpdateRefused \/ EditConfig \/ Tick \/ UNCHANGED vars
  <2>1. UNCHANGED state /\ cur' \in {cur, NoObject} /\ (UNCHANGED backend \/ Tick)
    BY <1>11 DEF UpdateRefused, Fails, EditConfig, Tick, vars
  <2>2. Tick => backend'.x = backend.x
    BY DEF Tick, Base, Typed, Objects
  <2> QED
    BY <1>1, <2>1, <2>2
<1>12. CASE Console \/ Assign
  <2>1. UNCHANGED <<state, cur>> /\ backend \in Objects
    BY <1>12 DEF Console, Assign, Base, Typed
  <2>2. backend'.x \in Values \cup {Null} \/ backend'.x = backend.x
    BY <1>12, <2>1, ForeignType, ServerAssumption DEF Console, Assign, Objects
  <2> QED
    BY <1>1, <2>1, <2>2
<1> QED
  BY <1>4, <1>5, <1>6, <1>7, <1>8, <1>9, <1>10, <1>11, <1>12 DEF Next, Apply, Environment

-----------------------------------------------------------------------------
(* What the state says of the object, while a plan stands and nobody else  *)
(* has changed the object.                                                 *)

LookAlike(x, v) == Same(x, v) /\ (~Has(kind, "equivalentResponseValues") => Alike(x, v))

LEMMA UnreadableIs ==
    ASSUME Case, Base, ~Readable
    PROVE  /\ Settable(kind)
           /\ api \in {"plain", "masked", "redacted"}
           /\ Computed(kind) => HasDefault(kind)
           /\ api # "plain" => /\ ~Computed(kind) /\ Has(kind, "preserveOnEmptyResponse")
                              /\ ~Has(kind, "noRead") /\ ~Has(kind, "equivalentResponseValues")
           /\ api = "plain" => Has(kind, "noRead")
           /\ pc # "idle" => plan.x # Unknown
           /\ \A b : Default(b) = Null
<1>1. /\ Settable(kind)
      /\ api \in {"plain", "masked", "redacted"}
      /\ Computed(kind) => HasDefault(kind)
      /\ api # "plain" => /\ ~Computed(kind) /\ Has(kind, "preserveOnEmptyResponse")
                         /\ ~Has(kind, "noRead") /\ ~Has(kind, "equivalentResponseValues")
      /\ api = "plain" => Has(kind, "noRead")
  BY DEF Readable, Case, Declared, ValidKind, Settable, Computed
<1>2. ASSUME pc # "idle" PROVE plan.x # Unknown
  <2>1. ~Computed(kind) => plan.x = config.x
    BY <1>2, PlainPlan
  <2>2. config.x # Unknown
    BY IntendedKnown, ObjectOK DEF Base, Case
  <2> QED
    BY <1>1, <1>2, <2>1, <2>2, PlanFacts DEF Computed
<1> QED
  BY <1>1, <1>2 DEF Default, Derives

LEMMA RefreshSeen ==
    ASSUME Case, Base, Filling, Tracked, NEW s \in Refreshed
    PROVE  /\ Readable => LookAlike(s.x, backend.x)
           /\ Has(kind, "noRead") => s.x = state.x
           /\ api = "masked" /\ s.x = Null => IsEmpty(backend.x)
           /\ ~Readable /\ SameForm(state.x, backend.x) => s.x = state.x
           /\ ~Readable /\ (api = "masked" /\ state.x = Null => IsEmpty(backend.x)) => s.x = state.x
<1>1. PICK v \in Shown(FALSE) : s.x = StateX(kind, state.x, v, TRUE)
  BY RefreshType
<1>2. backend \in Objects /\ state.x \in Known /\ backend.x \in Values \cup {Null, Empty}
  BY ObjectOK DEF Base, Located, States, Objects
<1>3. Readable => LookAlike(s.x, backend.x)
  BY <1>1, <1>2, View DEF LookAlike
<1>4. Has(kind, "noRead") => s.x = state.x
  BY <1>1 DEF StateX
<1>5. /\ Null # Empty /\ Null # Masked /\ Empty # Masked /\ Masked \notin Values /\ Null \notin Values /\ Empty \notin Values
      /\ state.x # Unknown
  BY <1>2, SpecialsAssumption, ValuesAssumption DEF Specials, Known
<1>6. ASSUME api \in {"masked", "redacted"}
      PROVE  /\ s.x = keepPriorCasing(kind, state.x, keepEmptyForm(kind, state.x, restorePreservedValues(kind, state.x, v)))
             /\ v = IF api = "redacted" THEN Empty ELSE IF IsEmpty(backend.x) THEN backend.x ELSE Masked
             /\ Has(kind, "preserveOnEmptyResponse") /\ Settable(kind) /\ ~Computed(kind)
             /\ Empty \notin {state.x, backend.x}
             /\ (IsEmpty(v) \/ v = Masked)
  <2>1. ~Readable
    BY <1>6 DEF Readable
  <2>3. api # "plain" /\ api # "blank"
    BY <1>6
  <2>2. v = IF api = "redacted" THEN Empty ELSE IF IsEmpty(backend.x) THEN backend.x ELSE Masked
    BY <1>6, <2>1, <2>3, ShownIs, UnreadableIs
  <2>4. s.x = keepPriorCasing(kind, state.x, keepEmptyForm(kind, state.x, restorePreservedValues(kind, state.x, v)))
    BY <1>1, <2>1, <2>3, UnreadableIs DEF StateX, TakesResponse, keepStable, keepEquivalentValue, ResolvedForm
  <2>5. Has(kind, "preserveOnEmptyResponse") /\ Settable(kind) /\ ~Computed(kind)
    BY <2>1, <2>3, UnreadableIs
  <2> QED
    BY <2>2, <2>3, <2>4, <2>5 DEF Filling, IsEmpty
<1>7. ASSUME api \in {"masked", "redacted"}, state.x # Null PROVE s.x = state.x
  <2>1. restorePreservedValues(kind, state.x, v) = state.x
    BY <1>5, <1>6, <1>7 DEF restorePreservedValues
  <2>2. keepEmptyForm(kind, state.x, state.x) = state.x
    BY DEF keepEmptyForm
  <2> QED
    BY <1>6, <1>7, <2>1, <2>2 DEF keepPriorCasing, SameButCase
<1>8. ASSUME api \in {"masked", "redacted"}, state.x = Null
      PROVE  s.x = IF IsEmpty(v) THEN Null ELSE v
  <2>1. restorePreservedValues(kind, state.x, v) = v
    BY <1>8 DEF restorePreservedValues
  <2> QED
    BY <1>5, <1>6, <1>8, <2>1 DEF keepEmptyForm, keepPriorCasing, SameButCase, IsEmpty
<1>9. api = "masked" /\ s.x = Null => IsEmpty(backend.x)
  <2>1. SUFFICES ASSUME api = "masked", s.x = Null PROVE IsEmpty(backend.x)
    OBVIOUS
  <2>2. state.x = Null
    BY <1>7, <2>1
  <2>3. v = IF IsEmpty(backend.x) THEN backend.x ELSE Masked
    BY <1>6, <2>1
  <2>4. IsEmpty(v) \/ v = Null
    BY <1>8, <2>1, <2>2
  <2> QED
    BY <1>5, <2>3, <2>4 DEF IsEmpty
<1>10. ASSUME ~Readable, SameForm(state.x, backend.x) PROVE s.x = state.x
  <2>1. Has(kind, "noRead") \/ api \in {"masked", "redacted"}
    BY <1>10 DEF Readable
  <2>2. ASSUME api \in {"masked", "redacted"}, state.x = Null PROVE s.x = Null
    <3>1. backend.x = Null
      BY <1>5, <1>10, <2>2 DEF SameForm, SameButCase
    <3>2. IsEmpty(v)
      BY <1>6, <2>2, <3>1 DEF IsEmpty
    <3> QED
      BY <1>8, <2>2, <3>2
  <2> QED
    BY <1>4, <1>7, <2>1, <2>2
<1>11. ASSUME ~Readable, api = "masked" /\ state.x = Null => IsEmpty(backend.x) PROVE s.x = state.x
  <2>1. Has(kind, "noRead") \/ api \in {"masked", "redacted"}
    BY <1>11 DEF Readable
  <2>2. ASSUME api \in {"masked", "redacted"}, state.x = Null PROVE s.x = Null
    <3>1. IsEmpty(v)
      BY <1>6, <1>11, <2>2 DEF IsEmpty
    <3> QED
      BY <1>8, <2>2, <3>1
  <2> QED
    BY <1>4, <1>7, <2>1, <2>2
<1> QED
  BY <1>3, <1>4, <1>9, <1>10, <1>11

Seen ==
    pc \in {"replace", "update", "merged"} /\ ~touched =>
        /\ state.b = backend.b /\ state.d = backend.d
        /\ Readable /\ api # "late" => LookAlike(state.x, backend.x)
        /\ api = "masked" /\ state.x = Null => IsEmpty(backend.x)
        /\ pc = "merged" /\ api # "late" => cur.x = backend.x

LEMMA SeenStep == ASSUME Case, Base, Filling, Seen, [Next]_vars PROVE Seen'
<1>1. /\ UNCHANGED <<kind, api>> /\ Readable' = Readable
      /\ \A x, v : LookAlike(x, v)' = LookAlike(x, v)
  BY KindKept, KindViews DEF LookAlike
<1>2. CASE Plan
  <2>1. CASE pc' \in {"replace", "update", "merged"}
    <3>1. PICK s \in Refreshed : state' = s /\ Tracked
      BY <1>2, <2>1 DEF Plan, PlanCreate, PlanReplace, PlanUpdate, PlanNothing, PlanRejected, Plans
    <3>2. backend' = backend /\ pc' # "merged"
      BY <1>2 DEF Plan, PlanCreate, PlanReplace, PlanUpdate, PlanNothing, PlanRejected, Plans
    <3>3. s.b = backend.b /\ s.d = backend.d
      BY <3>1, RefreshType
    <3> QED
      BY <1>1, <3>1, <3>2, <3>3, RefreshSeen DEF Seen
  <2> QED
    BY <2>1 DEF Seen
<1>3. CASE MergeRead
  BY <1>1, <1>3 DEF MergeRead, history, Seen
<1>4. CASE Destroy \/ Create \/ Finish \/ UpdateReadsOnly \/ UpdateSkipped \/ UpdatePut \/ UpdateRefused \/ UpdateFails
  BY <1>4 DEF Destroy, Create, Finish, UpdateReadsOnly, UpdateSkipped, EndsWithReply, Ends,
     UpdatePut, UpdateRefused, UpdateFails, Fails, Seen
<1>5. CASE Import \/ EditConfig
  BY <1>5 DEF Import, EditConfig, Seen
<1>6. CASE Console
  BY <1>6 DEF Console, Seen
<1>7. CASE Assign
  <2>1. backend'.b = backend.b /\ backend'.d = backend.d /\ UNCHANGED <<state, pc, touched>> /\ api = "late"
    BY <1>7 DEF Assign, history, Base, Typed, Objects
  <2> QED
    BY <1>1, <2>1 DEF Seen
<1>8. CASE Tick
  <2>1. /\ backend'.b = backend.b /\ backend'.d = backend.d /\ backend'.x = backend.x
        /\ UNCHANGED <<state, pc, touched, cur>>
    BY <1>8 DEF Tick, Base, Typed, Objects
  <2> QED
    BY <1>1, <2>1 DEF Seen
<1>9. CASE UNCHANGED vars
  BY <1>1, <1>9 DEF vars, history, Seen
<1> QED
  BY <1>2, <1>3, <1>4, <1>5, <1>6, <1>7, <1>8, <1>9 DEF Next, Apply, Environment

-----------------------------------------------------------------------------
(* What is known of an x that no reply shows: what was asked for last.     *)

(* x is what the configuration asks for. *)
Agreed(x) ==
    /\ config.x # Null => x = config.x
    /\ config.x = Null /\ HasDefault(kind) => x = kind.default \/ (kind.default = Empty /\ x = Null)
    /\ config.x = Null /\ ~Computed(kind) => x = Null

LEMMA PlanAgreed == ASSUME Case, Base, pc # "idle" PROVE Agreed(plan.x)
<1>1. kind \in Kinds /\ config \in Configs /\ state \in States
  BY ObjectOK DEF Base, Case
<1>2. plan = CreatePlan(kind, config) => plan.x = CreatedX(kind, config)
  BY <1>1, CreatePlanIs
<1>3. plan = UpdatePlan(kind, config, state) => plan.x \in Intended(kind, config, state)
  BY <1>1, PlanIntended
<1>4. HasDefault(kind) => Computed(kind)
  BY DEF Case, Declared, Computed
<1> QED
  BY <1>2, <1>3, <1>4 DEF Base, Typed, Planned, CreatePlanned, UpdatePlanned, CreatedX, Intended, Agreed

Recalled(a) ==
    IF a # Null THEN {a}
    ELSE IF HasDefault(kind) THEN {kind.default} \cup (IF kind.default = Empty THEN {Null} ELSE {})
    ELSE {Null}

Remembered ==
    /\ ~Tracked => ~imported
    /\ ~Tracked /\ pc = "idle" => asked = Null
    /\ imported /\ ~Readable => hidden
    /\ hidden => ~Readable
    /\ Tracked /\ Has(kind, "noRead") =>
         \/ state.x \in Recalled(asked)
         \/ imported /\ state.x = Null /\ asked = Null

(* The end of an apply, by a reply or without one. *)
LEMMA EndsIs ==
    ASSUME Case, Base, Finish \/ UpdateReadsOnly \/ UpdateSkipped
    PROVE  /\ pc # "idle" /\ backend # NoObject /\ backend' = backend /\ config' = config /\ hidden' = hidden
           /\ pc' = "idle" /\ ~imported' /\ asked' = config.x /\ state' # NoState /\ ~touched'
           /\ state'.meta = plan.meta
           /\ clean' <=> Compatible(state') /\ ~touched
           /\ (Settable(kind) \/ Has(kind, "noRead")) /\ plan.x # Unknown => state'.x = plan.x
<1>1. pc # "idle" /\ backend # NoObject
  BY DEF Finish, UpdateReadsOnly, UpdateSkipped, Base, Located, Planned, UpdatePlanned
<1>2. PICK r : /\ Ends(r)
               /\ \/ r = plan
                  \/ \E write \in BOOLEAN : \E reply \in Replies(write) : r = buildStateRaw(kind, plan, reply, FALSE)
  BY DEF Finish, UpdateReadsOnly, UpdateSkipped, EndsWithReply
<1>3. r # NoState /\ r.meta = plan.meta
  BY <1>1, <1>2, EndType, PlanFacts
<1>4. ASSUME Settable(kind) \/ Has(kind, "noRead"), plan.x # Unknown PROVE r.x = plan.x
  <2>1. \A v : StateX(kind, plan.x, v, FALSE) = plan.x
    BY <1>4 DEF StateX, TakesResponse
  <2>2. \A reply : buildStateRaw(kind, plan, reply, FALSE).x = plan.x
    BY <2>1 DEF buildStateRaw
  <2> QED
    BY <1>2, <2>2
<1> QED
  BY <1>1, <1>2, <1>3, <1>4 DEF Ends

LEMMA RememberedStep == ASSUME Case, Base, Filling, Remembered, [Next]_vars PROVE Remembered'
<1>1. /\ UNCHANGED <<kind, api>> /\ Readable' = Readable
      /\ \A a : Recalled(a)' = Recalled(a)
  BY KindKept, KindViews DEF Recalled
<1>2. CASE Import
  <2>1. /\ imported' = TRUE /\ asked' = asked /\ asked = Null /\ hidden' = ~Readable /\ ~Tracked
        /\ \E reply : state' = buildStateRaw(kind, NoState, reply, TRUE)
    BY <1>2 DEF Import, Remembered
  <2>2. Has(kind, "noRead") => state'.x = Null
    BY <2>1 DEF buildStateRaw, StateX, NoState
  <2>3. Tracked'
    <3>1. backend' \in Objects
      BY <1>2, ServerAssumption DEF Import, ForeignX, RealX, Objects, Outs
    <3>2. PICK reply \in Replies(FALSE)' : state' = buildStateRaw(kind, NoState, reply, TRUE)
      BY <1>2 DEF Import
    <3>3. PICK v : reply = [x |-> v, b |-> backend'.b, d |-> backend'.d, out |-> backend'.out]
      BY <3>2 DEF Replies
    <3>4. state'.b = backend'.b
      BY <3>2, <3>3 DEF buildStateRaw
    <3> QED
      BY <3>1, <3>4, ValuesAssumption DEF Tracked, NoState, Objects, Specials
  <2> QED
    BY <1>1, <2>1, <2>2, <2>3 DEF Remembered
<1>3. CASE Plan
  <2>1. /\ UNCHANGED <<imported, hidden, asked>> /\ pc = "idle"
        /\ state' = state \/ (Tracked /\ state' \in Refreshed)
    BY <1>3 DEF Plan, PlanCreate, PlanReplace, PlanUpdate, PlanNothing, PlanRejected, Plans
  <2>2. ASSUME Tracked, state' \in Refreshed PROVE Tracked' /\ (Has(kind, "noRead") => state'.x = state.x)
    BY <2>2, RefreshSeen, RefreshType DEF Tracked
  <2> QED
    BY <1>1, <2>1, <2>2 DEF Remembered, Tracked
<1>4. CASE Destroy
  BY <1>1, <1>4 DEF Destroy, history, Remembered, Tracked
<1>5. CASE Create
  <2>1. ~Tracked
    BY <1>5 DEF Create, Base, Planned, CreatePlanned
  <2> QED
    BY <1>1, <1>5, <2>1 DEF Create, Remembered, Tracked
<1>6. CASE Finish \/ UpdateReadsOnly \/ UpdateSkipped
  <2>1. /\ pc # "idle" /\ hidden' = hidden /\ ~imported' /\ asked' = config.x /\ Tracked'
        /\ (Settable(kind) \/ Has(kind, "noRead")) /\ plan.x # Unknown => state'.x = plan.x
    BY <1>6, EndsIs DEF Tracked
  <2>2. ASSUME Has(kind, "noRead") PROVE state'.x \in Recalled(config.x)
    <3>1. ~Readable
      BY <2>2 DEF Readable
    <3>2. state'.x = plan.x /\ (Computed(kind) => HasDefault(kind))
      BY <2>1, <2>2, <3>1, UnreadableIs
    <3> QED
      BY <2>1, <3>2, PlanAgreed DEF Agreed, Recalled
  <2> QED
    BY <1>1, <2>1, <2>2 DEF Remembered
<1>7. CASE MergeRead \/ UpdatePut \/ UpdateRefused \/ UpdateFails
  <2>1. Tracked
    BY <1>7, SendsFacts DEF MergeRead, UpdatePut, UpdateRefused, UpdateFails, Base, Planned, UpdatePlanned
  <2>2. /\ UNCHANGED <<state, imported, asked>>
        /\ hidden => hidden'
        /\ hidden' => hidden \/ ~Readable
    <3>1. CASE MergeRead \/ UpdatePut \/ UpdateRefused
      BY <3>1 DEF MergeRead, UpdatePut, UpdateRefused, Fails, history
    <3>2. CASE UpdateFails
      BY <3>2 DEF UpdateFails, Fails, HidesChange, Base, Typed
    <3> QED
      BY <1>7, <3>1, <3>2
  <2> QED
    BY <1>1, <2>1, <2>2 DEF Remembered, Tracked
<1>8. CASE EditConfig \/ Assign \/ Tick \/ UNCHANGED vars
  BY <1>1, <1>8 DEF EditConfig, Assign, Tick, vars, history, Remembered, Tracked
<1>9. CASE Console
  BY <1>1, <1>9 DEF Console, Remembered, Tracked, HidesChange
<1> QED
  BY <1>2, <1>3, <1>4, <1>5, <1>6, <1>7, <1>8, <1>9 DEF Next, Apply, Environment

(* x in the object is still what the last apply left there.                *)
Unhidden ==
    ~Readable /\ ~hidden /\ (HasUpdatePath(kind) \/ Has(kind, "forceNew")) =>
        /\ Tracked /\ pc # "reply" => SameForm(state.x, backend.x)
        /\ pc = "reply" => SameForm(plan.x, backend.x)

LEMMA SkippedX ==
    ASSUME Case, Base, pc = "update", UpdateSkips(kind, state, plan), Settable(kind), HasUpdatePath(kind),
           plan.x # Unknown
    PROVE  SameForm(plan.x, state.x) /\ plan.b = state.b /\ plan.d = state.d
<1>1. state.x # Unknown
  BY IntendedKnown, ObjectOK DEF Base, Case
<1> QED
  BY <1>1 DEF UpdateSkips, sendStoredCasing, bodyFromRaw, SentX, SameForm

(* A forceNew attribute that an update may leave to the server is not      *)
(* replaced by it.                                                         *)
LEMMA NotReplaced ==
    ASSUME Case, Base, UpdatePlanned, Has(kind, "forceNew"), Settable(kind)
    PROVE  /\ plan.x # Unknown
           /\ \/ SameForm(plan.x, state.x)
              \/ Has(kind, "importAdoptsConfig") /\ state.x = Null /\ imported
<1>1. /\ kind \in Kinds /\ config \in Configs /\ state \in States /\ state.x # Unknown
      /\ plan = UpdatePlan(kind, config, state)
  BY ObjectOK, IntendedKnown DEF Base, Case, UpdatePlanned
<1>2. /\ Modified(kind, config, state).x # Unknown
      /\ \/ plan.x = Modified(kind, config, state).x
         \/ Modified(kind, config, state).x = Unknown /\ plan.x = state.x
  BY <1>1, ModifiedX, PlanX, ConfiguredIsSettable DEF Case, Base, LeftOpen, Declared
<1>3. ~RequiresReplace(kind, state, Modified(kind, config, state), imported) \/ plan.x = state.x
  BY <1>1 DEF UpdatePlanned, PlansReplace
<1> QED
  BY <1>2, <1>3 DEF RequiresReplace, SameForm, SameButCase

LEMMA UnhiddenStep == ASSUME Case, Base, Filling, Remembered, Unhidden, [Next]_vars PROVE Unhidden'
<1> SUFFICES ASSUME ~Readable, ~hidden', HasUpdatePath(kind) \/ Has(kind, "forceNew")
             PROVE  /\ Tracked' /\ pc' # "reply" => SameForm(state'.x, backend'.x)
                    /\ pc' = "reply" => SameForm(plan'.x, backend'.x)
  BY KindKept, KindViews DEF Unhidden
<1>1. /\ Settable(kind)
      /\ api \in {"plain", "masked", "redacted"}
      /\ pc # "idle" => plan.x # Unknown
      /\ \A b : Default(b) = Null
  BY UnreadableIs
<1>2. SameForm(state.x, backend.x) \/ ~Tracked \/ pc = "reply" \/ hidden
  BY DEF Unhidden
<1>3. CASE Import
  BY <1>3 DEF Import
<1>4. CASE Plan
  <2>1. /\ pc = "idle" /\ pc' # "reply" /\ backend' = backend /\ hidden' = hidden
        /\ (state' = state /\ Tracked' = Tracked) \/ (Tracked /\ state' \in Refreshed)
    BY <1>4 DEF Plan, PlanCreate, PlanReplace, PlanUpdate, PlanNothing, PlanRejected, Plans, Tracked
  <2> QED
    BY <1>2, <2>1, RefreshSeen
<1>5. CASE Destroy
  BY <1>5 DEF Destroy, Tracked
<1>6. CASE Create
  BY <1>1, <1>6 DEF Create, Created, SentX, SameForm
<1>7. CASE Finish \/ UpdateReadsOnly \/ UpdateSkipped
  <2>1. /\ pc # "idle" /\ state'.x = plan.x /\ pc' = "idle" /\ backend' = backend /\ ~hidden
    BY <1>1, <1>7, EndsIs
  <2>2. SameForm(plan.x, backend.x)
    <3>1. CASE Finish
      BY <2>1, <3>1 DEF Finish, Unhidden
    <3>2. CASE UpdateReadsOnly
      <4>1. pc = "update" /\ Has(kind, "forceNew") /\ Tracked /\ UpdatePlanned
        BY <1>1, <3>2 DEF UpdateReadsOnly, Case, Declared, Base, Planned, UpdatePlanned
      <4>2. SameForm(plan.x, state.x)
        BY <1>1, <2>1, <4>1, NotReplaced DEF Remembered
      <4> QED
        BY <1>2, <2>1, <4>1, <4>2, SameFormTransitive
    <3>3. CASE UpdateSkipped
      <4>1. pc = "update" /\ UpdateSkips(kind, state, plan) /\ Tracked /\ UpdatePlanned
        BY <3>3 DEF UpdateSkipped, Base, Planned, UpdatePlanned
      <4>2. SameForm(plan.x, state.x)
        BY <1>1, <2>1, <4>1, SkippedX, NotReplaced DEF Remembered
      <4> QED
        BY <1>2, <2>1, <4>1, <4>2, SameFormTransitive
    <3> QED
      BY <1>7, <3>1, <3>2, <3>3
  <2> QED
    BY <2>1, <2>2
<1>8. CASE MergeRead \/ UpdateRefused \/ UpdateFails
  <2>1. Tracked /\ pc # "reply" /\ pc' # "reply" /\ state' = state
    BY <1>8, SendsFacts DEF MergeRead, UpdateRefused, UpdateFails, Fails, Base, Planned, UpdatePlanned
  <2>2. backend'.x = backend.x /\ ~hidden
    <3>1. CASE MergeRead \/ UpdateRefused
      BY <3>1 DEF MergeRead, UpdateRefused, history
    <3>2. CASE UpdateFails
      BY <3>2 DEF UpdateFails, HidesChange, Base, Typed
    <3> QED
      BY <1>8, <3>1, <3>2
  <2> QED
    BY <1>2, <2>1, <2>2
<1>9. CASE UpdatePut
  <2>1. /\ Sends /\ Accepted /\ plan' = plan /\ pc' = "reply" /\ pc \in {"update", "merged"}
        /\ UpdatePlanned /\ Tracked /\ ~hidden
    BY <1>9, SendsFacts DEF UpdatePut, history, UpdatePlanned
  <2>2. CASE HasUpdatePath(kind)
    BY <1>1, <2>1, <2>2, StoredX DEF SameForm
  <2>3. CASE ~HasUpdatePath(kind)
    <3>1. SameForm(plan.x, state.x)
      BY <1>1, <2>1, <2>3, NotReplaced DEF Remembered
    <3>2. backend'.x = backend.x
      BY <2>1, <2>3, AcceptedType DEF Stored
    <3> QED
      BY <1>2, <2>1, <3>1, <3>2, SameFormTransitive
  <2> QED
    BY <2>2, <2>3
<1>10. CASE EditConfig \/ UNCHANGED vars
  BY <1>2, <1>10 DEF EditConfig, vars, history, Unhidden, Tracked
<1>11. CASE Console
  <2>1. backend'.x = backend.x /\ ~hidden /\ UNCHANGED <<pc, state, plan>>
    BY <1>11 DEF Console, HidesChange, Base, Typed
  <2> QED
    BY <1>2, <2>1 DEF Unhidden, Tracked
<1>12. CASE Assign
  BY <1>1, <1>12 DEF Assign
<1>13. CASE Tick
  <2>1. backend'.x = backend.x /\ ~hidden /\ UNCHANGED <<pc, state, plan>>
    BY <1>13 DEF Tick, Base, Typed, Objects
  <2> QED
    BY <1>2, <2>1 DEF Unhidden, Tracked
<1> QED
  BY <1>3, <1>4, <1>5, <1>6, <1>7, <1>8, <1>9, <1>10, <1>11, <1>12, <1>13 DEF Next, Apply, Environment

-----------------------------------------------------------------------------
(* A replacement is planned only for a cause. *)

LEMMA SameMeansAlike ==
    ASSUME ~Has(kind, "equivalentResponseValues"), NEW v, NEW w, Same(v, w)
    PROVE  Alike(v, w)
BY DEF Same, Alike, SameForm, ResolvedForm

LEMMA NoSpuriousReplaceOf == ASSUME Case, Base, Filling, Seen, Remembered PROVE NoSpuriousReplace
<1> SUFFICES ASSUME pc = "replace", ~touched, config.x # Empty,
                    ~(kind.update = "none" /\ <<config.b, config.d>> # <<backend.b, backend.d>>)
             PROVE  IF Readable THEN ~InSync ELSE config.x # asked
  BY DEF NoSpuriousReplace
<1> DEFINE m == Modified(kind, config, state).x
<1>1. /\ kind \in Kinds /\ config \in Configs /\ state \in States /\ Tracked
      /\ PlansReplace(kind, config, state, imported)
      /\ state.b = backend.b /\ state.d = backend.d
      /\ backend \in Objects
  BY ObjectOK DEF Base, Case, Planned, Seen, Located
<1>2. /\ RequiresReplace(kind, state, Modified(kind, config, state), imported)
      /\ UpdatePlan(kind, config, state).x # state.x
  BY <1>1 DEF PlansReplace
<1>3. /\ Has(kind, "forceNew") /\ m # state.x
      /\ ~(Has(kind, "importAdoptsConfig") /\ state.x = Null /\ imported)
      /\ ~(Has(kind, "caseInsensitive") /\ SameButCase(m, state.x))
  BY <1>2 DEF RequiresReplace
<1>4. m \in Intended(kind, config, state) /\ m # Unknown
  <2>1. m \in Intended(kind, config, state)
    BY <1>1, ModifiedX DEF Case
  <2>2. \/ UpdatePlan(kind, config, state).x = m
        \/ m = Unknown /\ UpdatePlan(kind, config, state).x = state.x
    BY <1>1, PlanX, ConfiguredIsSettable DEF Case, Base
  <2>3. m = Unknown => LeftOpen(kind, config, state)
    BY <1>1, ModifiedX DEF Case
  <2>4. ~LeftOpen(kind, config, state)
    BY <1>3 DEF LeftOpen, Case, Declared, Has
  <2> QED
    BY <2>1, <2>3, <2>4
<1> HIDE DEF m
<1>5. \/ config.x # Null /\ m = config.x
      \/ config.x = Null /\ HasDefault(kind) /\ m = kind.default /\ m # Null
      \/ config.x = Null /\ ~Computed(kind) /\ m = Null
  <2>1. kind.default # Null \/ ~HasDefault(kind)
    BY <1>1, SpecialsAssumption, ValuesAssumption DEF Kinds, HasDefault, Specials
  <2> QED
    BY <1>3, <1>4, <2>1 DEF Intended
<1>6. /\ Null # Empty /\ Empty \notin Values /\ Null \notin Values
      /\ backend.x \in Values \cup {Null, Empty}
      /\ ~Has(kind, "equivalentResponseValues") /\ api \notin {"masked", "redacted", "late"}
      /\ HasDefault(kind) => Computed(kind)
  BY <1>1, <1>3, SpecialsAssumption, ValuesAssumption DEF Specials, Objects, Case, Declared, Settable, Computed, Has
<1>7. CASE Readable
  <2>1. Alike(state.x, backend.x)
    BY <1>6, <1>7 DEF Seen, LookAlike
  <2>2. SUFFICES ASSUME InSync PROVE FALSE
    BY <1>7
  <2>3. CASE m # Null
    <3>1. Same(m, backend.x)
      BY <1>5, <2>2, <2>3 DEF InSync
    <3>2. Alike(m, backend.x)
      BY <1>6, <3>1, SameMeansAlike
    <3>3. CASE m \in Values
      <4>1. SameForm(m, backend.x) /\ SameForm(state.x, backend.x)
        BY <1>6, <2>1, <3>2, <3>3 DEF Alike, IsEmpty, SameForm, SameButCase
      <4>2. SameForm(m, state.x)
        BY <4>1 DEF SameForm, SameButCase
      <4> QED
        BY <1>3, <4>2 DEF SameForm
    <3>4. CASE m = Empty
      <4>1. /\ config.x = Null /\ HasDefault(kind) /\ kind.default = Empty
            /\ state.x # Null
        BY <1>4, <1>5, <1>6, <3>4 DEF Intended
      <4>2. IsEmpty(backend.x)
        BY <1>6, <3>2, <3>4 DEF Alike, SameForm, SameButCase, IsEmpty
      <4>3. IsEmpty(state.x)
        BY <1>6, <2>1, <4>2 DEF Alike, SameForm, SameButCase, IsEmpty
      <4> QED
        BY <1>3, <3>4, <4>1, <4>3 DEF IsEmpty
    <3>5. m \in Values \cup {Empty}
      BY <1>1, <1>5, <2>3 DEF Configs, Kinds, HasDefault
    <3> QED
      BY <3>3, <3>4, <3>5
  <2>4. CASE m = Null
    <3>1. config.x = Null /\ ~Computed(kind) /\ ~HasDefault(kind)
      BY <1>5, <1>6, <2>4
    <3>2. IsEmpty(backend.x)
      BY <2>2, <3>1 DEF InSync
    <3>3. IsEmpty(state.x)
      BY <1>6, <2>1, <3>2 DEF Alike, SameForm, SameButCase, IsEmpty
    <3>4. kind.mode = "optional" /\ api # "blank"
      <4>1. kind.mode # "required"
        BY <1>6, <3>1 DEF Base, Typed, Configurations, ConfigX, RealX
      <4>2. kind.mode = "optional"
        BY <3>1, <4>1, <1>1 DEF Computed, Kinds
      <4> QED
        BY <1>3, <4>2 DEF Case, Declared
    <3> QED
      BY <1>3, <2>4, <3>1, <3>3, <3>4 DEF Filling, IsEmpty
  <2> QED
    BY <2>3, <2>4
<1>8. CASE ~Readable
  <2>1. SUFFICES ASSUME config.x = asked PROVE FALSE
    BY <1>8
  <2>2. Has(kind, "noRead") /\ (Computed(kind) => HasDefault(kind))
    BY <1>6, <1>8, UnreadableIs DEF Readable
  <2>3. \/ state.x \in Recalled(asked)
        \/ imported /\ state.x = Null /\ asked = Null
    BY <1>1, <2>2 DEF Remembered
  <2>4. HasDefault(kind) /\ kind.default \in Values => Has(kind, "importAdoptsConfig")
    BY <1>3, <2>2 DEF Case, Declared
  <2>5. HasDefault(kind) => kind.default \in Values \cup {Empty}
    BY <1>1 DEF Kinds, HasDefault
  <2> QED
    BY <1>3, <1>4, <1>5, <2>1, <2>2, <2>3, <2>4, <2>5 DEF Recalled, Intended
<1> QED
  BY <1>7, <1>8

-----------------------------------------------------------------------------
(* What an update brings to the object. *)

(* x in the object would be what the configuration asks for. *)
Lands(v) ==
    IF config.x # Null THEN Same(config.x, v)
    ELSE IF HasDefault(kind) THEN Same(kind.default, v)
    ELSE Computed(kind) \/ IsEmpty(v)

LEMMA SameChain ==
    ASSUME Case, NEW u, NEW v, NEW w, SameForm(u, v), LookAlike(v, w)
    PROVE  Same(u, w)
<1>1. CASE Has(kind, "equivalentResponseValues")
  <2>1. ~Has(kind, "caseInsensitive")
    BY <1>1 DEF Case, Declared, Has
  <2> QED
    BY <2>1 DEF SameForm, LookAlike
<1>2. CASE ~Has(kind, "equivalentResponseValues")
  <2>1. Null \notin Values /\ Empty \notin Values
    BY ValuesAssumption DEF Specials
  <2>2. Alike(u, w)
    BY <1>2, <2>1 DEF LookAlike, Alike, SameForm, SameButCase, IsEmpty
  <2> QED
    BY <2>2 DEF Alike, SameForm, Same
<1> QED
  BY <1>1, <1>2

LEMMA AgreedLands ==
    ASSUME Case, NEW x, NEW v, Agreed(x), Same(x, v)
    PROVE  Lands(v)
<1>1. Same(Null, v) => IsEmpty(v)
  BY ValuesAssumption DEF Same, SameButCase, ResolvedForm, Specials, IsEmpty
<1>2. IsEmpty(v) => Same(Empty, v)
  BY DEF Same, IsEmpty
<1> QED
  BY <1>1, <1>2 DEF Lands, Agreed

LEMMA OpenLands ==
    ASSUME Case, Base
    PROVE  /\ ~Settable(kind) => \A v : Lands(v)
           /\ UpdatePlanned /\ plan.x = Unknown => \A v : Lands(v)
<1>1. ASSUME ~Settable(kind) PROVE \A v : Lands(v)
  BY <1>1, ConfiguredIsSettable DEF Base, Case, Declared, Settable, Computed, Lands
<1>2. ASSUME UpdatePlanned, plan.x = Unknown PROVE \A v : Lands(v)
  <2>1. LeftOpen(kind, config, state)
    BY <1>2, PlanIntended, ObjectOK DEF UpdatePlanned, Base
  <2> QED
    BY <2>1 DEF LeftOpen, Case, Declared, Settable, Lands
<1> QED
  BY <1>1, <1>2

(* What a delta leaves out is unchanged. *)
LEMMA DeltaKept ==
    ASSUME Case, Base, Seen, Sends, Accepted, ~touched, Settable(kind), HasUpdatePath(kind),
           api = "delta", plan.x = state.x
    PROVE  Readable /\ LookAlike(state.x, backend.x)
<1>1. Readable
  BY DEF Readable, Case, Declared
<1> QED
  BY <1>1, SendsFacts DEF Seen

LEMMA UpdateLands ==
    ASSUME Case, Base, Seen, Remembered, Sends, Accepted, ~touched, HasUpdatePath(kind) \/ Readable
    PROVE  Lands(backend'.x)
<1>1. /\ UpdatePlanned /\ pc \in {"update", "merged"} /\ pc # "idle" /\ Agreed(plan.x)
      /\ plan.x \in Intended(kind, config, state)
  BY SendsFacts, PlanAgreed, PlanIntended, ObjectOK DEF UpdatePlanned, Base
<1>2. CASE ~Settable(kind)
  BY <1>2, OpenLands
<1>3. CASE Settable(kind) /\ HasUpdatePath(kind)
  <2>1. CASE backend'.x = plan.x
    BY <1>1, <2>1, AgreedLands DEF Same
  <2>2. CASE backend'.x = state.x /\ Has(kind, "caseInsensitive") /\ SameButCase(plan.x, state.x)
    BY <1>1, <2>2, AgreedLands DEF Same
  <2>3. CASE plan.x = Unknown
    BY <1>1, <2>3, OpenLands
  <2>4. CASE plan.x = Null /\ api # "delta" /\ backend'.x = Default(plan.b)
    <3>1. HasDefault(kind) \/ ~Computed(kind) => backend'.x = Null
      BY <2>4 DEF Default, Derives, Case, Declared
    <3>2. Same(plan.x, Null)
      BY <2>4 DEF Same
    <3> QED
      BY <1>1, <2>4, <3>1, <3>2, AgreedLands DEF Lands, Agreed
  <2>5. CASE plan.x = Null /\ api = "delta" /\ backend'.x = backend.x
    <3>1. plan.x = state.x \/ (config.x = Null /\ ~Computed(kind))
      <4>1. config.x = Null
        BY <1>1, <2>5 DEF Agreed
      <4>2. kind.default # Null \/ ~HasDefault(kind)
        BY SpecialsAssumption, ValuesAssumption DEF Case, Kinds, HasDefault, Specials
      <4>3. Unknown # Null
        BY SpecialsAssumption
      <4> QED
        BY <1>1, <2>5, <4>1, <4>2, <4>3 DEF Intended
    <3>2. ~(config.x = Null /\ ~Computed(kind))
      <4>1. SUFFICES ASSUME config.x = Null, ~Computed(kind) PROVE FALSE
        OBVIOUS
      <4>2. kind.mode = "required"
        BY <2>5, <4>1 DEF Case, Declared, Computed
      <4> QED
        BY <4>1, <4>2, ValuesAssumption DEF Base, Typed, Configurations, ConfigX, RealX, Specials
    <3>3. Same(plan.x, backend'.x)
      BY <1>3, <2>5, <3>1, <3>2, DeltaKept DEF LookAlike
    <3> QED
      BY <1>1, <3>3, AgreedLands
  <2>6. CASE api = "delta" /\ plan.x = state.x /\ backend'.x \in {backend.x, cur.x} /\ (backend'.x = cur.x => kind.update = "merge" \/ cur.x = backend.x)
    <3>1. backend'.x = backend.x
      <4>1. kind.update = "merge" => pc = "merged"
        BY DEF Sends
      <4> QED
        BY <2>6, <4>1 DEF Seen
    <3>2. Same(plan.x, backend'.x)
      BY <1>3, <2>6, <3>1, DeltaKept DEF LookAlike
    <3> QED
      BY <1>1, <3>2, AgreedLands
  <2> QED
    BY <1>3, <2>1, <2>2, <2>3, <2>4, <2>5, <2>6, StoredX
<1>4. CASE Settable(kind) /\ ~HasUpdatePath(kind)
  <2>1. /\ Readable /\ Has(kind, "forceNew") /\ ~Has(kind, "importAdoptsConfig") /\ api # "late"
    BY <1>4 DEF HasUpdatePath, Case, Declared, Readable
  <2>2. SameForm(plan.x, state.x)
    BY <1>1, <1>4, <2>1, NotReplaced
  <2>3. backend'.x = backend.x
    BY <1>4, AcceptedType DEF Stored
  <2>4. LookAlike(state.x, backend.x)
    BY <1>1, <2>1 DEF Seen
  <2> QED
    BY <1>1, <2>2, <2>3, <2>4, SameChain, AgreedLands
<1> QED
  BY <1>2, <1>3, <1>4

LEMMA CreateLands ==
    ASSUME Case, Base, Create
    PROVE  Lands(backend'.x)
<1>1. /\ kind \in Kinds /\ config \in Configs /\ pc # "idle" /\ Agreed(plan.x)
      /\ plan.x = CreatedX(kind, config)
  BY ObjectOK, CreatePlanIs, PlanAgreed DEF Create, Base, Case, Planned, CreatePlanned
<1>2. kind.default # Null \/ ~HasDefault(kind)
  BY SpecialsAssumption, ValuesAssumption DEF Case, Kinds, HasDefault, Specials
<1>3. config.x # Unknown /\ kind.default # Unknown /\ Unknown # Null
  BY <1>1, IntendedKnown, NoStateType, SpecialsAssumption
<1>4. backend'.x = IF SentX(kind, plan) # Null THEN SentX(kind, plan)
                   ELSE IF api = "late" THEN Null ELSE Default(plan.b)
  BY DEF Create, Created
<1>5. CASE ~Settable(kind) \/ plan.x = Unknown
  BY <1>1, <1>3, <1>5, OpenLands DEF CreatedX, Lands
<1>6. CASE Settable(kind) /\ plan.x \notin {Unknown, Null}
  <2>1. backend'.x = plan.x
    BY <1>4, <1>6 DEF SentX
  <2> QED
    BY <1>1, <2>1, AgreedLands DEF Same
<1>7. CASE plan.x = Null
  <2>1. ~Computed(kind)
    BY <1>1, <1>2, <1>3, <1>7 DEF CreatedX
  <2>2. backend'.x = Null
    BY <1>4, <1>7, <2>1, PlainPlan DEF SentX, Default
  <2> QED
    BY <1>1, <1>7, <2>2, AgreedLands DEF Same
<1> QED
  BY <1>5, <1>6, <1>7

Landed ==
    pc = "reply" /\ ~touched =>
        /\ backend.b = config.b /\ backend.d = config.d
        /\ HasUpdatePath(kind) \/ ~Tracked \/ Readable => InSync

LEMMA InSyncIs ==
    /\ InSync <=> Lands(backend.x)
    /\ UNCHANGED <<kind, api, config>> => (InSync' <=> Lands(backend'.x))
<1>1. InSync <=> Lands(backend.x)
  BY DEF InSync, Lands
<1>2. ASSUME UNCHANGED <<kind, api, config>> PROVE InSync' <=> Lands(backend'.x)
  <2>1. \A v, w : Same(v, w)' = Same(v, w)
    BY <1>2, KindViews
  <2> QED
    BY <1>2, <2>1 DEF InSync, Lands, HasDefault, Computed
<1> QED
  BY <1>1, <1>2

LEMMA LandedStep == ASSUME Case, Base, Seen, Remembered, Landed, [Next]_vars PROVE Landed'
<1>1. UNCHANGED <<kind, api>> /\ Readable' = Readable /\ HasUpdatePath(kind)' = HasUpdatePath(kind)
  BY KindKept, KindViews
<1>2. CASE Create
  <2>1. /\ backend'.b = plan.b /\ backend'.d = plan.d /\ UNCHANGED <<kind, api, config>> /\ pc # "idle"
    BY <1>2 DEF Create, Created
  <2> QED
    BY <1>2, <2>1, CreateLands, InSyncIs, PlanFacts DEF Landed
<1>3. CASE UpdatePut
  <2>1. /\ Sends /\ Accepted /\ UNCHANGED <<kind, api, config, state, touched>> /\ pc # "idle" /\ Tracked
        /\ backend'.b = plan.b /\ backend'.d = plan.d
    BY <1>3, SendsFacts, AcceptedType DEF UpdatePut, history, UpdatePlanned
  <2>2. HasUpdatePath(kind) \/ Readable => touched \/ Lands(backend'.x)
    BY <2>1, UpdateLands
  <2>3. plan.b = config.b /\ plan.d = config.d
    BY <2>1, PlanFacts
  <2> QED
    BY <1>1, <2>1, <2>2, <2>3, InSyncIs DEF Landed, Tracked
<1>4. CASE Assign
  <2>1. /\ backend'.b = backend.b /\ backend'.d = backend.d /\ UNCHANGED <<kind, api, config, state, pc, touched>>
        /\ ~Settable(kind)
    BY <1>4 DEF Assign, history, Base, Typed, Objects, Case, Declared
  <2>2. Lands(backend'.x)
    BY <2>1, OpenLands
  <2> QED
    BY <2>1, <2>2, InSyncIs DEF Landed
<1>5. CASE Tick
  <2>1. /\ backend'.b = backend.b /\ backend'.d = backend.d /\ backend'.x = backend.x
        /\ UNCHANGED <<kind, api, config, state, pc, touched>>
    BY <1>5 DEF Tick, Base, Typed, Objects
  <2> QED
    BY <1>1, <2>1, InSyncIs DEF Landed, Tracked
<1>6. CASE UNCHANGED vars
  BY <1>1, <1>6, InSyncIs DEF vars, history, Landed, Tracked
<1>7. CASE pc' # "reply" \/ touched'
  BY <1>7 DEF Landed
<1>8. CASE Plan \/ Destroy \/ Finish \/ UpdateReadsOnly \/ UpdateSkipped \/ MergeRead \/ UpdateRefused \/ UpdateFails
  <2>1. pc' # "reply"
    BY <1>8 DEF Plan, PlanCreate, PlanReplace, PlanUpdate, PlanNothing, PlanRejected, Plans, Destroy, Finish,
       UpdateReadsOnly, UpdateSkipped, EndsWithReply, Ends, MergeRead, UpdateRefused, UpdateFails, Fails
  <2> QED
    BY <2>1, <1>7
<1>9. CASE Import \/ EditConfig \/ Console
  <2>1. pc' # "reply" \/ touched'
    BY <1>9 DEF Import, EditConfig, Console
  <2> QED
    BY <2>1, <1>7
<1> QED
  BY <1>2, <1>3, <1>4, <1>5, <1>6, <1>8, <1>9 DEF Next, Apply, Environment

-----------------------------------------------------------------------------
(* The whole of it. *)

Whole == Sound /\ Filling /\ Seen /\ Remembered /\ Unhidden /\ Landed

LEMMA WholeInit == ASSUME Init PROVE Whole
<1>1. Null # Empty /\ state.x = Null /\ backend.x = Null /\ cur.x = Null
  BY SpecialsAssumption DEF Init, NoState, NoObject
<1> QED
  BY <1>1, SoundInit DEF Init, Whole, Filling, Seen, Remembered, Unhidden, Landed, Tracked

LEMMA WholeStep == ASSUME AllDeclared, Whole, [Next]_vars PROVE Whole'
<1>1. Case
  BY CaseOK DEF Whole, Sound, Base
<1> QED
  BY <1>1, SoundStep, FillingStep, SeenStep, RememberedStep, UnhiddenStep, LandedStep DEF Whole, Sound

(* A replacement is planned only for a value that differs from the         *)
(* object's; where the API does not show it, from the last one asked for.  *)
THEOREM NoReplaceWithoutCause == ASSUME AllDeclared PROVE Spec => []NoSpuriousReplace
<1>1. Init => Whole
  BY WholeInit
<1>2. Whole /\ [Next]_vars => Whole'
  BY WholeStep
<1>3. Whole => NoSpuriousReplace
  BY CaseOK, NoSpuriousReplaceOf DEF Whole, Sound, Base
<1> QED
  BY <1>1, <1>2, <1>3, PTL DEF Spec

-----------------------------------------------------------------------------
(* What an apply that succeeds has reached. *)

(* A planned x that is the one of the state is the one of the object.      *)
LEMMA UnchangedLands ==
    ASSUME Case, Whole, pc = "update", ~touched, ~hidden, api # "late",
           HasUpdatePath(kind) \/ Has(kind, "forceNew"), SameForm(plan.x, state.x)
    PROVE  InSync
<1>1. Agreed(plan.x) /\ Tracked
  BY PlanAgreed DEF Whole, Sound, Base, Planned, UpdatePlanned
<1>2. CASE Readable
  <2>1. LookAlike(state.x, backend.x)
    BY <1>2 DEF Whole, Seen
  <2> QED
    BY <1>1, <2>1, SameChain, AgreedLands, InSyncIs
<1>3. CASE ~Readable
  <2>1. SameForm(state.x, backend.x)
    BY <1>1, <1>3 DEF Whole, Unhidden
  <2>2. SameForm(plan.x, backend.x)
    BY <2>1, SameFormTransitive
  <2>3. Same(plan.x, backend.x)
    BY <2>2 DEF SameForm, Same
  <2> QED
    BY <1>1, <2>3, AgreedLands, InSyncIs
<1> QED
  BY <1>2, <1>3

(* A value that is neither sent nor read.                                  *)
LEMMA CreateOnlyTold ==
    ASSUME Case, Whole, UpdatePlanned, pc # "idle", ~hidden, ~HasUpdatePath(kind), ~Has(kind, "forceNew")
    PROVE  warned \/ config.x \in {Null, asked}
<1>1. /\ ~Computed(kind) /\ Has(kind, "noRead") /\ Has(kind, "createOnly")
      /\ kind \in Kinds /\ config \in Configs /\ state \in States /\ Tracked
  BY ObjectOK DEF HasUpdatePath, Case, Declared, Whole, Sound, Base, UpdatePlanned
<1>2. plan.x = config.x /\ ~HasDefault(kind) /\ Settable(kind)
  BY <1>1, PlainPlan DEF Whole, Sound
<1>3. SUFFICES ASSUME ~warned, config.x # Null PROVE config.x = asked
  OBVIOUS
<1>4. Modified(kind, config, state).x = config.x /\ config.x # Unknown
  <2>1. /\ Modified(kind, config, state).x \in Intended(kind, config, state)
        /\ config.x # Unknown
    BY <1>1, ModifiedX, IntendedKnown DEF Case
  <2> QED
    BY <1>3, <2>1 DEF Intended
<1>5. ~imported
  BY <1>1 DEF Whole, Remembered, Readable
<1>6. state.x = config.x
  BY <1>1, <1>2, <1>3, <1>4, <1>5 DEF UpdatePlanned, warnIgnoredChanges
<1>7. state.x \in Recalled(asked)
  BY <1>1, <1>5 DEF Whole, Remembered
<1> QED
  BY <1>2, <1>3, <1>6, <1>7 DEF Recalled

LEMMA EndReaches ==
    ASSUME Case, Whole, Finish \/ UpdateReadsOnly \/ UpdateSkipped, ~touched
    PROVE  \/ InSync
           \/ hidden
           \/ ~Readable /\ Has(kind, "createOnly") /\ (warned \/ config.x \in {Null, asked})
<1>1. SUFFICES ASSUME ~hidden
               PROVE  InSync \/ (~Readable /\ Has(kind, "createOnly") /\ (warned \/ config.x \in {Null, asked}))
  OBVIOUS
<1>2. CASE ~Settable(kind)
  BY <1>2, OpenLands, InSyncIs DEF Whole, Sound
<1>3. CASE UpdatePlanned /\ plan.x = Unknown
  BY <1>3, OpenLands, InSyncIs DEF Whole, Sound
<1>4. CASE UpdatePlanned /\ pc # "idle" /\ ~HasUpdatePath(kind) /\ ~Has(kind, "forceNew")
  BY <1>1, <1>4, CreateOnlyTold DEF HasUpdatePath, Case, Declared, Readable
<1>5. ASSUME UpdatePlanned, Has(kind, "forceNew"), Settable(kind) PROVE SameForm(plan.x, state.x)
  <2>1. ~(Has(kind, "importAdoptsConfig") /\ imported)
    BY <1>1 DEF Whole, Remembered, Case, Declared, Readable
  <2> QED
    BY <1>5, <2>1, NotReplaced DEF Whole, Sound
<1>6. Settable(kind) => api # "late"
  BY DEF Case, Declared
<1>7. CASE Settable(kind) /\ Finish
  <2>1. pc = "reply" /\ pc # "idle"
    BY <1>7 DEF Finish
  <2>2. ~Tracked \/ UpdatePlanned
    BY <2>1 DEF Whole, Sound, Base, Planned, CreatePlanned
  <2>3. HasUpdatePath(kind) \/ ~Tracked \/ Readable => InSync
    BY <2>1 DEF Whole, Landed
  <2>4. CASE UpdatePlanned /\ ~HasUpdatePath(kind) /\ Has(kind, "forceNew") /\ ~Readable
    <3>1. SameForm(plan.x, backend.x)
      BY <1>1, <2>1, <2>4 DEF Whole, Unhidden
    <3>2. Same(plan.x, backend.x) /\ Agreed(plan.x)
      BY <2>1, <3>1, PlanAgreed DEF SameForm, Same, Whole, Sound
    <3> QED
      BY <3>2, AgreedLands, InSyncIs
  <2> QED
    BY <1>4, <2>1, <2>2, <2>3, <2>4
<1>8. CASE Settable(kind) /\ UpdateReadsOnly
  <2>1. pc = "update" /\ UpdatePlanned /\ Has(kind, "forceNew")
    BY <1>8 DEF UpdateReadsOnly, Whole, Sound, Base, Planned, Case, Declared
  <2> QED
    BY <1>1, <1>5, <1>6, <1>8, <2>1, UnchangedLands
<1>9. CASE Settable(kind) /\ UpdateSkipped
  <2>1. pc = "update" /\ UpdatePlanned /\ UpdateSkips(kind, state, plan)
    BY <1>9 DEF UpdateSkipped, Whole, Sound, Base, Planned
  <2>2. CASE HasUpdatePath(kind) /\ plan.x # Unknown
    BY <1>1, <1>6, <1>9, <2>1, <2>2, SkippedX, UnchangedLands DEF Whole, Sound
  <2>3. CASE Has(kind, "forceNew")
    BY <1>1, <1>5, <1>6, <1>9, <2>1, <2>3, UnchangedLands
  <2> QED
    BY <1>3, <1>4, <2>1, <2>2, <2>3
<1> QED
  BY <1>2, <1>7, <1>8, <1>9

LEMMA CleanedByEnds ==
    ASSUME Base, [Next]_vars, clean', ~clean
    PROVE  (Finish \/ UpdateReadsOnly \/ UpdateSkipped) /\ ~touched
<1>1. CASE Finish \/ UpdateReadsOnly \/ UpdateSkipped
  BY <1>1 DEF Finish, UpdateReadsOnly, UpdateSkipped, EndsWithReply, Ends, Base, Typed
<1>2. CASE Plan
  BY <1>2 DEF Plan, PlanCreate, PlanReplace, PlanUpdate, PlanNothing, PlanRejected, Plans
<1>3. CASE Destroy \/ Create \/ MergeRead \/ UpdatePut \/ UpdateRefused \/ UpdateFails
  BY <1>3 DEF Destroy, Create, MergeRead, UpdatePut, UpdateRefused, UpdateFails, Fails, history
<1>4. CASE Environment \/ UNCHANGED vars
  BY <1>4 DEF Environment, Import, EditConfig, Console, Edit, Assign, Tick, vars, history
<1> QED
  BY <1>1, <1>2, <1>3, <1>4 DEF Next, Apply

(* An apply that succeeds has brought the configured value to the object,  *)
(* unless a value from elsewhere is there that the API does not show; a    *)
(* new value that can be set at creation only is warned about.             *)
THEOREM AppliesReach == ASSUME AllDeclared PROVE Spec => ApplyReaches
<1>1. Init => Whole
  BY WholeInit
<1>2. Whole /\ [Next]_vars => Whole'
  BY WholeStep
<1>3. Whole /\ [Next]_vars => [clean' /\ ~clean =>
          \/ InSync
          \/ hidden
          \/ warned
          \/ Has(kind, "createOnly") /\ config.x \in {Null, asked}]_vars
  BY CaseOK, CleanedByEnds, EndReaches DEF Whole, Sound, Base
<1> QED
  BY <1>1, <1>2, <1>3, PTL DEF Spec, ApplyReaches

-----------------------------------------------------------------------------
(* What an update writes. *)

(* An output keeps its value as long as its input does. *)
LEMMA OutputWritten ==
    ASSUME Case, Whole, Sends, Accepted, ~Settable(kind), plan.b = state.b, state.x # Null
    PROVE  Same(backend'.x, backend.x)
<1>1. /\ Given(backend'.x, plan.b) /\ (backend.x # Null => backend'.x # Null)
      /\ pc \in {"update", "merged"} /\ backend \in Objects /\ backend # NoObject
  BY OutputStored, SendsFacts, ObjectOK DEF Whole, Sound, Base
<1>2. /\ Given(backend.x, backend.b) /\ backend.x # Null /\ state.b = backend.b
  BY <1>1 DEF Whole, Sound, Outputs
<1> DEFINE g == IF Derives THEN Derived[plan.b] ELSE Filled
<1>3. SameForm(backend'.x, g) /\ SameForm(backend.x, g)
  BY <1>1, <1>2 DEF Given
<1> HIDE DEF g
<1>4. SameForm(g, backend.x)
  BY <1>3 DEF SameForm, SameButCase
<1>5. SameForm(backend'.x, backend.x)
  BY <1>3, <1>4, SameFormTransitive
<1> QED
  BY <1>5 DEF SameForm, Same

(* And so does what the server has decided for the user.                   *)
LEMMA DecidedKept ==
    ASSUME Case, Whole, Sends, Accepted, ~touched, Settable(kind), HasUpdatePath(kind),
           Computed(kind), config.x = Null, ~HasDefault(kind), plan.b = state.b, state.x # Null
    PROVE  Same(backend'.x, backend.x)
<1>1. /\ UpdatePlanned /\ pc \in {"update", "merged"} /\ pc # "idle" /\ state \in States
      /\ plan.b = config.b
  BY SendsFacts, ObjectOK, PlanFacts DEF Whole, Sound, Base
<1>2. plan.x = state.x /\ plan.x # Unknown
  <2>1. plan.x \in Intended(kind, config, state) /\ (plan.x = Unknown => LeftOpen(kind, config, state))
    BY <1>1, PlanIntended DEF Whole, Sound, UpdatePlanned
  <2>2. ~LeftOpen(kind, config, state)
    BY <1>1 DEF LeftOpen
  <2> QED
    BY <2>1, <2>2 DEF Intended
<1>3. Readable /\ api # "late"
  BY UnreadableIs DEF Whole, Sound, Case, Declared
<1>4. LookAlike(state.x, backend.x)
  BY <1>1, <1>3 DEF Whole, Seen
<1>5. cur.x = backend.x \/ kind.update # "merge"
  BY <1>3 DEF Sends, Whole, Seen
<1>6. CASE backend'.x = state.x
  <2>1. SameForm(backend'.x, state.x)
    BY <1>6 DEF SameForm
  <2> QED
    BY <1>4, <2>1, SameChain
<1>7. CASE backend'.x = backend.x
  BY <1>7 DEF Same
<1> QED
  BY <1>2, <1>5, <1>6, <1>7, StoredX DEF Whole, Sound, SameButCase

LEMMA WritesOwn ==
    ASSUME Case, Whole, UpdatePut \/ UpdateFails
    PROVE  /\ backend'.u = backend.u \/ cur.u # backend.u
           /\ \/ Same(backend'.x, backend.x)
              \/ touched
              \/ InSync' /\ (Computed(kind) /\ config.x = Null /\ ~HasDefault(kind)
                               => plan.b # state.b \/ state.x = Null)
<1>1. CASE UNCHANGED backend
  BY <1>1 DEF Same
<1>2. CASE Accepted
  <2>1. Sends /\ UNCHANGED <<kind, api, config>> /\ pc \in {"update", "merged"}
    BY SendsFacts DEF UpdatePut, UpdateFails, Fails, Whole, Sound
  <2>2. backend'.u = Body.u
    BY <1>2, <2>1, AcceptedType DEF Whole, Sound
  <2>3. Body.u = backend.u \/ Body.u = cur.u
    BY DEF Body, mergeIntoCurrent
  <2>4. CASE touched
    BY <2>2, <2>3, <2>4
  <2>5. CASE ~HasUpdatePath(kind)
    <3>1. backend'.x = backend.x
      BY <1>2, <2>1, <2>5, AcceptedType DEF Whole, Sound, Stored
    <3> QED
      BY <2>2, <2>3, <3>1 DEF Same
  <2>6. CASE ~touched /\ HasUpdatePath(kind)
    <3>1. InSync'
      BY <1>2, <2>1, <2>6, UpdateLands, InSyncIs DEF Whole, Sound
    <3>2. ASSUME Computed(kind), config.x = Null, ~HasDefault(kind), plan.b = state.b, state.x # Null
          PROVE  Same(backend'.x, backend.x)
      BY <1>2, <2>1, <2>6, <3>2, OutputWritten, DecidedKept
    <3> QED
      BY <2>2, <2>3, <3>1, <3>2
  <2> QED
    BY <2>4, <2>5, <2>6, <2>2 DEF Whole, Sound, Base, Typed
<1> QED
  BY <1>1, <1>2 DEF UpdatePut, UpdateFails

(* An update changes x only to what is configured, or what the server      *)
(* makes of a changed input, and never what Terraform does not model;      *)
(* changes made by others between its read and its call aside.             *)
THEOREM UpdatesWriteTheirOwn == ASSUME AllDeclared PROVE Spec => WritesOnlyItsOwn
<1>1. Init => Whole
  BY WholeInit
<1>2. Whole /\ [Next]_vars => Whole'
  BY WholeStep
<1>3. Whole => [UpdatePut \/ UpdateFails =>
        /\ backend'.u = backend.u \/ cur.u # backend.u
        /\ \/ Same(backend'.x, backend.x)
           \/ touched
           \/ InSync' /\ (Computed(kind) /\ config.x = Null /\ ~HasDefault(kind)
                            => plan.b # state.b \/ state.x = Null)]_vars
  BY CaseOK, WritesOwn DEF Whole, Sound, Base
<1> QED
  BY <1>1, <1>2, <1>3, PTL DEF Spec, WritesOnlyItsOwn

-----------------------------------------------------------------------------
(* After an apply that succeeded, nothing is left to do. *)

Done ==
    /\ pc = "idle" /\ Tracked
    /\ backend.b = config.b /\ backend.d = config.d /\ state.meta = config.meta
    /\ Agreed(state.x)
    /\ Readable => InSync
    /\ api = "masked" /\ state.x = Null => IsEmpty(backend.x)

Settled == clean => Done

(* The x of a kind whose value is the server's affair. *)
LEMMA OpenAgreed ==
    ASSUME Case, Base, ~Settable(kind) \/ (pc # "idle" /\ plan.x = Unknown)
    PROVE  \A x : Agreed(x)
<1>1. config.x = Null /\ Computed(kind) /\ ~HasDefault(kind)
  <2>1. CASE ~Settable(kind)
    BY <2>1, ConfiguredIsSettable DEF Base, Case, Declared, Settable, Computed
  <2>2. CASE pc # "idle" /\ plan.x = Unknown
    <3>1. kind \in Kinds /\ config \in Configs /\ state \in States /\ config.x # Unknown /\ kind.default # Unknown /\ Unknown # Null
      BY ObjectOK, IntendedKnown, NoStateType, SpecialsAssumption DEF Base, Case
    <3>2. plan = CreatePlan(kind, config) => plan.x = CreatedX(kind, config)
      BY <3>1, CreatePlanIs
    <3>3. plan = UpdatePlan(kind, config, state) => LeftOpen(kind, config, state)
      BY <2>2, <3>1, PlanIntended
    <3>4. LeftOpen(kind, config, state) => config.x = Null /\ Computed(kind) /\ ~HasDefault(kind)
      BY DEF LeftOpen, Case, Declared, Settable
    <3> QED
      BY <2>2, <3>1, <3>2, <3>3, <3>4 DEF Base, Typed, Planned, CreatePlanned, UpdatePlanned, CreatedX
  <2> QED
    BY <2>1, <2>2
<1> QED
  BY <1>1 DEF Agreed

(* A refresh finds the x that was asked for, in the form it was asked for. *)
Kept(x) ==
    /\ state.x \in Values /\ Same(state.x, backend.x) => x = state.x
    /\ IsEmpty(backend.x) => /\ x \in {Null, Empty}
                             /\ state.x = Empty \/ (state.x = Null /\ ~Computed(kind)) => x = state.x

LEMMA PlainKept ==
    ASSUME Case, Readable, Settable(kind), backend \in Objects, ~Has(kind, "equivalentResponseValues"),
           NEW v \in Shown(FALSE)
    PROVE  Kept(StateX(kind, state.x, v, TRUE))
<1> DEFINE formed == keepEmptyForm(kind, state.x, v)
           x == StateX(kind, state.x, v, TRUE)
<1>1. x = keepPriorCasing(kind, state.x, formed)
  BY RefreshedX DEF keepEquivalentValue, ResolvedForm
<1>2. Alike(v, backend.x) /\ Null \notin Values /\ Empty \notin Values
  BY ShownAlike, ValuesAssumption DEF Specials
<1>3. ASSUME state.x \in Values, Same(state.x, backend.x) PROVE x = state.x
  <2>1. SameForm(state.x, backend.x)
    BY <1>2, <1>3, SameMeansAlike DEF Alike, IsEmpty, SameForm, SameButCase
  <2>2. SameForm(state.x, v) /\ v \in Values
    BY <1>2, <1>3, <2>1 DEF Alike, IsEmpty, SameForm, SameButCase
  <2>3. formed = v
    BY <1>2, <2>2 DEF keepEmptyForm, IsEmpty
  <2> QED
    BY <1>1, <2>2, <2>3 DEF SameForm, keepPriorCasing
<1>4. ASSUME IsEmpty(backend.x)
      PROVE  /\ x \in {Null, Empty}
             /\ state.x = Empty \/ (state.x = Null /\ ~Computed(kind)) => x = state.x
  <2>1. IsEmpty(v)
    BY <1>2, <1>4 DEF Alike, SameForm, SameButCase, IsEmpty
  <2>2. x = formed
    BY <1>1, <1>2, <2>1 DEF keepPriorCasing, SameButCase, keepEmptyForm, IsEmpty
  <2> QED
    BY <2>1, <2>2 DEF keepEmptyForm, IsEmpty
<1> QED
  BY <1>3, <1>4 DEF Kept

LEMMA ResolvedKept ==
    ASSUME Case, Readable, Settable(kind), backend \in Objects, Has(kind, "equivalentResponseValues"),
           \A c \in Values : \A u, w \in Resolved[c] : u = w /\ Resolved[u] = {},
           NEW v \in Shown(FALSE)
    PROVE  Kept(StateX(kind, state.x, v, TRUE))
<1> DEFINE formed == keepEmptyForm(kind, state.x, v)
           x == StateX(kind, state.x, v, TRUE)
<1>1. /\ v \in IF backend.x \in Values /\ Resolved[backend.x] # {} THEN Resolved[backend.x] ELSE {backend.x}
      /\ ~Has(kind, "caseInsensitive")
      /\ Null \notin Values /\ Empty \notin Values /\ Resolved \in [Values -> SUBSET Values]
  BY ResolvedShown, ValuesAssumption DEF Specials
<1>2. x = keepEquivalentValue(kind, state.x, formed)
  BY <1>1, RefreshedX DEF keepPriorCasing
<1>3. ASSUME state.x \in Values, Same(state.x, backend.x) PROVE x = state.x
  <2>1. /\ backend.x \in Values
        /\ state.x = backend.x \/ backend.x \in Resolved[state.x] \/ state.x \in Resolved[backend.x]
    BY <1>1, <1>3 DEF Same, IsEmpty, ResolvedForm
  <2>2. v \in Values
    BY <1>1, <2>1
  <2>3. formed = v
    BY <1>1, <2>2 DEF keepEmptyForm, IsEmpty
  <2>4. v = state.x \/ v \in Resolved[state.x]
    <3>1. CASE state.x = backend.x
      BY <1>1, <2>1, <3>1
    <3>2. CASE backend.x \in Resolved[state.x]
      BY <1>1, <1>3, <2>1, <3>2
    <3>3. CASE state.x \in Resolved[backend.x]
      BY <1>1, <2>1, <3>3
    <3> QED
      BY <2>1, <3>1, <3>2, <3>3
  <2> QED
    BY <1>2, <1>3, <2>3, <2>4 DEF keepEquivalentValue, ResolvedForm
<1>4. ASSUME IsEmpty(backend.x)
      PROVE  /\ x \in {Null, Empty}
             /\ state.x = Empty \/ (state.x = Null /\ ~Computed(kind)) => x = state.x
  <2>1. IsEmpty(v)
    BY <1>1, <1>4 DEF IsEmpty
  <2>2. IsEmpty(formed)
    BY <2>1 DEF keepEmptyForm, IsEmpty
  <2>3. \A u \in Values : formed \notin Resolved[u]
    <3> HIDE DEF formed
    <3>1. formed \notin Values
      BY <1>1, <2>2 DEF IsEmpty
    <3> QED
      BY <1>1, <3>1
  <2>4. x = formed
    BY <1>2, <2>3 DEF keepEquivalentValue, ResolvedForm
  <2> QED
    BY <2>1, <2>2, <2>4 DEF keepEmptyForm, IsEmpty
<1> QED
  BY <1>3, <1>4 DEF Kept

LEMMA RefreshAgreed ==
    ASSUME Case, OneForm, Whole, Done, NEW s \in Refreshed
    PROVE  Agreed(s.x)
<1>1. /\ kind \in Kinds /\ config \in Configs /\ backend \in Objects
      /\ Null \notin Values /\ Empty \notin Values
  BY ObjectOK, ValuesAssumption DEF Specials, Whole, Sound, Base, Case, Done, Located
<1>2. CASE ~Settable(kind)
  BY <1>2, OpenAgreed DEF Whole, Sound
<1>3. CASE ~Readable
  BY <1>3, RefreshSeen DEF Whole, Sound, Done
<1>4. CASE Settable(kind) /\ Readable
  <2>1. PICK v \in Shown(FALSE) : s.x = StateX(kind, state.x, v, TRUE)
    BY RefreshType DEF Whole, Sound, Done
  <2>2. Has(kind, "equivalentResponseValues") =>
          \A c \in Values : \A u, w \in Resolved[c] : u = w /\ Resolved[u] = {}
    BY DEF OneForm, Whole, Sound, Base, Typed
  <2>3. Kept(s.x)
    BY <1>1, <1>4, <2>1, <2>2, PlainKept, ResolvedKept
  <2>4. Same(Empty, backend.x) => IsEmpty(backend.x)
    BY <1>1, ValuesAssumption DEF Same, IsEmpty, SameButCase, ResolvedForm
  <2>5. CASE config.x # Null
    <3>1. state.x = config.x /\ Same(state.x, backend.x)
      BY <1>4, <2>5 DEF Agreed, InSync, Done
    <3>2. s.x = state.x
      BY <1>1, <2>3, <2>4, <2>5, <3>1 DEF Kept, Configs
    <3> QED
      BY <2>5, <3>1, <3>2 DEF Agreed
  <2>6. CASE config.x = Null /\ HasDefault(kind)
    <3>1. Same(kind.default, backend.x) /\ Computed(kind) /\ kind.default \in Values \cup {Empty}
      BY <1>1, <1>4, <2>6 DEF InSync, Case, Declared, Computed, Kinds, HasDefault, Done
    <3> QED
      BY <1>1, <2>3, <2>4, <2>6, <3>1 DEF Kept, Agreed, Done
  <2>7. CASE config.x = Null /\ ~HasDefault(kind)
    BY <1>4, <2>3, <2>7 DEF Kept, Agreed, InSync, Done
  <2> QED
    BY <2>5, <2>6, <2>7
<1> QED
  BY <1>2, <1>3, <1>4

(* What it was asked for is what is planned again. *)
LEMMA QuietPlan ==
    ASSUME Case, Base, NEW s \in States, s.out # Unknown,
           s.b = config.b, s.d = config.d, s.meta = config.meta, Agreed(s.x)
    PROVE  UpdatePlan(kind, config, s) = s /\ ~PlansReplace(kind, config, s, imported)
<1> DEFINE p == Marked(kind, config, s)
           m == Modified(kind, config, s)
           u == UpdatePlan(kind, config, s)
<1>1. /\ kind \in Kinds /\ config \in Configs /\ u \in Wanted(config, s) /\ m \in Wanted(config, s)
      /\ s.x # Unknown /\ Null # Empty /\ Null # Unknown
  BY ObjectOK, PlanType, ModifiedType, IntendedKnown, SpecialsAssumption DEF Base, Case
<1>2. /\ HasDefault(kind) => Computed(kind) /\ ~Has(kind, "recomputeWhenChanged")
      /\ kind.default # Null
  BY <1>1, SpecialsAssumption, ValuesAssumption DEF Case, Declared, Computed, Kinds, Specials
<1>3. m.x = s.x
  <2>1. CASE config.x = Null /\ kind.default = Empty /\ s.x = Null
    <3>1. HasDefault(kind) /\ Computed(kind)
      BY <1>2, <2>1, SpecialsAssumption, NoStateType DEF HasDefault, Specials
    <3>2. ~recomputeWhenChanged(kind, config, s, p) /\ nullStateMatchesEmptyDefault(kind, config, s)
      BY <1>2, <2>1, <3>1 DEF recomputeWhenChanged, nullStateMatchesEmptyDefault
    <3>3. p \in [x : {p.x}, b : {p.b}, d : {p.d}, out : {p.out}, meta : {p.meta}]
      BY DEF Marked, Proposed
    <3>4. m = [p EXCEPT !.x = Null]
      BY <3>2 DEF Modified
    <3> QED
      BY <2>1, <3>1, <3>3, <3>4
  <2>2. CASE ~(config.x = Null /\ kind.default = Empty /\ s.x = Null)
    <3>1. Proposed(kind, config, s) = s
      <4>1. Proposed(kind, config, s).x = s.x
        BY <1>2, <2>2 DEF Proposed, Agreed
      <4> QED
        BY <4>1 DEF Proposed, States
    <3>2. p = s
      BY <3>1 DEF Marked
    <3>3. m.x = s.x
      BY <1>1, <3>2, <2>2 DEF Modified, recomputeWhenChanged, nullStateMatchesEmptyDefault, States
    <3> QED
      BY <3>3
  <2> QED
    BY <2>1, <2>2
<1>4. m.b = s.b /\ m.d = s.d /\ m.meta = s.meta
  BY <1>1 DEF Wanted
<1>5. bodyFromRaw(kind, m) = bodyFromRaw(kind, s)
  BY <1>3, <1>4 DEF bodyFromRaw, SentX
<1>6. u.x = s.x /\ u.out = s.out
  BY <1>1, <1>3, <1>5 DEF UpdatePlan, ModifyPlan, Wanted
<1>7. u = s
  BY <1>1, <1>4, <1>6 DEF Wanted, States
<1> QED
  BY <1>7 DEF PlansReplace

LEMMA SettledQuiet ==
    ASSUME Case, OneForm, Whole, Done, NEW s \in Refreshed
    PROVE  /\ UpdatePlan(kind, config, s) = s /\ ~PlansReplace(kind, config, s, imported)
           /\ Agreed(s.x) /\ s.meta = config.meta /\ s # NoState
           /\ api = "masked" /\ s.x = Null => IsEmpty(backend.x)
<1>1. /\ s \in States /\ s # NoState /\ s.out \in Outs /\ s.b = config.b /\ s.d = config.d /\ s.meta = config.meta
  BY RefreshType DEF Whole, Sound, Done
<1>2. s.out # Unknown
  BY <1>1, FieldsAssumption DEF Specials
<1>3. Agreed(s.x)
  BY RefreshAgreed
<1>4. api = "masked" /\ s.x = Null => IsEmpty(backend.x)
  BY RefreshSeen DEF Whole, Sound, Done
<1> QED
  BY <1>1, <1>2, <1>3, <1>4, QuietPlan DEF Whole, Sound

(* An apply that succeeds leaves it so. *)
LEMMA EndDone ==
    ASSUME Case, Whole, Finish \/ UpdateReadsOnly \/ UpdateSkipped, ~touched
    PROVE  Done'
<1>1. /\ pc # "idle" /\ backend' = backend /\ UNCHANGED <<kind, api, config>>
      /\ pc' = "idle" /\ Tracked' /\ state'.meta = plan.meta
      /\ (Settable(kind) \/ Has(kind, "noRead")) /\ plan.x # Unknown => state'.x = plan.x
  BY EndsIs, KindKept DEF Whole, Sound, Tracked, Finish, UpdateReadsOnly, UpdateSkipped, EndsWithReply, Ends
<1>2. /\ plan.b = config.b /\ plan.d = config.d /\ plan.meta = config.meta
      /\ Agreed(plan.x)
  BY <1>1, PlanFacts, PlanAgreed DEF Whole, Sound
<1>3. backend.b = config.b /\ backend.d = config.d
  <2>1. CASE Finish
    BY <2>1 DEF Finish, Whole, Landed
  <2>2. CASE UpdateReadsOnly \/ UpdateSkipped
    <3>1. pc = "update" /\ UpdatePlanned /\ state.b = backend.b /\ state.d = backend.d
      BY <2>2 DEF UpdateReadsOnly, UpdateSkipped, Whole, Sound, Base, Planned, Seen
    <3>2. CASE UpdateReadsOnly
      BY <3>1, <3>2 DEF UpdateReadsOnly, UpdatePlanned, PlansReplace
    <3>3. CASE UpdateSkipped
      <4>1. sendStoredCasing(kind, state, plan) = bodyFromRaw(kind, state)
        BY <3>3 DEF UpdateSkipped, UpdateSkips
      <4>2. /\ sendStoredCasing(kind, state, plan).b = plan.b
            /\ sendStoredCasing(kind, state, plan).d = plan.d
        BY DEF sendStoredCasing, bodyFromRaw
      <4>3. plan.b = state.b /\ plan.d = state.d
        BY <4>1, <4>2 DEF bodyFromRaw
      <4> QED
        BY <1>2, <3>1, <4>3
    <3> QED
      BY <2>2, <3>2, <3>3
  <2> QED
    BY <2>1, <2>2
<1>4. Agreed(state'.x)
  BY <1>1, <1>2, OpenAgreed DEF Whole, Sound
<1>5. Readable => InSync
  <2>1. Readable => ~hidden
    BY DEF Whole, Remembered
  <2> QED
    BY <2>1, EndReaches
<1>6. api = "masked" /\ state'.x = Null => IsEmpty(backend.x)
  <2>1. SUFFICES ASSUME api = "masked", state'.x = Null PROVE IsEmpty(backend.x)
    OBVIOUS
  <2>2. ~Readable
    BY <2>1 DEF Readable
  <2>3. /\ HasUpdatePath(kind) /\ ~Has(kind, "forceNew") /\ Settable(kind) /\ ~Computed(kind)
        /\ plan.x # Unknown /\ plan.x = Null
    BY <1>1, <2>1, <2>2, UnreadableIs DEF Whole, Sound, Case, Declared, HasUpdatePath, Has
  <2>4. CASE Finish
    <3>1. InSync
      BY <2>3, <2>4 DEF Finish, Whole, Landed
    <3>2. config.x = Null /\ ~HasDefault(kind)
      BY <1>1, <2>3, PlainPlan DEF Whole, Sound
    <3> QED
      BY <2>3, <3>1, <3>2 DEF InSync
  <2>5. CASE UpdateReadsOnly
    BY <2>3, <2>5 DEF UpdateReadsOnly, Case, Declared
  <2>6. CASE UpdateSkipped
    <3>1. pc = "update" /\ UpdateSkips(kind, state, plan)
      BY <2>6 DEF UpdateSkipped
    <3>2. SameForm(plan.x, state.x)
      BY <2>3, <3>1, SkippedX DEF Whole, Sound
    <3>3. state.x = Null
      BY <2>3, <3>2, ValuesAssumption DEF SameForm, SameButCase, Specials
    <3> QED
      BY <2>1, <3>1, <3>3 DEF Whole, Seen
  <2> QED
    BY <2>4, <2>5, <2>6
<1>7. Agreed(state'.x) => Agreed(state.x)'
  BY <1>1, KindViews DEF Agreed
<1>8. Readable' = Readable /\ (InSync' <=> InSync)
  BY <1>1, KindViews, InSyncIs
<1> QED
  BY <1>1, <1>2, <1>3, <1>4, <1>5, <1>6, <1>7, <1>8 DEF Done, IsEmpty

LEMMA SettledStep == ASSUME Case, OneForm, Whole, Settled, [Next]_vars PROVE Settled'
<1> SUFFICES ASSUME clean' PROVE Done'
  BY DEF Settled
<1>1. CASE ~clean
  BY <1>1, CleanedByEnds, EndDone DEF Whole, Sound
<1>2. CASE clean
  <2>1. Done /\ UNCHANGED <<kind, api>>
    BY <1>2, KindKept DEF Settled
  <2>2. ASSUME UNCHANGED <<config, pc>>, backend'.b = backend.b, backend'.d = backend.d,
               state' # NoState, state'.meta = config.meta, Agreed(state'.x),
               Readable => Lands(backend'.x),
               api = "masked" /\ state'.x = Null => IsEmpty(backend'.x)
        PROVE  Done'
    <3>1. Agreed(state.x)' /\ Readable' = Readable /\ (InSync' <=> Lands(backend'.x))
      BY <2>1, <2>2, KindViews, InSyncIs DEF Agreed
    <3> QED
      BY <2>1, <2>2, <3>1 DEF Done, Tracked, IsEmpty
  <2>3. CASE Plan
    <3>1. PICK s \in Refreshed : PlanReplace(s) \/ PlanUpdate(s) \/ PlanNothing(s) \/ PlanRejected(s)
      BY <2>1, <2>3 DEF Plan, PlanCreate, Done
    <3>2. /\ UpdatePlan(kind, config, s) = s /\ ~PlansReplace(kind, config, s, imported)
          /\ Agreed(s.x) /\ s.meta = config.meta /\ s # NoState
          /\ api = "masked" /\ s.x = Null => IsEmpty(backend.x)
      BY <2>1, SettledQuiet
    <3>3. PlanNothing(s) \/ PlanRejected(s)
      BY <3>1, <3>2 DEF PlanReplace, PlanUpdate
    <3>4. UNCHANGED <<config, pc, backend>> /\ state' \in {s, state}
      BY <2>1, <3>3 DEF PlanNothing, PlanRejected, Plans, Done
    <3>5. state' # NoState /\ state'.meta = config.meta /\ Agreed(state'.x)
          /\ (api = "masked" /\ state'.x = Null => IsEmpty(backend.x))
      BY <2>1, <3>2, <3>4 DEF Done, Tracked
    <3> QED
      BY <2>1, <2>2, <3>4, <3>5, InSyncIs DEF Done
  <2>4. CASE Apply
    <3>1. pc # "idle"
      BY <2>4, SendsFacts DEF Apply, Destroy, Create, Finish, UpdateReadsOnly, UpdateSkipped, MergeRead,
         UpdatePut, UpdateRefused, UpdateFails, Whole, Sound
    <3> QED
      BY <2>1, <3>1 DEF Done
  <2>5. CASE Import \/ EditConfig \/ Console \/ Tick
    BY <2>1, <2>5 DEF Import, EditConfig, Console, Tick, Edit, Done
  <2>6. CASE Assign
    <3>1. /\ UNCHANGED <<config, pc, state>> /\ backend'.b = backend.b /\ backend'.d = backend.d
          /\ ~Settable(kind) /\ api # "masked"
      BY <2>6 DEF Assign, Whole, Sound, Base, Typed, Objects, Case, Declared
    <3>2. \A v : Lands(v)
      BY <3>1, OpenLands DEF Whole, Sound
    <3> QED
      BY <2>1, <2>2, <3>1, <3>2 DEF Done, Tracked
  <2>7. CASE UNCHANGED vars
    BY <2>1, <2>2, <2>7, InSyncIs DEF vars, Done, Tracked
  <2> QED
    BY <2>3, <2>4, <2>5, <2>6, <2>7 DEF Next, Environment
<1> QED
  BY <1>1, <1>2

(* After an apply that succeeded, and as long as nobody changes anything,  *)
(* the next plan is empty, whatever form the API gives the value; the form *)
(* that an API has resolved a value to must not change by itself.          *)
THEOREM AppliesSettle == ASSUME AllDeclared, OneForm PROVE Spec => []QuietAfterApply
<1>1. Init => Whole /\ Settled
  BY WholeInit DEF Init, Settled
<1>2. Whole /\ Settled /\ [Next]_vars => (Whole /\ Settled)'
  BY WholeStep, SettledStep, CaseOK DEF Whole, Sound, Base
<1>3. Whole /\ Settled => QuietAfterApply
  BY SettledQuiet, CaseOK DEF Settled, QuietAfterApply, Whole, Sound, Base
<1> QED
  BY <1>1, <1>2, <1>3, PTL DEF Spec
=============================================================================
