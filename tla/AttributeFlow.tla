---------------------------- MODULE AttributeFlow ----------------------------
(***************************************************************************)
(* One attribute of one resource through refresh, plan and apply, while    *)
(* the configuration, the backend and the console change it.  The kind of  *)
(* the attribute and the habits of the API it belongs to are fixed for a   *)
(* behaviour; AttributeRules says what the engine makes of them.  Waits    *)
(* and partial failures are in ResourceLifecycle: here a create or an      *)
(* update is its call, and the read that gives the new state.              *)
(***************************************************************************)
EXTENDS AttributeRules, Naturals

CONSTANTS
    Cases,       \* the [kind, api] pairs of this instance
    Filled,      \* what the server gives an x that is left out
    Derived,     \* what it gives instead when it derives x from b
    MaxEdits, MaxFaults

(* The API's habits.  "blank": an empty value may be shown as absent and   *)
(* the reverse; "masked", "redacted": a secret is shown masked or empty;   *)
(* "recased": shown in any letter case; "late": assigned some time after   *)
(* the create; "partial": left out of the reply to a write; "derived": see *)
(* Derived; "delta": a body is a delta, in which naming an unchanged x, or *)
(* not naming the x that RuleB asks for, is an error.                      *)
Habits == {"plain", "blank", "masked", "redacted", "recased", "late", "partial", "derived", "delta"}

ASSUME CasesAssumption == Cases \subseteq [kind : {k \in Kinds : ValidKind(k)}, api : Habits]

ASSUME ServerAssumption == Filled \in Values /\ Derived \in [Bs -> Values]

ASSUME BoundAssumption == MaxEdits \in Nat /\ MaxFaults \in Nat

VARIABLES
    kind, api,   \* never change
    config,      \* the configuration, without out
    state,       \* Terraform's state, NoState when it has no entry
    imported,    \* the import mark
    plan,        \* the plan being applied, NoState when there is none
    warned,      \* it came with a warning
    pc,
    cur,         \* the record mergeIntoCurrent has read
    backend,     \* the object, NoObject when there is none
    edits, faults

(* History, read by the properties only. *)
VARIABLES
    rejected,    \* what Terraform core last refused: "none", "plan" or "result"
    touched,     \* somebody else changed the object since the plan
    moved,       \* the object's output changed since the plan
    hidden,      \* x is not what the last apply that ended left, and the API does not show it
    clean,       \* nothing happened since an apply that succeeded
    asked        \* the x that apply was asked for

world == <<backend, config, edits>>
history == <<rejected, touched, moved, hidden, clean, asked>>
vars == <<kind, api, config, state, imported, plan, warned, pc, cur, backend, edits, faults, history>>

NoObject == [x |-> Null, b |-> Null, d |-> Null, u |-> Null, out |-> Null]
Outs == {0, 1}

ASSUME FieldsAssumption == Outs \cap Specials = {} /\ BOOLEAN \cap Specials = {}

Tracked == state # NoState

(* The API's replies tell two values of x apart.                           *)
Readable == ~Has(kind, "noRead") /\ api \notin {"masked", "redacted"}

(* The spec of an attribute of kind k declares what its API a does, and    *)
(* asks for nothing that this API cannot give.  The loading of the specs   *)
(* does not check it: it is up to whoever writes a spec.                   *)
Declared(k, a) ==
    \* What a reply does not show as it is.
    /\ a = "recased" => Has(k, "caseInsensitive")
    /\ a \in {"masked", "redacted"} <=> Has(k, "preserveOnEmptyResponse")
    /\ a \in {"masked", "redacted"} => ~Computed(k) /\ k.flags \cap {"forceNew", "createOnly"} = {}
    /\ a = "blank" => ~(k.mode = "optional" /\ Has(k, "forceNew"))
    /\ Has(k, "equivalentResponseValues") =>
         a = "plain" /\ k.flags \cap {"forceNew", "caseInsensitive"} = {}
    \* What no reply shows is known without one.
    /\ Has(k, "noRead") => a = "plain" /\ (Computed(k) => HasDefault(k))
    /\ Has(k, "importAdoptsConfig") => Has(k, "noRead")
    /\ Has(k, "forceNew") /\ Has(k, "noRead") /\ k.default \in Values => Has(k, "importAdoptsConfig")
    \* What cannot be updated is replaced, or is not read.
    /\ Has(k, "createOnly") => ~Computed(k) /\ (Has(k, "forceNew") \/ Has(k, "noRead"))
    /\ k.update = "none" => Has(k, "forceNew") \/ ~Settable(k)
    \* What the server decides.
    /\ HasDefault(k) => k.mode = "optional+computed"
    /\ Has(k, "recomputeWhenChanged") => ~HasDefault(k) /\ ~Has(k, "forceNew")
    /\ a = "derived" => Computed(k) /\ ~HasDefault(k)
    /\ a = "delta" => k.mode \in {"required", "optional+computed"}
    /\ Has(k, "updateOnlyIfChanged") => a = "delta"
    /\ a = "late" => ~Settable(k) /\ k.update # "none"
    \* An output is kept over an update only if the update leaves it alone.
    /\ ~Settable(k) /\ k.flags \cap {"forceNew", "sendFromState"} # {} =>
         /\ a \notin {"late", "derived"}
         /\ a = "partial" => k.flags \cap {"stable", "stableUnlessChanged"} # {}
    /\ ~Settable(k) /\ a = "derived" => ~Has(k, "stable")

(* No value is the resolved form of two. *)
FormsApart == \A v, w \in Values : Resolved[v] \cap Resolved[w] # {} => v = w

AllDeclared == FormsApart /\ \A case \in Cases : Declared(case.kind, case.api)

(* Nor is one resolved now to one form and now to another.                 *)
OneForm ==
    (\E case \in Cases : Has(case.kind, "equivalentResponseValues")) =>
        \A v \in Values : \A u, w \in Resolved[v] : u = w /\ Resolved[u] = {}

-----------------------------------------------------------------------------
(* The server. *)

Derives == api = "derived"

(* What it stores for an x that a body has, or leaves out.                 *)
Default(b) ==
    IF Derives THEN Derived[b] ELSE IF Computed(kind) /\ ~HasDefault(kind) THEN Filled ELSE Null

Created(body) ==
    [x |-> IF body.x # Null THEN body.x ELSE IF api = "late" THEN Null ELSE Default(body.b),
     b |-> body.b, d |-> body.d, u |-> FALSE, out |-> 0]

(* An output is the server's own, unless it is sent back to it: then a     *)
(* body without it drops it.                                               *)
Stored(body) ==
    IF ~HasUpdatePath(kind) THEN backend.x
    ELSE IF ~Settable(kind) THEN IF Has(kind, "sendFromState") THEN body.x
                                 ELSE IF Derives THEN Derived[body.b] ELSE backend.x
    ELSE IF body.x # Null THEN body.x
    ELSE IF api = "delta" THEN backend.x
    ELSE Default(body.b)

Refuses(body) ==
    /\ api = "delta"
    /\ LET switch == body.b = RuleB /\ backend.b # RuleB
       IN IF switch THEN body.x = Null ELSE body.x # Null /\ body.x = backend.x

(* The values a reply may show for x. *)
Shown(write) ==
    LET v == backend.x IN
    CASE api = "blank" /\ IsEmpty(v) -> {Null, Empty}
      [] api = "masked" /\ ~IsEmpty(v) -> {Masked}
      [] api = "redacted" -> {Empty}
      [] api = "recased" /\ v \in Values -> {w \in Values : Form[w] = Form[v]}
      [] api = "partial" /\ write -> {v, Null}
      [] \E w \in Values : ResolvedForm(kind, v, w) -> Resolved[v]
      [] OTHER -> {v}

Replies(write) == {[x |-> v, b |-> backend.b, d |-> backend.d, out |-> backend.out] : v \in Shown(write)}

(* Other forms of a value matter to two flags only.                        *)
RealX == IF Has(kind, "caseInsensitive") \/ Has(kind, "equivalentResponseValues") THEN Values
         ELSE {v \in Values : \A w \in Values : SameButCase(v, w) => v = Form[v]}

ConfigX ==
    CASE kind.mode = "computed" -> {Null}
      [] kind.mode = "required" -> RealX
      [] OTHER -> RealX \cup {Null} \cup (IF api = "blank" THEN {Empty} ELSE {})

(* The requiredIf validator rejects other configurations.                  *)
Configurations ==
    {c \in Configs : c.x \in ConfigX /\ (api = "delta" /\ c.b = RuleB => c.x # Null)}

(* What an x made by somebody else may be. *)
ForeignX ==
    IF kind.mode = "computed" THEN {IF Derives THEN Derived[backend.b] ELSE Filled}
    ELSE RealX \cup (IF kind.mode = "required" \/ api = "delta" THEN {} ELSE {Null})

-----------------------------------------------------------------------------
Init ==
    /\ \E case \in Cases : kind = case.kind /\ api = case.api
    /\ config \in {c \in Configurations : ~c.d /\ ~c.meta}
    /\ state = NoState
    /\ backend = NoObject
    /\ imported = FALSE
    /\ plan = NoState /\ warned = FALSE /\ pc = "idle" /\ cur = NoObject
    /\ edits = 0 /\ faults = 0
    /\ rejected = "none" /\ touched = FALSE /\ moved = FALSE /\ hidden = FALSE
    /\ clean = FALSE /\ asked = Null

(* Import of an object made elsewhere: the import mark, and the first read.*)
Import ==
    /\ ~Tracked /\ pc = "idle" /\ backend = NoObject
    /\ UNCHANGED <<kind, api, config, plan, warned, pc, cur, edits, faults,
                   rejected, touched, moved, clean, asked>>
    /\ hidden' = ~Readable
    /\ \E b \in Bs, d \in BOOLEAN :
         \E x \in (IF kind.mode = "computed" /\ Derives THEN {Derived[b]} ELSE ForeignX) :
           backend' = [x |-> x, b |-> b, d |-> d, u |-> FALSE, out |-> 0]
    /\ \E reply \in Replies(FALSE)' : state' = buildStateRaw(kind, NoState, reply, TRUE)
    /\ imported' = TRUE

-----------------------------------------------------------------------------
(* Refresh and plan.                                                       *)

Refreshed == IF Tracked THEN {buildStateRaw(kind, state, reply, TRUE) : reply \in Replies(FALSE)}
             ELSE {NoState}

Plans(p, step, warning) ==
    /\ plan' = p /\ pc' = step /\ warned' = warning
    /\ rejected' = "none" /\ touched' = FALSE /\ moved' = FALSE
    /\ UNCHANGED <<kind, api, config, imported, cur, backend, edits, faults, hidden, clean, asked>>

PlanCreate ==
    /\ pc = "idle" /\ ~Tracked
    /\ state' = state
    /\ Plans(CreatePlan(kind, config), "create", FALSE)

PlanReplace(s) ==
    /\ pc = "idle" /\ Tracked
    /\ state' = s
    /\ PlansReplace(kind, config, s, imported)
    /\ Plans(CreatePlan(kind, config), "replace", FALSE)

PlanUpdate(s) ==
    LET p == UpdatePlan(kind, config, s) IN
    /\ pc = "idle" /\ Tracked
    /\ state' = s
    /\ ~PlansReplace(kind, config, s, imported)
    /\ ValidPlan(kind, config, s, p)
    /\ p # s
    /\ Plans(p, "update", warnIgnoredChanges(kind, config, s, imported))

PlanNothing(s) ==
    /\ pc = "idle" /\ Tracked
    /\ state' = s
    /\ ~PlansReplace(kind, config, s, imported)
    /\ ValidPlan(kind, config, s, s)
    /\ UpdatePlan(kind, config, s) = s
    /\ Plans(NoState, "idle", FALSE)

PlanRejected(s) ==
    /\ pc = "idle" /\ Tracked
    /\ ~PlansReplace(kind, config, s, imported)
    /\ ~ValidPlan(kind, config, s, UpdatePlan(kind, config, s))
    /\ rejected' = "plan"
    /\ UNCHANGED <<kind, api, config, state, imported, plan, warned, pc, cur, backend, edits, faults,
                   touched, moved, hidden, clean, asked>>

-----------------------------------------------------------------------------
(* Apply.                                                                  *)

Destroy ==
    /\ pc = "replace"
    /\ pc' = "create"
    /\ backend' = NoObject /\ state' = NoState /\ imported' = FALSE
    /\ UNCHANGED <<kind, api, config, plan, warned, cur, edits, faults, history>>

Create ==
    /\ pc = "create"
    /\ pc' = "reply"
    /\ backend' = Created([x |-> SentX(kind, plan), b |-> plan.b, d |-> plan.d])
    /\ hidden' = FALSE
    /\ UNCHANGED <<kind, api, config, state, imported, plan, warned, cur, edits, faults,
                   rejected, touched, moved, clean, asked>>

(* An operation ends with the new state r.  Terraform core compares it     *)
(* with the plan.                                                          *)
Compatible(r) == \A f \in DOMAIN plan : r[f] # Unknown /\ plan[f] \in {Unknown, r[f]}

Ends(r) ==
    /\ pc' = "idle"
    /\ state' = r
    /\ imported' = FALSE
    /\ plan' = NoState /\ warned' = FALSE /\ cur' = NoObject
    /\ rejected' = IF Compatible(r) THEN rejected ELSE "result"
    /\ clean' = (Compatible(r) /\ ~touched)
    /\ asked' = config.x
    /\ touched' = FALSE /\ moved' = FALSE
    /\ UNCHANGED <<kind, api, config, backend, edits, faults, hidden>>

EndsWithReply(write) == \E reply \in Replies(write) : Ends(buildStateRaw(kind, plan, reply, FALSE))

(* The reply of the create or of the update, or the read that follows it.  *)
Finish == pc = "reply" /\ EndsWithReply(TRUE)

UpdateReadsOnly == pc = "update" /\ kind.update = "none" /\ EndsWithReply(FALSE)

UpdateSkipped ==
    /\ pc = "update" /\ kind.update # "none"
    /\ UpdateSkips(kind, state, plan)
    /\ IF FullyKnown(plan) THEN Ends(plan) ELSE EndsWithReply(FALSE)

Updates == kind.update # "none" /\ ~UpdateSkips(kind, state, plan)

(* Broken: the record is read and not kept. *)
MergeReadForgets ==
    /\ pc = "update" /\ Updates /\ kind.update = "merge"
    /\ pc' = "merged" /\ cur' = cur
    /\ UNCHANGED <<kind, api, config, state, imported, plan, warned, backend, edits, faults, history>>

MergeRead ==
    /\ pc = "update" /\ Updates /\ kind.update = "merge"
    /\ pc' = "merged" /\ cur' = backend
    /\ UNCHANGED <<kind, api, config, state, imported, plan, warned, backend, edits, faults, history>>

Body ==
    LET body == dropUnchangedUpdateFields(kind, state, plan) IN
    IF kind.update = "merge" THEN mergeIntoCurrent(kind, cur, plan, body)
    ELSE [x |-> body.x, b |-> body.b, d |-> body.d, u |-> backend.u]

Sends == Updates /\ pc = IF kind.update = "merge" THEN "merged" ELSE "update"

Accepted ==
    /\ ~Refuses(Body)
    /\ backend' = [x |-> Stored(Body), b |-> Body.b, d |-> Body.d, u |-> Body.u, out |-> 1 - backend.out]

UpdatePut ==
    /\ Sends /\ Accepted
    /\ pc' = "reply"
    /\ UNCHANGED <<kind, api, config, state, imported, plan, warned, cur, edits, faults, history>>

(* A new x that no reply will show: made by somebody else, or by a call    *)
(* whose answer was an error.                                              *)
HidesChange == ~Readable /\ backend'.x # backend.x

(* The apply fails, and Terraform keeps the prior state.                   *)
Fails ==
    /\ pc' = "idle"
    /\ plan' = NoState /\ warned' = FALSE /\ cur' = NoObject
    /\ touched' = FALSE /\ moved' = FALSE /\ clean' = FALSE
    /\ UNCHANGED <<kind, api, config, state, imported, edits, rejected, asked>>

UpdateRefused == Sends /\ Refuses(Body) /\ Fails /\ UNCHANGED <<backend, faults, hidden>>

UpdateFails ==
    /\ Sends /\ faults < MaxFaults /\ faults' = faults + 1
    /\ Accepted \/ UNCHANGED backend
    /\ hidden' = (hidden \/ HidesChange)
    /\ Fails

-----------------------------------------------------------------------------
(* Everybody else. *)
Edit == edits < MaxEdits /\ edits' = edits + 1 /\ clean' = FALSE

EditConfig ==
    /\ pc = "idle" /\ Edit
    /\ config' \in Configurations \ {config}
    /\ UNCHANGED <<kind, api, state, imported, plan, warned, pc, cur, backend, faults,
                   rejected, touched, moved, hidden, asked>>

Console ==
    /\ backend # NoObject /\ pc # "replace" /\ Edit
    /\ touched' = TRUE
    /\ \/ \E x \in ForeignX : backend' = [backend EXCEPT !.x = x]
       \/ kind.update = "merge" /\ backend' = [backend EXCEPT !.u = ~@]
       \/ backend' = [backend EXCEPT !.d = ~@]
    /\ hidden' = (hidden \/ HidesChange)
    /\ backend' # backend
    /\ UNCHANGED <<kind, api, config, state, imported, plan, warned, pc, cur, faults,
                   rejected, moved, asked>>

(* The server assigns a late x, and may change its output between a plan   *)
(* and the end of its apply; between applies it makes no difference.       *)
Assign ==
    /\ api = "late" /\ backend # NoObject /\ backend.x = Null
    /\ backend' = [backend EXCEPT !.x = Filled]
    /\ UNCHANGED <<kind, api, config, state, imported, plan, warned, pc, cur, edits, faults, history>>

Tick ==
    /\ backend # NoObject /\ pc \in {"update", "merged", "reply"} /\ ~moved
    /\ backend' = [backend EXCEPT !.out = 1 - @]
    /\ moved' = TRUE
    /\ UNCHANGED <<kind, api, config, state, imported, plan, warned, pc, cur, edits, faults,
                   rejected, touched, hidden, clean, asked>>

-----------------------------------------------------------------------------
Plan ==
    \/ PlanCreate
    \/ \E s \in Refreshed : PlanReplace(s) \/ PlanUpdate(s) \/ PlanNothing(s) \/ PlanRejected(s)

Apply ==
    \/ Destroy
    \/ Create
    \/ Finish
    \/ UpdateReadsOnly
    \/ UpdateSkipped
    \/ MergeRead
    \/ UpdatePut
    \/ UpdateRefused
    \/ UpdateFails

Environment == Import \/ EditConfig \/ Console \/ Assign \/ Tick

Next == Plan \/ Apply \/ Environment

Spec == Init /\ [][Next]_vars

(* Terraform is run again and again, a started apply goes on.              *)
FairSpec == Spec /\ WF_vars(Plan) /\ WF_vars(Apply) /\ WF_vars(Assign)

-----------------------------------------------------------------------------
TypeOK ==
    /\ [kind |-> kind, api |-> api] \in Cases
    /\ config \in Configurations
    /\ state \in [x : Known, b : Bs \cup {Null}, d : BOOLEAN \cup {Null}, out : Outs \cup {Null},
                  meta : BOOLEAN \cup {Null}]
    /\ plan \in [x : Known \cup {Unknown}, b : Bs \cup {Null}, d : BOOLEAN \cup {Null},
                 out : Outs \cup {Null, Unknown}, meta : BOOLEAN \cup {Null}]
    /\ \A o \in {backend, cur} :
         o = NoObject \/ o \in [x : Values \cup {Null, Empty}, b : Bs, d : BOOLEAN, u : BOOLEAN, out : Outs]
    /\ pc \in {"idle", "create", "replace", "update", "merged", "reply"}
    /\ pc = "idle" <=> plan = NoState
    /\ pc = "merged" => cur # NoObject
    /\ imported \in BOOLEAN /\ warned \in BOOLEAN
    /\ edits \in 0 .. MaxEdits /\ faults \in 0 .. MaxFaults
    /\ rejected \in {"none", "plan", "result"}
    /\ touched \in BOOLEAN /\ moved \in BOOLEAN /\ hidden \in BOOLEAN /\ clean \in BOOLEAN
    /\ asked \in Values \cup {Null, Empty}

(* Two values of x that mean the same to the API.                          *)
Same(v, w) ==
    \/ v = w
    \/ IsEmpty(v) /\ IsEmpty(w)
    \/ Has(kind, "caseInsensitive") /\ SameButCase(v, w)
    \/ ResolvedForm(kind, v, w) \/ ResolvedForm(kind, w, v)

(* x in the object is what the configuration asks for.                     *)
InSync ==
    IF config.x # Null THEN Same(config.x, backend.x)
    ELSE IF HasDefault(kind) THEN Same(kind.default, backend.x)
    ELSE Computed(kind) \/ IsEmpty(backend.x)

(* Terraform core never refuses what the engine plans or returns: a plan   *)
(* agrees with the configuration, and the new state with the plan.  The    *)
(* update of a resource without an update call is an exception: it reads   *)
(* outputs that the plan holds at their prior values.                      *)
NeverRejected ==
    [][rejected' \notin {"none", rejected} =>
          rejected' = "result" /\ kind.update = "none" /\ moved]_vars

(* After an apply that succeeded, and as long as nobody changes anything,  *)
(* the next plan is empty, whatever form the API gives the value.          *)
QuietAfterApply ==
    clean /\ pc = "idle" => \A s \in Refreshed : UpdatePlan(kind, config, s) = s

(* A plan is empty only when the object has the configured value, where    *)
(* the API shows it.                                                       *)
QuietMeansDone ==
    pc = "idle" /\ Tracked /\ Readable =>
        \A s \in Refreshed : UpdatePlan(kind, config, s) # s \/ InSync

(* An apply that succeeds has brought the configured value to the object,  *)
(* unless a value from elsewhere is there that the API does not show; a    *)
(* new value that can be set at creation only is warned about.             *)
ApplyReaches ==
    [][clean' /\ ~clean =>
        \/ InSync
        \/ hidden
        \/ warned
        \/ Has(kind, "createOnly") /\ config.x \in {Null, asked}]_vars

(* A replacement is planned only for a value that differs from the         *)
(* object's; where the API does not show it, from the last one asked for.  *)
(* An explicit empty value is not taken for an absent one.                 *)
NoSpuriousReplace ==
    pc = "replace" /\ ~touched /\ config.x # Empty => 
        \/ IF Readable THEN ~InSync ELSE config.x # asked
        \/ kind.update = "none" /\ <<config.b, config.d>> # <<backend.b, backend.d>>

(* An update keeps x known, for others may depend on it, unless its input  *)
(* changes or it is an output that may change.                             *)
KnownStaysKnown ==
    pc = "update" /\ plan.x = Unknown =>
        \/ state.x = Null
        \/ plan.b # state.b
        \/ ~Settable(kind) /\ kind.flags \cap {"stable", "stableUnlessChanged", "forceNew", "sendFromState"} = {}

(* An update changes x only to what is configured, or what the server      *)
(* makes of a changed input, and never what Terraform does not model;      *)
(* changes made by others between its read and its call aside.             *)
WritesOnlyItsOwn ==
    [][UpdatePut \/ UpdateFails =>
        /\ backend'.u = backend.u \/ cur.u # backend.u
        /\ \/ Same(backend'.x, backend.x)
           \/ touched
           \/ InSync' /\ (Computed(kind) /\ config.x = Null /\ ~HasDefault(kind)
                            => plan.b # state.b \/ state.x = Null)]_vars

(* When edits and faults have ended, repeated runs come to an empty plan.  *)
BecomesQuiet == <>[](pc = "idle")

(* "changing it replaces the host": a configured value of a forceNew       *)
(* attribute that differs from the known one in state is never passed over *)
(* by an empty plan.                                                       *)
ForcedReplacement ==
    pc = "idle" /\ Tracked /\ Has(kind, "forceNew") =>
        \A s \in Refreshed :
            config.x \in Values /\ s.x \in Values /\ ~Same(config.x, s.x)
                => UpdatePlan(kind, config, s) # s
=============================================================================
