---------------------------- MODULE AttributeRules ----------------------------
(***************************************************************************)
(* How the engine plans, sends and reads back one attribute x of a         *)
(* resource, as operators of the attribute's kind.  The resource has four  *)
(* more attributes, of the commonest kinds: b and d, required and sent to  *)
(* the API, and forceNew when the resource has no update call; out, a      *)
(* computed output; and meta, the timeouts block, which no API call        *)
(* carries.  A record with these five fields is a state or a plan, one     *)
(* without out a configuration.                                            *)
(***************************************************************************)
CONSTANTS
    Null, Unknown, Empty, Masked,  \* Masked: what an API shows for a secret
    NoDefault,
    Values,                        \* real values of x
    Form,                          \* a value without its letter case
    Resolved,                      \* the equivalentResponseValues of a value
    Bs,                            \* values of b
    RuleB                          \* the b for which a requiredIf rule asks for x

Specials == {Null, Unknown, Empty, Masked}

ASSUME SpecialsAssumption ==
    /\ Null # Unknown /\ Null # Empty /\ Null # Masked
    /\ Unknown # Empty /\ Unknown # Masked /\ Empty # Masked
    /\ NoDefault \notin Values \cup Specials

ASSUME ValuesAssumption ==
    /\ Values \cap Specials = {}
    /\ Bs \cap Specials = {}
    /\ RuleB \in Bs
    /\ Resolved \in [Values -> SUBSET Values]

Flags == {"forceNew", "createOnly", "noRead", "importAdoptsConfig", "caseInsensitive",
          "stable", "stableUnlessChanged", "recomputeWhenChanged", "sendFromState",
          "updateOnlyIfChanged", "preserveOnEmptyResponse", "equivalentResponseValues"}

Kinds == [mode    : {"required", "optional", "optional+computed", "computed"},
          default : Values \cup {Empty, NoDefault},
          flags   : SUBSET Flags,
          update  : {"put", "merge", "none"}]

Known == Values \cup {Null, Empty, Masked}
Configs == [x : Values \cup {Null, Empty}, b : Bs, d : BOOLEAN, meta : BOOLEAN]
NoState == [x |-> Null, b |-> Null, d |-> Null, out |-> Null, meta |-> Null]

Has(k, flag) == flag \in k.flags
Computed(k) == k.mode \in {"optional+computed", "computed"}
Settable(k) == k.mode # "computed"
HasDefault(k) == k.default # NoDefault
IsEmpty(v) == v \in {Null, Empty}
SameButCase(v, w) == v \in Values /\ w \in Values /\ v # w /\ Form[v] = Form[w]
FullyKnown(p) == \A f \in DOMAIN p : p[f] # Unknown

(* What the loading of the specs checks of an attribute. *)
ValidKind(k) ==
    /\ Has(k, "importAdoptsConfig") => Has(k, "forceNew")
    /\ Has(k, "stableUnlessChanged") => ~Settable(k) /\ ~Has(k, "stable")
    /\ Has(k, "recomputeWhenChanged") => k.mode = "optional+computed"
    /\ Has(k, "sendFromState") => ~Settable(k) /\ ~Has(k, "createOnly")
    /\ Has(k, "equivalentResponseValues") => Settable(k)

-----------------------------------------------------------------------------
(* The plan: what Terraform core and the framework propose, ...            *)

(* The configured value, else the default, else the prior one of a         *)
(* computed attribute.                                                     *)
Proposed(k, c, s) ==
    [x |-> IF c.x # Null THEN c.x
           ELSE IF HasDefault(k) THEN k.default
           ELSE IF Computed(k) THEN s.x ELSE Null,
     b |-> c.b, d |-> c.d, out |-> s.out, meta |-> c.meta]

(* If anything changes, computed attributes not configured become unknown. *)
Marked(k, c, s) ==
    LET p == Proposed(k, c, s) IN
    IF p = s THEN p
    ELSE [p EXCEPT !.out = Unknown,
                   !.x = IF Computed(k) /\ c.x = Null /\ ~HasDefault(k) THEN Unknown ELSE @]

(* ... the attribute's plan modifiers, in the order of the schema, ...     *)

(* Broken: what the user may set is not kept. *)
useStateForUnknownOutputs(k) ==
    /\ Computed(k)
    /\ \E f \in {"forceNew", "stable", "sendFromState"} : Has(k, f)

useStateForUnknown(k) ==
    /\ Computed(k)
    /\ Settable(k) \/ \E f \in {"forceNew", "stable", "sendFromState"} : Has(k, f)

preserveNonNullOnly(k) ==
    ~Has(k, "forceNew") /\ ~Has(k, "sendFromState") /\ Has(k, "stable") /\ ~Settable(k)

stableUnlessKeeps(k, s, p) == Has(k, "stableUnlessChanged") /\ s.x # Null /\ p.b = s.b

KeptForUnknown(k, s, p) ==
    \/ useStateForUnknown(k) /\ ~(preserveNonNullOnly(k) /\ s.x = Null)
    \/ stableUnlessKeeps(k, s, p)

nullStateMatchesEmptyDefault(k, c, s) ==
    Computed(k) /\ k.default = Empty /\ c.x = Null /\ s.x = Null

recomputeWhenChanged(k, c, s, p) == Has(k, "recomputeWhenChanged") /\ c.x = Null /\ p.b # s.b

Modified(k, c, s) ==
    LET p == Marked(k, c, s) IN
    [p EXCEPT !.x =
        IF recomputeWhenChanged(k, c, s, p) THEN Unknown
        ELSE IF nullStateMatchesEmptyDefault(k, c, s) THEN Null
        ELSE IF @ = Unknown /\ KeptForUnknown(k, s, p) THEN s.x
        ELSE @]

(* Broken: another letter case is another value. *)
RequiresReplaceAnyCase(k, s, p, imported) ==
    /\ Has(k, "forceNew")
    /\ p.x # s.x
    /\ ~(Has(k, "importAdoptsConfig") /\ s.x = Null /\ imported)

RequiresReplace(k, s, p, imported) ==
    /\ Has(k, "forceNew")
    /\ p.x # s.x
    /\ ~(Has(k, "importAdoptsConfig") /\ s.x = Null /\ imported)
    /\ ~(Has(k, "caseInsensitive") /\ SameButCase(p.x, s.x))

(* ... and ModifyPlan: when both bodies are the same, every computed       *)
(* attribute is held at its prior value.                                   *)
HasUpdatePath(k) == ~Has(k, "createOnly")

(* What a body carries for x; Null stands for a body without it.           *)
SentX(k, p) == IF p.x # Unknown /\ (Settable(k) \/ Has(k, "sendFromState")) THEN p.x ELSE Null

bodyFromRaw(k, p) == [x |-> IF HasUpdatePath(k) THEN SentX(k, p) ELSE Null, b |-> p.b, d |-> p.d]

ModifyPlan(k, s, p) ==
    IF bodyFromRaw(k, p) # bodyFromRaw(k, s) THEN p
    ELSE [p EXCEPT !.out = s.out, !.x = IF Computed(k) THEN s.x ELSE @]

UpdatePlan(k, c, s) == ModifyPlan(k, s, Modified(k, c, s))
CreatePlan(k, c) == Marked(k, c, NoState)

(* Terraform core replaces only for a path whose value the plan changes.   *)
PlansReplace(k, c, s, imported) ==
    \/ RequiresReplace(k, s, Modified(k, c, s), imported) /\ UpdatePlan(k, c, s).x # s.x
    \/ k.update = "none" /\ <<c.b, c.d>> # <<s.b, s.d>>

(* Terraform core rejects a plan that is not the configuration, unless it  *)
(* keeps a prior value or decides a computed one.                          *)
ValidPlan(k, c, s, p) ==
    \/ p.x = c.x
    \/ p.x = s.x /\ s.x # Null /\ c.x # Null
    \/ Computed(k) /\ c.x = Null

warnIgnoredChanges(k, c, s, imported) ==
    LET p == Modified(k, c, s) IN
    /\ ~Has(k, "forceNew")
    /\ Settable(k)
    /\ Has(k, "createOnly") \/ k.update = "none"
    /\ c.x # Null
    /\ p.x # Unknown
    /\ p.x # s.x
    /\ ~(s.x = Null /\ imported)

-----------------------------------------------------------------------------
(* The update body, and the record it is merged into.                      *)

(* Broken: the rule is forgotten. *)
requiredByNothing(s, p) == FALSE

requiredByChange(s, p) == p.b = RuleB /\ p.b # s.b

sendStoredCasing(k, s, p) ==
    IF Has(k, "caseInsensitive") /\ HasUpdatePath(k) /\ SameButCase(p.x, s.x)
    THEN [bodyFromRaw(k, p) EXCEPT !.x = s.x]
    ELSE bodyFromRaw(k, p)

(* Broken: a body that names no x counts as unchanged. *)
UpdateSkipsNulls(k, s, p) ==
    LET body == sendStoredCasing(k, s, p) IN
    body = bodyFromRaw(k, s) \/ body = [bodyFromRaw(k, s) EXCEPT !.x = Null]

UpdateSkips(k, s, p) == sendStoredCasing(k, s, p) = bodyFromRaw(k, s)

dropUnchangedUpdateFields(k, s, p) ==
    LET body == sendStoredCasing(k, s, p) IN
    IF Has(k, "updateOnlyIfChanged") /\ p.x = s.x /\ ~requiredByChange(s, p)
    THEN [body EXCEPT !.x = Null]
    ELSE body

(* Broken: the body replaces the record. *)
mergeIntoNothing(k, cur, p, body) ==
    [x |-> IF body.x # Null THEN body.x
           ELSE IF HasUpdatePath(k) /\ Settable(k) /\ p.x = Null THEN Null ELSE cur.x,
     b |-> body.b, d |-> body.d, u |-> FALSE]

(* cur is the record just read; u is what Terraform does not model.  A     *)
(* value the body carries replaces the record's, a planned null removes it.*)
mergeIntoCurrent(k, cur, p, body) ==
    [x |-> IF body.x # Null THEN body.x
           ELSE IF HasUpdatePath(k) /\ Settable(k) /\ p.x = Null THEN Null ELSE cur.x,
     b |-> body.b, d |-> body.d, u |-> cur.u]

-----------------------------------------------------------------------------
(* buildStateRaw for x: base is the plan, or on a refresh the prior state, *)
(* and shown is what the API says.                                         *)

(* Broken: the response replaces a known planned value. *)
TakesResponseAlways(k, base, refresh) == TRUE

TakesResponse(k, base, refresh) == ~Settable(k) \/ refresh \/ base = Unknown

restorePreservedValues(k, base, next) ==
    IF Has(k, "preserveOnEmptyResponse") /\ (IsEmpty(next) \/ next = Masked) /\ base \notin {Null, Unknown}
    THEN base ELSE next

(* Broken: the form of the prior value is kept over a real one. *)
keepEmptyFormAlways(k, base, next) ==
    IF Settable(k) /\ (base = Empty \/ (base = Null /\ ~Computed(k)))
    THEN base ELSE next

(* Broken: an absent value is not kept over an empty one. *)
keepEmptyString(k, base, next) ==
    IF Settable(k) /\ IsEmpty(next) /\ base = Empty THEN base ELSE next

keepEmptyForm(k, base, next) ==
    IF Settable(k) /\ IsEmpty(next) /\ (base = Empty \/ (base = Null /\ ~Computed(k)))
    THEN base ELSE next

keepStable(k, base, next, refresh) ==
    IF (Has(k, "stable") \/ Has(k, "stableUnlessChanged")) /\ ~refresh
       /\ IsEmpty(next) /\ base # Unknown /\ ~IsEmpty(base)
    THEN base ELSE next

keepPriorCasing(k, base, next) ==
    IF Has(k, "caseInsensitive") /\ SameButCase(base, next) THEN base ELSE next

ResolvedForm(k, v, w) == Has(k, "equivalentResponseValues") /\ v \in Values /\ w \in Resolved[v]

keepEquivalentValue(k, base, next) == IF ResolvedForm(k, base, next) THEN base ELSE next

StateX(k, base, shown, refresh) ==
    IF Has(k, "noRead") \/ ~TakesResponse(k, base, refresh) THEN base
    ELSE LET restored == restorePreservedValues(k, base, shown)
             formed == keepEmptyForm(k, base, restored)
             kept == keepStable(k, base, formed, refresh)
         IN keepEquivalentValue(k, base, keepPriorCasing(k, base, kept))

buildStateRaw(k, base, reply, refresh) ==
    [x |-> StateX(k, base.x, reply.x, refresh),
     b |-> IF refresh THEN reply.b ELSE base.b,
     d |-> IF refresh THEN reply.d ELSE base.d,
     out |-> reply.out,
     meta |-> base.meta]
=============================================================================
