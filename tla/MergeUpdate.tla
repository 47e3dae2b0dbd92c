------------------------------ MODULE MergeUpdate ------------------------------
(***************************************************************************)
(* Update in one PUT, with a write-only secret.  A backend that replaces   *)
(* its record with the request gets the record read just before with the   *)
(* planned body laid over it (mergeIntoCurrent); the secret, which neither *)
(* plan nor state ever holds, is sent when its version changes, kept as    *)
(* stored otherwise, and sent again where the record does not show it.     *)
(*                                                                         *)
(* The secret shares its path with an ordinary attribute, the password,    *)
(* which is in the plan and in state.                                      *)
(***************************************************************************)
EXTENDS Naturals, Documents

CONSTANTS
    Names,       \* the attributes Terraform models
    Path,        \* their paths in requests and responses
    PlannedValues, \* the documents each may be planned as, NoDocument for null
    OwnedPaths,  \* leaves of the record that only the backend knows
    OwnedValues, \* their values
    SecretPath,  \* the path of the secret
    Secrets,     \* its values
    Masked,      \* a value behind redactedPrefix
    None,        \* null
    Specs,       \* the resources: see SpecTraits
    MaxVersion,  \* bound on the version argument
    MaxBreaks,   \* bound on failed calls
    MaxTurns     \* bound on what people and agents do

AttrPaths == {Path[a] : a \in Names}
LeafPaths == AttrPaths \cup OwnedPaths \cup {SecretPath}
Incomparable(p, q) == ~IsPrefix(p, q) /\ ~IsPrefix(q, p)

(* BuildEndpoint and validateAttributes keep the paths of attributes apart. *)
ASSUME PathAssumption ==
    /\ Path \in [Names -> Seq(STRING)]
    /\ OwnedPaths \cup {SecretPath} \subseteq Seq(STRING)
    /\ \A p, q \in LeafPaths : p # q => Incomparable(p, q)
    /\ \A a, b \in Names : a # b => Path[a] # Path[b]
    /\ SecretPath \notin AttrPaths \cup OwnedPaths
    /\ OwnedPaths \cap AttrPaths = {}

ASSUME ValueAssumption ==
    /\ \A a \in Names : \A v \in PlannedValues[a] :
         /\ v = [q \in DOMAIN v |-> v[q]]
         /\ \A q \in DOMAIN v : q \in Seq(STRING) /\ IsPrefix(Path[a], q)
    /\ None \notin Secrets \cup {Masked} \cup Nat
    /\ Masked \notin Secrets
    /\ Empty \notin Secrets \cup {Masked}

ASSUME MergeBoundAssumption ==
    MaxVersion \in Nat /\ MaxBreaks \in Nat /\ MaxTurns \in Nat

(* merges: MergeUpdateIntoCurrent; resend: ResendWhenOmitted; always:      *)
(* SendOnEveryUpdate; command: the secret's path asks for a change rather  *)
(* than holding the secret (spec.updateRequest, Key Vault's value).        *)
SpecTraits == [merges : BOOLEAN, resend : BOOLEAN, always : BOOLEAN, command : BOOLEAN]

(* Every shipped spec whose merged record would hold the secret resends it. *)
ASSUME MergeSpecAssumption ==
    /\ Specs \subseteq SpecTraits
    /\ \A s \in Specs : s.resend <=> s.merges /\ ~s.command

VARIABLES
    spec,        \* the resource
    (* the backend *)
    record,      \* what it stores, without the secret
    secret,      \* the secret it stores, None for none
    echo,        \* how reads show the secret: "plain", "masked" or "omitted"
    (* Terraform *)
    wanted,      \* the configuration
    savedAttrs,  \* the state: the attributes, the password and the version
    savedPassword,
    savedVersion,
    stage,       \* of the update: "idle", "read" or "put"
    sent,        \* the body of the PUT
    (* bounds *)
    breaks, turns,
    (* history, read by the properties only *)
    owned,       \* the leaves only the backend knows, as it last wrote them
    raced,       \* those written after the update had read the record
    drifted,     \* attributes the state may be wrong about
    unsure,      \* the state may be wrong about the password
    disciplined, \* each new secret came with a version never used before
    lastVersion  \* the greatest version so far

mergeBackend == <<record, secret, echo>>
savedState == <<savedAttrs, savedPassword, savedVersion>>
mergeHistory == <<owned, raced, drifted, unsure, disciplined, lastVersion>>
mergeVars == <<spec, mergeBackend, wanted, savedState, stage, sent, breaks, turns, mergeHistory>>

Versions == 1 .. MaxVersion
AttrValues == {f \in [Names -> UNION {PlannedValues[a] : a \in Names}] :
                 \A a \in Names : f[a] \in PlannedValues[a]}

(* ConflictsWith of the two secrets, and writeOnlyValidator. *)
SecretArguments ==
    {[password |-> None, secret |-> None, version |-> None]} \cup
    [password : Secrets, secret : {None}, version : {None}] \cup
    [password : {None}, secret : Secrets, version : Versions]

Configuration(attrs, args) == [attrs |-> attrs, password |-> args.password,
                               secret |-> args.secret, version |-> args.version]

Configurations == {Configuration(attrs, args) : attrs \in AttrValues, args \in SecretArguments}

-----------------------------------------------------------------------------
(* The request. *)

(* bodyFromRaw: null attributes are left out, and a write-only value is    *)
(* null in plan and state.                                                 *)
Leaves(attrs) == UNION {DOMAIN attrs[a] : a \in Names}

SecretLeaf(password) == IF password = None THEN {} ELSE {SecretPath}

Body(attrs, password) ==
    [q \in Leaves(attrs) \cup SecretLeaf(password) |->
       IF q = SecretPath THEN password
       ELSE attrs[CHOOSE a \in Names : q \in DOMAIN attrs[a]][q]]

PlannedBody == Body(wanted.attrs, wanted.password)

(* Broken: the first version of a secret is not taken for a change. *)
VersionChangedOnly == wanted.version # None /\ savedVersion # None /\ wanted.version # savedVersion

writeOnlyVersionChanged == wanted.version # None /\ wanted.version # savedVersion

writeOnlyInUse == wanted.version # None

(* addWriteOnlyValues *)
RequestBody ==
    IF wanted.secret # None /\ (writeOnlyVersionChanged \/ spec.always)
    THEN SetPath(PlannedBody, SecretPath, wanted.secret)
    ELSE PlannedBody

(* Settable attributes planned null; the secret and the password both are  *)
(* when neither is used.                                                   *)
Cleared ==
    {Path[a] : a \in {b \in Names : wanted.attrs[b] = NoDocument}} \cup
    (IF wanted.password = None /\ ~writeOnlyInUse THEN {SecretPath} ELSE {})

resendOmittedWriteOnly(doc) ==
    IF /\ spec.resend
       /\ writeOnlyInUse
       /\ \A q \in DOMAIN Part(doc, SecretPath) : doc[q] = Masked
    THEN SetPath(doc, SecretPath, wanted.secret)
    ELSE doc

(* Broken: the body alone is sent. *)
mergeNothing(current, body) == body

(* Broken: what the body sets is merged into what the record holds there. *)
mergeWithoutReplacing(current, body) ==
    DeepMergeInto(resendOmittedWriteOnly(DeletePaths(current, Cleared)), body)

mergeIntoCurrent(current, body) ==
    LET kept == resendOmittedWriteOnly(DeletePaths(current, Cleared))
        replaced == {p \in AttrPaths \cup {SecretPath} : Part(body, p) # NoDocument}
    IN DeepMergeInto(DeletePaths(kept, replaced), body)

-----------------------------------------------------------------------------
MergeInit ==
    /\ spec \in Specs
    /\ wanted \in Configurations
    /\ wanted.version \in {None, 1}
    /\ savedAttrs = wanted.attrs
    /\ savedPassword = wanted.password
    /\ savedVersion = wanted.version
    /\ owned \in [OwnedPaths -> OwnedValues]
    /\ record = DeepMergeInto(owned, Body(wanted.attrs, None))
    /\ secret = IF wanted.password # None THEN wanted.password ELSE wanted.secret
    /\ echo \in IF spec.command THEN {"omitted"} ELSE {"plain", "masked", "omitted"}
    /\ stage = "idle"
    /\ sent = NoDocument
    /\ breaks = 0 /\ turns = 0
    /\ raced = {} /\ drifted = {} /\ unsure = FALSE
    /\ disciplined = TRUE
    /\ lastVersion = IF wanted.version = None THEN 0 ELSE wanted.version

-----------------------------------------------------------------------------
MergeFault == breaks < MaxBreaks /\ breaks' = breaks + 1 /\ UNCHANGED turns

Turn == turns < MaxTurns /\ turns' = turns + 1 /\ UNCHANGED breaks

(* What a GET answers. *)
Reply ==
    CASE secret = None \/ echo = "omitted" -> record
      [] secret # None /\ echo = "masked"  -> SetPath(record, SecretPath, Masked)
      [] secret # None /\ echo = "plain"   -> SetPath(record, SecretPath, secret)

(* restorePreservedValues: a password the reply does not show stays. *)
Refreshed ==
    LET shown == IF Part(Reply, SecretPath) = NoDocument THEN None ELSE Reply[SecretPath]
    IN IF shown \in {None, Masked} /\ savedPassword # None THEN savedPassword ELSE shown

(* Broken: a password is read back whatever is in use. *)
keepNothingNull(password) == password

keepShadowedNull(password) ==
    IF savedVersion # None /\ savedPassword = None THEN None ELSE password

Refresh ==
    /\ stage = "idle"
    /\ savedAttrs' = [a \in Names |-> Part(Reply, Path[a])]
    /\ savedPassword' = keepShadowedNull(Refreshed)
    /\ drifted' = {}
    /\ unsure' = (unsure /\ (secret = None \/ echo # "plain"))
    /\ UNCHANGED <<spec, mergeBackend, wanted, savedVersion, stage, sent, breaks, turns,
                   owned, raced, disciplined, lastVersion>>

SecretDiffers == wanted.password # savedPassword \/ wanted.version # savedVersion

PlanDiffers == wanted.attrs # savedAttrs \/ SecretDiffers

NothingToSend ==
    /\ PlannedBody = Body(savedAttrs, savedPassword)
    /\ ~writeOnlyVersionChanged

SavePlan ==
    /\ savedAttrs' = wanted.attrs
    /\ savedPassword' = wanted.password
    /\ savedVersion' = wanted.version

(* No API-relevant change. *)
SkipUpdate ==
    /\ stage = "idle"
    /\ PlanDiffers
    /\ NothingToSend
    /\ SavePlan
    /\ UNCHANGED <<spec, mergeBackend, wanted, stage, sent, breaks, turns, mergeHistory>>

StartUpdate ==
    /\ stage = "idle"
    /\ PlanDiffers
    /\ ~NothingToSend
    /\ stage' = IF spec.merges THEN "read" ELSE "put"
    /\ sent' = RequestBody
    /\ UNCHANGED <<spec, mergeBackend, wanted, savedState, breaks, turns, mergeHistory>>

ReadCurrent ==
    /\ stage = "read"
    /\ stage' = "put"
    /\ sent' = mergeIntoCurrent(Reply, sent)
    /\ UNCHANGED <<spec, mergeBackend, wanted, savedState, breaks, turns, mergeHistory>>

GiveUp ==
    /\ MergeFault
    /\ stage' = "idle"
    /\ sent' = NoDocument
    /\ UNCHANGED <<spec, wanted, savedState, owned, raced, disciplined, lastVersion>>

ReadCurrentFails ==
    /\ stage = "read"
    /\ GiveUp
    /\ UNCHANGED <<mergeBackend, drifted, unsure>>

(* The backend stores the request, or merges it into what it has; one that *)
(* is told of no secret may drop the one it has.                           *)
Store ==
    LET rest == DeletePaths(sent, {SecretPath})
    IN /\ record' = IF spec.merges THEN rest ELSE DeepMergeInto(record, rest)
       /\ IF Part(sent, SecretPath) = NoDocument
          THEN \/ UNCHANGED secret
               \/ spec.merges /\ ~spec.command /\ secret' = None
          ELSE secret' = IF sent[SecretPath] = Masked THEN secret ELSE sent[SecretPath]
       /\ UNCHANGED echo

(* stateFromResponse keeps every planned value. *)
PutDone ==
    /\ stage = "put"
    /\ Store
    /\ SavePlan
    /\ stage' = "idle"
    /\ sent' = NoDocument
    /\ drifted' = {}
    /\ unsure' = FALSE
    /\ UNCHANGED <<spec, wanted, breaks, turns, owned, raced, disciplined, lastVersion>>

(* Not applied; or applied, and the reply or the wait after it failed.     *)
PutFailed ==
    /\ stage = "put"
    /\ GiveUp
    /\ \/ UNCHANGED <<mergeBackend, drifted, unsure>>
       \/ Store /\ drifted' = Names /\ unsure' = (unsure \/ secret' # secret)

-----------------------------------------------------------------------------
(* The backend and people. *)

OwnerWrites(p, v) ==
    /\ Turn
    /\ v # owned[p]
    /\ record' = [record EXCEPT ![p] = v]
    /\ owned' = [owned EXCEPT ![p] = v]
    /\ raced' = IF stage = "put" THEN raced \cup {p} ELSE raced
    /\ UNCHANGED <<spec, secret, echo, wanted, savedState, stage, sent,
                   drifted, unsure, disciplined, lastVersion>>

ConsoleEdits(a, v) ==
    /\ Turn
    /\ record' = DeepMergeInto(DeletePaths(record, {Path[a]}), v)
    /\ drifted' = drifted \cup {a}
    /\ UNCHANGED <<spec, secret, echo, wanted, savedState, stage, sent,
                   owned, raced, unsure, disciplined, lastVersion>>

(* A release of the backend shows secrets in another way. *)
EchoChanges ==
    /\ Turn
    /\ ~spec.command
    /\ echo' \in {"plain", "masked", "omitted"} \ {echo}
    /\ UNCHANGED <<spec, record, secret, wanted, savedState, stage, sent, mergeHistory>>

EditAttrs(attrs) ==
    /\ stage = "idle"
    /\ Turn
    /\ attrs # wanted.attrs
    /\ wanted' = [wanted EXCEPT !.attrs = attrs]
    /\ UNCHANGED <<spec, mergeBackend, savedState, stage, sent, mergeHistory>>

EditSecret(args) ==
    /\ stage = "idle"
    /\ Turn
    /\ wanted' = Configuration(wanted.attrs, args)
    /\ wanted' # wanted
    /\ disciplined' = (disciplined /\ (args.version # None => args.version > lastVersion))
    /\ lastVersion' = IF args.version # None /\ args.version > lastVersion
                      THEN args.version ELSE lastVersion
    /\ UNCHANGED <<spec, mergeBackend, savedState, stage, sent, owned, raced, drifted, unsure>>

-----------------------------------------------------------------------------
Applying == SkipUpdate \/ StartUpdate \/ ReadCurrent \/ ReadCurrentFails \/ PutDone \/ PutFailed

Others ==
    \/ \E p \in OwnedPaths, v \in OwnedValues : OwnerWrites(p, v)
    \/ \E a \in Names : \E v \in PlannedValues[a] : ConsoleEdits(a, v)
    \/ EchoChanges
    \/ \E attrs \in AttrValues : EditAttrs(attrs)
    \/ \E args \in SecretArguments : EditSecret(args)

MergeNext == Refresh \/ Applying \/ Others

MergeSpec == MergeInit /\ [][MergeNext]_mergeVars

(* The configuration is applied again and again, each time after a read.   *)
MergeFairness == WF_mergeVars(Refresh) /\ WF_mergeVars(Applying)

-----------------------------------------------------------------------------
UnderPath(doc, path) == \A q \in DOMAIN doc : q \in Seq(STRING) /\ IsPrefix(path, q)

MergeTypeOK ==
    /\ spec \in Specs
    /\ \A q \in DOMAIN record :
         /\ q \in Seq(STRING)
         /\ \E p \in AttrPaths \cup OwnedPaths : IsPrefix(p, q)
    /\ secret \in Secrets \cup {None}
    /\ echo \in {"plain", "masked", "omitted"}
    /\ spec.command => echo = "omitted"
    /\ wanted \in Configurations
    /\ DOMAIN savedAttrs = Names
    /\ \A a \in Names : UnderPath(savedAttrs[a], Path[a])
    /\ savedPassword \in Secrets \cup {None, Masked}
    /\ savedVersion \in Versions \cup {None}
    /\ stage \in {"idle", "read", "put"}
    /\ stage = "idle" => sent = NoDocument
    /\ owned \in [OwnedPaths -> OwnedValues]
    /\ raced \subseteq OwnedPaths
    /\ drifted \subseteq Names
    /\ lastVersion \in 0 .. MaxVersion

(* A backend that replaces its record keeps all that only it knows: its    *)
(* status, its ticket, its result.  Only what it writes between the read   *)
(* of an update and the PUT can be set back.                               *)
UnmodelledKept ==
    \A p \in OwnedPaths : p \in DOMAIN record /\ (record[p] = owned[p] \/ p \in raced)

(* What the state says of an attribute is what the record holds: a key of  *)
(* a map or an attribute cleared in the configuration is gone and does not *)
(* come back from the current record.                                      *)
SavedIsStored ==
    spec.merges =>
      \A a \in Names \ drifted :
        Part(record, Path[a]) = savedAttrs[a]

(* Deleting the secret at its path "made the backend see the secret as     *)
(* removed": no update of a resource that resends it lacks one while a     *)
(* secret is configured.                                                   *)
SecretNeverLooksRemoved ==
    stage = "put" /\ spec.resend /\ (wanted.secret # None \/ wanted.password # None) =>
      Part(sent, SecretPath) # NoDocument

(* When nothing is left to apply the backend holds the configured secret,  *)
(* although neither plan nor state knows it, however many updates were cut *)
(* off: a write-only one if every change of it came with a new version, a  *)
(* password unless the last change of it was cut off.                      *)
SecretInSync ==
    stage = "idle" /\ ~SecretDiffers =>
      /\ wanted.secret # None /\ disciplined => secret = wanted.secret
      /\ wanted.password # None /\ ~unsure => secret = wanted.password

(* "The alternative never reads the secret back into state": as long as    *)
(* the state has a version of the write-only secret it has no password.    *)
SecretStaysOutOfState == savedVersion # None => savedPassword = None

(* People and agents at rest, the record becomes what is configured and    *)
(* stays so, however many updates fail.                                    *)
AttributesSettle ==
    <>[](spec.merges => \A a \in Names : Part(record, Path[a]) = wanted.attrs[a])

(* "That is the only signal that sends the new value": a secret in use     *)
(* changes in the backend only if its version does.                        *)
SecretSentOnlyOnBump ==
    [][PutDone /\ wanted.secret # None /\ ~spec.always /\ ~writeOnlyVersionChanged
         => secret' = secret]_mergeVars
=============================================================================
