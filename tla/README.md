# A TLA+ model of the DuploAI Terraform provider

The provider is one generic engine that interprets JSON resource specs. This
project models what the engine does with those specs: the order of its HTTP
calls, what it keeps in Terraform state after each of them, and how it behaves
when the backend is slow, fails, loses a reply or is edited by somebody else.
`PROJECT.json` maps every definition to the lines it stands for. Paths below
are relative to the repository (`src/`).

## 1. Inventory

### Parts and how they interact

```
terraform core --RPC--> framework --> dynamicResource --> RESTResource --> HTTP --> backend
   (plan, state, taint)                 |  reads ResourceSpec    |  Waiter polls Get
                                        |  writes state           \ GetWithRetry, Deprovision, ...
```

| Part | Source | State it keeps | Operations |
|---|---|---|---|
| Engine | `duplocloud/dynamic_resource.go` | none of its own; Terraform's state entry, a private import mark | Create, Read, Update, Delete, ImportState, ModifyPlan, ValidateConfig, UpgradeState |
| Specs | `duplocloud/spec.go`, `duplocloud/specs/*.json` | immutable after load | load, defaults, validate |
| Types | `duplocloud/typesystem.go` | none | conversion between JSON, plan and state; plan modifiers |
| Write-only attributes | `duplocloud/write_only.go` | a version number in state | decide whether to send a secret |
| Other modifiers | `recompute_when_changed.go`, `order_by_key.go`, `validators.go` | none | plan modifiers, validators |
| Data sources, ephemeral resources | `dynamic_data_source.go`, `dynamic_ephemeral_resource.go` | none | one (retried) read |
| State upgrades | `dynamic_resource.go`, `spec.go` | none; the state entry and its schema version | one upgrade of a stored entry |
| REST SDK | `duplosdk/rest_resource.go`, `endpoint.go`, `client.go`, `types.go` | none | Create, Get, GetWithRetry, Update, Delete, Deprovision, CurrentStatus, waits |
| Polling loops | `duplosdk/waiter.go` | two counters, a deadline | Wait, WaitGone, WaitDeprovisioned |
| Backend (external) | - | every object, its status, its attributes | provisions, tears down, refuses calls out of order |

Terraform core runs one operation on a resource at a time, so the engine has no
data races of its own. What is concurrent is the world: the backend's workers,
the console, and the clock move between any two calls of an operation. Every
operation can fail after any call, and Terraform keeps what the engine saved
before it failed. That makes these behaviours hard:

- a create is several calls (POST, wait, read, follow-up PUT, wait): a failure
  after the first must record the object or it is orphaned and duplicated;
- a destroy is probe, deprovision, wait, DELETE, wait, and may be repeated from
  any point, against a backend that refuses a call at the wrong moment;
- a call may have been applied although the reply was lost;
- a polling loop has two error budgets, a deadline and a cancellation, which
  meet in one turn of the loop;
- an import leaves attributes null that a plan would otherwise replace for;
- one PUT replaces lists other people share (scope links) or the whole record
  (merge updates), and some APIs take only one change per call;
- a secret is in neither plan nor state, and the backend may not show it either:
  whether it is in step is decided by a version number;
- an id comes into state in four ways and is taken apart again by every call;
- a reply can be an error in the status, in its text, in its form, or break off
  in the middle, and each means something else;
- a stored state may have missed releases, whose upgrade steps were rewritten since.

### What makes each part correct

- *Polling loops*: success is reported only for a state that existed; budgets
  count consecutive failures; the deadline and cancellation are honoured on every path.
- *Engine*: an object the API acknowledged stays in Terraform's hands until it
  is gone; a live object is deleted only once torn down; a secret's version is
  not recorded before the backend has it; an import does not turn into a
  replacement; and once faults stop, repeated applies reach the configuration.
- *Update bodies*: what the user does not manage is not changed; every change is
  sent; what is cleared does not come back.
- *Secrets*: with nothing left to apply, the backend holds the configured one; it
  stays out of state.
- *Ids*: whatever way an id came into state, it leads back to the object that was
  meant; an entry is dropped only when the backend does not show the object, and
  no object that a create made is lost without a word.
- *Retried reads*: permanent errors are reported at once, passing ones waited
  out, and the window is kept.
- *State upgrades*: a state that missed releases ends up as one that saw them all.
- *State building, defaults*: what is written is read back.

The hazards that follow from this are listed, each at its line, in
`PROJECT.json` with the properties that cover them.

## 2. Modules

| Module | Models | Kind |
|---|---|---|
| `WaitRules` | the decisions of the three loops on one poll | operators |
| `Waiter` | one loop against resource, clock, caller | state machine |
| `WaiterDefaults` | `applyWaiterDefaults` | operators |
| `Ownership` | what the engine promises about objects | abstract specification |
| `ResourceLifecycle` | the engine, Terraform core, the backend and people | state machine, uses `WaitRules` |
| `ScopeLinks` | a list of links that three parties write | state machine |
| `SingleIntentUpdate` | updates of APIs that take one change per call | state machine |
| `AttributeRules` | how one attribute is planned, sent and read back | operators |
| `AttributeFlow` | one attribute through refresh, plan, apply | state machine, uses `AttributeRules` |
| `ApiCalls` | what a call makes of a reply, and its timeout | operators |
| `ReadRetry` | a read that is tried again | state machine, uses `ApiCalls` |
| `ResourceIds` | composing, splitting and importing ids | operators |
| `ObjectAccess` | which object an entry stands for | state machine, uses `ResourceIds`, `ApiCalls` |
| `Documents` | JSON documents as functions from paths to leaves | operators |
| `MergeUpdate` | one PUT over the current record, with a secret | state machine, uses `Documents` |
| `StateUpgrade` | stored states and releases | state machine |
| `MC*` | instances for TLC; `MCPolling`, `MCRecords`, `MCUpdates` hold two or three machines | |
| `PollingProofs`, `LifecycleProofs`, `ScopeLinksProofs`, `SingleIntentProofs`, `ObjectAccessProofs`, `MergeUpdateProofs`, `AttributeFlowProofs`, `StateUpgradeProofs` | theorems | TLAPS |

An instance that holds several machines runs one of them in each behaviour, while the
others rest: they share no state in the code either. Each machine's properties
hold trivially of its rest, so that one run checks them all.

### WaitRules and Waiter

`WaitRules` states, as predicates of the loop's kind, the error of the fetch
and the object read, when a poll is success (`Reached`), what it does to the
two counters (`FailCount`, `FetchFailCount`) and when it is terminal
(`FetchAbort`, `FailureAbort`). `Waiter` runs a loop: `Fetch` is the call,
exactly one of `Succeed`, `GiveUpFetching`, `FailTerminally`, `TimeOut`,
`KeepPolling` handles the reply in the order of the code, and `Wake` or
`Interrupted` is the `select` at the bottom. `kind` chooses the loop; the three
differ only where `WaitRules` says so (an absent object is success for the two
teardown loops, a fetch error is fatal at once for them, only `Wait` looks at
the readiness gate). `Change` moves the resource at any time, `Cancel` is the
caller.
Cancellation is seen when the `select` is entered (`StopPolling`) or while it
waits; when the timer fires as well Go picks either, and so does the model.

### ResourceLifecycle

One resource block, one or more backend objects. `spec` is the record of flags
that choose a path; the runs take the combinations the shipped specs have.
`pc` names the HTTP call the operation makes next, and an action is one call
with everything the engine does on its reply, so an interleaving can come
between any two calls and nowhere else.

- Create: `CreateAcked`/`CreateReplyLost`/`CreateRefused` (POST), the wait,
  `CreateRead*`, the follow-up `CreateMerge*`, `CreateUpdate*`, and
  `CreateSave`. `Record` is `stateFromResponse` plus `saveKnownState`.
- Read: `ReadOk`, `ReadGone` (404 drops the entry), `ReadFails`.
- Update: `UpdateSkipped` (no call), `UpdateRefreshes`, `UpdateSends`,
  `UpdatePut*`, the wait, `UpdateRead*`, `UpdateSave`.
- Delete: `Probe*` (`deprovisionNeeded`), `Deprovision*`, the wait, `Delete*`, the wait.
- The waits: `WaitContinues`, `WaitSucceeds`, `WaitFails`, deciding by `WaitRules`.
- Terraform core (`Apply`, `Plan*`), the backend (`Progress`, `Break`,
  `Recover`), people (`EditConfig`, `Console*`, `Import`) and `Crash` are the
  environment.

Abstractions, and what they assume of the environment:

- Attributes are one value and one secret version per object (0: no secret
  configured; `sendOnEveryUpdate` secrets go with every PUT and are not told apart). Readiness gates
  are met as soon as the status is (they are modelled in `Waiter`).
- An object is readable from its creation, and the status changes with the
  reply of a PUT, DELETE or deprovision. The code depends on both; neither is its doing.
- A failed call, a failed provisioning, a crash, and a deadline that passes
  while the backend still works each cost one of `MaxFaults`; a change by a person
  costs one of `MaxEdits`. A deadline passes freely when the backend has nothing to do.
- Cancelling an operation ends its wait as the deadline does.
- Ids of gone objects can be used again. Write-only versions only grow.
- A 404 on a create's first read (`GetWithRetry`) is one read that finds the
  object or fails.
- A create whose reply is lost leaves an object nobody acknowledged, and a
  crash between the reply and the save is excused by `crashes`.

`Ownership` is the abstract specification of the same thing: a set of live
objects and one owner, which is let go only when the object is gone. The
refinement maps the owner to the object the running operation holds, else the
one in state.

### ScopeLinks

`linked` is the workspace's `scopeIds` in the backend. An apply of the
workspace is `ReadOk`, which splits the list into `managed` (`scope_ids` in
state) and `system` (`system_scope_ids`), and then either `PlanNothing` or
`UpdatePut*`, which replaces the list by `preserveUnion`. `BodyUnchanged`
decides: where the bodies built from plan and state are equal, `ModifyPlan` sets
every computed attribute, `scope_ids` too, back to the state, so that there
is nothing to apply and the split in state stays, even if the configuration
lists the same links otherwise. What such a plan must not hide is `PinHidesNothing`.
The bodies are compared as lists (`SameList`), the links of `scope_ids` first and either
half in Terraform's order of set members (`InFront`), so of two splits of one list
with two or more links some make different bodies and are sent. Each association
(`admin_workspace_scope_mapping`) is read through the parent's list
(`MapReadMissing`), created and deleted by a call on its own link. The backend
and the console attach and detach links and may delete the workspace, between
any two of these. A link made between an apply's read and its PUT is cleared by the
PUT: `UpdateActsOnWhatItSaw` states exactly this limit (`Scopes \ seen`), and
`LinksSettle` that a configured one is made again. A configuration without `scope_ids` is `want = {}` (the
spec requires one item when it is there). `renamed` is any other change of the
workspace's body. An empty union is left out of the body, and the backend may keep
its list or clear it (`Replace`).

### SingleIntentUpdate

An apply is `ReadOk`, then `UpdateStarts`, which collects the changed
attributes in `changes`, and for each of them, smallest number first, a wait
(`pc = "before"`), the call (`"put"`) and a wait (`"after"`), then the last
read (`"get"`). The waits have no retry budget, as the code's waiter has none.
Any failure abandons the operation and keeps the prior state. The backend
accepts an update only when it is ready, and works on it in the background. An
accepted update may stay `queued` with the object still shown as ready, and be
replaced by the next; `late` records that this has happened, since the code has
no defence against it and the two properties on the order of calls hold only
without it. `InBody` are the attributes with an update path
besides their intent (`native_host`): they are in the body of every call, and the
backend may or may not act on them. An attribute that is left out of the
configuration keeps its prior value and is not told apart from one set to it.

### AttributeRules and AttributeFlow

`AttributeRules` has the engine's decisions about one attribute `x`, as
operators of its kind: its mode, default, flags, and how its resource is
updated (`put`, `merge` into the record just read, or `none`). `b` and `d` stand for
the other configured attributes, `out` for the outputs, `meta` for the timeouts
block; `b` is also the input that `x` may depend on. In the order of the code:
Terraform's proposal and the plan modifiers (`Modified`), replacement, `ModifyPlan`,
`warnIgnoredChanges`; the update body with `sendStoredCasing`,
`dropUnchangedUpdateFields` and `mergeIntoCurrent`; and `buildStateRaw` with each of
the functions that decide between the prior value and the API's. A nested
attribute goes through the same functions one level down.

`AttributeFlow` runs them: `Plan*` is a refresh and a plan, `Create`, `Update*`,
`MergeRead` and `Finish` are an apply, one HTTP call each, and between any two of them the
console may change the object and the server its outputs. `api` is one habit of
the server: it shows empty values in either form, masks or redacts secrets,
changes letter case, assigns outputs late, leaves them out of the reply to
a write, derives `x` from `b`, or takes deltas. `MCAttributeFlow` pairs kinds with
habits as the shipped specs do, each with an attribute that has it. Two
kinds are left out: a readable attribute that can be set only at creation, and a
value that changes in a resource without an update call and does not force a new one. The documentation of
both says that the difference stays until the resource is replaced.

Terraform core's own checks are modelled: a plan that is not the configuration,
or a result that is not the plan, is refused (`rejected`). `PlanRejected` is never
enabled for the kinds of `attribute_flow`; it is for the kind of finding 5.

`ValidKind` is what the loading of the specs checks of an attribute's flags. That is not
enough for the properties: a spec must also say of an attribute what its API does with it.
`Declared` states that, flag by flag (a secret that the API masks has
`preserveOnEmptyResponse`, one whose letter case it changes `caseInsensitive`, what no reply
shows is known without one, what cannot be updated is replaced, ...). Nothing in the code
checks it. `MCAttributeFlow` asserts it of the instance's kinds (`ShippedDeclared`), which are the shipped ones but the two
above; the kind of finding 5
is valid and not declared. `FormsApart` and `OneForm` say the like of `equivalentResponseValues`. The
shipped `ssm_parameter.tier` has two resolved forms, so `OneForm` does not cover it; the kind modelled on it has one
and a default.

### ApiCalls and ReadRetry

`ApiCalls` has, for every form a reply can have (a status with or without a body that is an
object, a list, without data, not JSON, or cut off in the middle, or no response at all), the
error that each kind of call makes of it: `callAPI` is `doRequestWithTimeout` and
the envelope, `decode` wants an object, `CreateList` and `GetCollection` a list,
`asNotFound` applies the endpoint's `notFoundResponses`, `Delete` takes "gone"
for done. An error is the status it carries, 0 when it has none.

`ReadRetry` is `GetWithRetry`, the read of data sources, ephemeral
resources and of the record that `mergeIntoCurrent` starts from. `Ask` is a call of any
allowed duration, with what its reply decides; `Pause` and `BreakOff` are the two arms
of the `select`. An object that exists may not be shown yet (`Show`), the caller may
cancel (`Interrupt`). `refused` and `lateCalls` are history for the properties.

### ResourceIds and ObjectAccess

Ids are sequences of segments, identities sequences of texts, which may hold a
"/" themselves. `ObjectAccess` runs one block: `Create*` (an object, an
association without a body, a list of one or several), `Read*` (a single object, an element of a
collection, a link in its parent's list), `Delete*` and both imports, each with every
reply of `ApiCalls` that the backend may give in its state. `shown` are
the objects that reads return: a backend may lag behind its own creates. The
initial states include entries of an older release, which may
carry segments that imports used to keep, and no identity. `meant` remembers the object that a create made or an
import named, `mine` those that creates of the block made, `told` those that an error or
a warning was about.

What is assumed of the backend: it says "gone", by status, text or omission, only of what it does
not show. A collection reply without data counts as empty
(`GetCollection`), so this includes such a reply. A create whose
reply holds an object without an id is recorded under an id with an empty part, as the code does;
the instance's objects all have one.

### Documents and MergeUpdate

A document maps the path of each leaf to the leaf; the operators are those of
`dynamic_resource.go` (`extractPath`, `setPath`, `deletePath`, `deepMergeInto`),
which there recurse over maps. `{}` is a leaf of its own; an object that lost its last
key is not told from an absent one.

`MergeUpdate` runs a resource with attributes (one map, in the instance), fields that only the
backend knows, and a secret at one path that can be given as a password, which state keeps,
or as a write-only value with a version. `Refresh`, then `SkipUpdate` or
`StartUpdate` (the body and whether the secret is in it), `ReadCurrent`
(`mergeIntoCurrent` on the reply), `PutDone` or `PutFailed`. The backend's agents
(`OwnerWrites`), the console and the user act in between, and a release of the backend
may show secrets plainly, masked or not at all (`EchoChanges`). A PUT that fails may have been applied. The
instance has the three shipped combinations: a merged update with a resent
secret (RDS, ElastiCache), a merged update whose secret is a command (`aws_secret`, whose
`spec.updateRequest` path goes against the comment at `spec.go:167-168`), and a plain update
that always sends it (Key Vault).

What the properties leave aside is what the code has no defence against, and each is a named
piece of history: `raced` (an agent's write between the read and the PUT is set back), `drifted` (an
attribute edited elsewhere or touched by a call that was cut off), `unsure` (a password that a cut-off update changed
while reads do not show it), `disciplined` (a version that was used before says nothing).
Taking a write-only secret out of the configuration sends nothing: the backend keeps it.

### StateUpgrade

A history is what each release of a resource ships: the kinds of its attributes and its upgrade steps.
`stored` is upgraded when somebody opens it (`OpenState`), after any number of
`InstallRelease`s; `twin` at each. `validateStateUpgrades` admits only names of the present schema, so
earlier steps are rewritten at each release, and a jump over releases runs other steps than the single ones did.
It does not look at the order of the steps or at chained renames: `WellWritten` is an assumption on the authors.
A value has a kind (text, number, flag) and what it says; conversions change the kind, or fail (`Unreadable`), in
which case the state stays as it is.

More that the loading does not check either is not assumed but stated, as hypotheses of the
theorems. `KindsLead`: the steps of a release turn the schema of every older one into its own; it speaks of
schemas only. `RoutesCompose`: by the names and kinds in the steps, each attribute of an older schema
takes the same route (to which name, as which kind, read as a number on the way or not) through a release
as through that release after the one before it, and no two attributes meet under one name. `ReleasesCompose`, which follows
from it: the upgrades of every state compose so. `NewNamesDiffer`: no two attributes of the first release
get the same new name from one release.
`MCRecords` has TLC evaluate all of them for its histories: all hold, but for `RoutesCompose` of
`LosesAlias`, the history in which two names become one; its releases compose all the same.
No shipped spec has a schema version yet.


## 3. Runs

| Run | Result | What it shows |
|---|---|---|
| `polling` | pass, 163 thousand states | the three loops and the retried read: what they report was so, budgets, deadlines and cancellations are kept, and they end |
| `retry_truncated` | violation | a connection that breaks inside a body is not retried |
| `waiter_defaults` | violation | an unset `fetchRetries` is 0, not the promised 5 |
| `lifecycle` | pass, 1.17 million | recording of acknowledged objects and the refinement of `Ownership`, secrets, teardown before delete, import, over every shipped flag combination and two the format allows |
| `live` | pass, 1.20 million | convergence under fairness |
| `records` | pass, 440 thousand | which object an entry stands for, what an update of the shared list of links may take away and add, and what an upgrade keeps |
| `scope_links_adopt` | violation | adopting a backend's link gives an inconsistent result |
| `updates` | pass, 956 thousand | one change per call without overlap, and one PUT over the current record that keeps what others own, with the secret in step; all changes done in the end |
| `single_intent_body` | violation | one call carries several changes |
| `write_only_resend` | violation | an unrelated update sends a secret whose version did not change |
| `attribute_flow` | pass, 550 thousand | 32 kinds of attributes: empty plans mean done and follow every apply, nothing is refused, replaced or undone without a cause |
| `force_new_pinned` | violation | a change that should replace the resource is planned as none |

Type invariants are theorems where a module has proofs, and are checked by a run only in `attribute_flow`; that
of `StateUpgrade` is `StoredFitsSchema`. `StopsInTime`, `AnswerIsEarned` and
`NamesLeadToTheObject` are conjunctions of the named parts defined beside them.

### Bounds

- `polling`, the loops: budgets of one, pauses 1 and 2, timeout 3, call time 1. Each budget
  is met, exceeded and reset within a wait, a healthy read can come between
  two failing ones, and the timeout leaves time for either counter to run out
  before or after it.
- `polling`, the read: the code's pauses of 1 to 8 seconds in a window of 60, calls of 0, 5
  and 60 seconds (an instant one, one in between, and one that meets its deadline), and a status of every class that
  the code distinguishes, one of them with a rule.
- `lifecycle`: two faults and two edits. Two faults are a failed
  call followed by a failed retry, or a lost reply and a failed wait; two edits
  are an import and a change, or a console teardown and a destroy. Three ids suffice for
  an owned object, a leaked one and one from the console; two values tell
  wanted from actual. Ids and values are symmetric.
- `live`: one fault and two edits, without symmetry, over one spec of each path.
  With two faults four ids are needed (each may leak an object); it passed in a
  one-off run and is too long to keep.
- `records`: three scopes (one managed, one the backend's, one of an association),
  three edits and one fault, which admit two changes of others inside one apply and a lost
  reply, and lists of two and three links whose order tells two splits apart; no symmetry, because scopes are ordered. Ids of one or two parts out of two
  segments, texts with one more, and two objects at once: a path parameter, an id, a segment
  too many, and an object that is taken for another. Five histories of up to three releases: a
  rename after a conversion, two names that become one, two renames in one step with a number and a flag that become
  texts, a name that changes twice beside a drop.
- `scope_links_adopt`: an imported workspace with at most one link, so that a PUT needs a further scope or a rename.
- `updates`: three intents, so that a change is sent, one is left and one is not to be
  touched; two faults and two edits, which are a lost reply and a failed retry, or a change of
  the configuration and one in the console. One map of two keys that can be null, empty or
  lose a key, one field of the backend's own, two secrets and two versions, one fault and two turns of others.
- `attribute_flow`: one edit and one fault, from any configuration and after any
  import, so that drift, a changed configuration and a failed update each
  meet; three values, two of them the same but for letter case; two inputs. Without
  `BecomesQuiet` it also passed with two edits (3.6 million states), which is too
  long to keep.

### Fairness

- `Waiter`: `WF(Loop)`. The loop is a goroutine that runs; nothing is
  assumed of the resource or the caller.
- `ResourceLifecycle`: `WF(Engine)`, a started operation proceeds;
  `WF(WaitFails)`, a wait whose target never comes reaches its deadline;
  `WF(Terraform)`, the user applies again while state and configuration differ;
  `WF(Progress(i))`, the backend ends what it began. Nothing is assumed of
  faults, crashes or people except that they are bounded.
- `ScopeLinks`: `WF(Workspace)` and `WF(Mapping(s))`, each resource is applied
  again and again and an apply that has read goes on to its write.
- `ReadRetry`: `WF(RetryLoop)`, as for `Waiter`.
- `MergeUpdate`: `WF(Refresh)` and `WF(Applying)`, the configuration is applied again and
  again and a started update goes on.
- `SingleIntentUpdate`: `WF(Engine)` likewise; `WF(Begin)`, `WF(Complete)` and
  `WF(Recover)`, the backend gets on with what it accepted.
- `AttributeFlow`: `WF(Plan)` and `WF(Apply)`, Terraform is run again and a started
  apply goes on; `WF(Assign)`, the server assigns what it owes.

## 4. Findings

1. `applyWaiterDefaults` does not fill `FetchRetries`
   (`duplocloud/spec.go:1153`), although the field's comment says it defaults
   to `defaultFetchRetries` (`spec.go:1107`). No shipped spec sets the field,
   so every readiness wait aborts on its first failed poll. Run
   `waiter_defaults`.
2. A read that breaks off inside the body of a 200 fails with status 200
   (`duplosdk/client.go:301-304`), which `isRetryableRead` does not take for a
   failure of the transport, against the comments at `duplosdk/rest_resource.go:191-197`
   and `218-220`. Run `retry_truncated`.
3. Listing a scope in `scope_ids` that state holds in `system_scope_ids`, in an
   update that sends a PUT, returns a `system_scope_ids` other than the planned
   one (`duplocloud/dynamic_resource.go:2064` against the plan modifier of
   `typesystem.go:253-256`), and Terraform fails the apply. It happens after
   importing a workspace and listing its scopes with one more, or with a rename; without
   either the body stays as it was and nothing is sent. Run `scope_links_adopt`.
4. Intent attributes with an `apiPath` (both of `native_host`) are in the body
   of every single-intent call, against the comment at
   `duplocloud/dynamic_resource.go:1003-1004`. Run `single_intent_body`.
5. A changed `forceNew` attribute that is optional and computed and has no
   update path is set back to its prior value by `ModifyPlan`
   (`duplocloud/dynamic_resource.go:384`), which compares update bodies only: no
   replacement is planned and no warning is given, against
   `docs/resources/native_host.md:75`. After an import the same step leaves a
   configured value null and Terraform refuses the plan, against
   `duplocloud/spec.go:512-516`. Run `force_new_pinned`.
6. When the record omits or masks a write-only secret, every merged update sends the
   one in the configuration (`duplocloud/write_only.go:99`), also when it was
   changed without a new version, against `duplocloud/specs/rds_instance.json:171`
   ("the only signal that sends the new value") and `spec.go:706-708`. Run `write_only_resend`.

Latent, and left aside by `AcknowledgedIsRecorded` as `FollowUpMerges`: when the
follow-up of a create merges into the current object and the read of that merge
fails, the error is already in the diagnostics when `saveKnownState` is called,
and it saves only while there is none (`duplocloud/dynamic_resource.go:465-470,
505`), so the object is lost, against the comment at 456-459. No shipped spec has both flags.

## 5. Proofs

TLC checks the instances above; the theorems hold for every set of statuses,
ids, values, every admissible spec and every bound.

- `PollingProofs`, `Waiter`: `IInv` conjoins the type invariant with what relates the
  counters to the history: `failCount` never exceeds the failing reads since
  the last good one, `fetchFailCount` those since the last read, the object at
  hand was the resource's at some moment of the wait, and `elapsed` is bounded
  by what the current point of the turn allows. None of the five safety
  properties is inductive alone, since each speaks of the outcome and the
  outcome is decided by counters.
- `LifecycleProofs`: type correctness first, then one invariant per property.
  `PointInv` ties `opId` to `tracked` at each program point. `AckInv` adds that
  an operation which can still fail holds every acknowledged object;
  `TeardownInv` that between the teardown wait and the DELETE the status cannot
  leave the torn-down state; `MarkInv` that an object with
  unrecorded attributes carries the import mark; `SecretInv` that after a PUT
  the backend's version is the wanted one at every later point that saves.
  `AcknowledgedIsRecorded` and `Ownership` leave the latent case of section 4 aside (`FollowUpMerges`).
  `EngineKeepsOwnership` is the refinement: under `PointInv` and `AckInv` each action maps to one
  step of `Ownership` or to none. A POST that is acknowledged acquires, an import adopts, a console
  creation or a lost reply appears, what vanishes disappears, a drop of the entry
  releases, and the synchronous DELETE is `RemoveOwned`; that the entry is dropped only when its object is gone
  comes from the reply (404) or the poll of that very step.
- `ScopeLinksProofs`: `PlanInv` says that between the read and the write the
  two halves of the list are apart and make up what was read. With it,
  `UpdateActsOnWhatItSaw` follows from set algebra on `preserveUnion` and `Planned`, and
  `PinHidesNothing` from equal lists having equal members: a link the configuration asks for is
  then in one of the two halves, and one it gave up would be missing from the plan's.
- `SingleIntentProofs`: `OwnInv` (the engine's update is under way only while the
  object shows it, and otherwise only others' changes keep it from its target),
  `IdleInv` (nothing is under way at a call or at the last read) and `DoneInv`
  (what is not left to be sent is at its planned value, others' changes
  aside), each as long as `late` does not hold: the properties carry that
  exception in their statements and are false without it.
- `PollingProofs`, `ReadRetry`: `WindowInv` bounds the clock at each point (a pause that
  starts ends within the window) and the pause; `ReplyInv` ties the result to the
  last reply and to what ended the loop; `InterruptInv` counts the calls after a cancellation.
- `ObjectAccessProofs`: `ObjectInv` is the type invariant with `TracksWhatWasMeant`,
  `IdentityNamesTheObject`, `NothingSilentlyLost` and that ids are sequences of segments; the other properties
  follow from it by the lemmas on composing, splitting and joining ids.
  `OnlyGoneIsDropped` is an action property: it needs the rules of `ApiCalls` case by case.
- `MergeUpdateProofs`: lemmas on documents first (what deleting, setting and overlaying
  at incomparable paths changes), then `MergeInv`. `SentOK` says what a request under way holds at
  each path: the plan's leaves, the backend's own as the read found them, and the secret if
  one is to stay; `SavedOK` that versions in state and configuration are never newer than the last
  one; `SecretKnown` that a version or a password in state is that of the stored secret. None of the six properties is
  inductive without them, since each speaks of what a PUT will store.

- `AttributeFlowProofs`: the inductive invariant `Whole` is what is known of an attribute at every
  point of an apply. `Base`: the types, and that the plan is the one `Intended` by configuration,
  default and prior value. `Outputs`: an output's value is what the server gives for the present input, and
  the one in state was its when the plan was made. `Filling`: nobody but a "blank" API makes an
  empty value of an absent one. `Seen`: while nobody else acts, an apply's state and record look like the
  object. `Remembered`: an attribute that is never read is at what was last asked for, or null under the import mark.
  `Unhidden`: where no reply shows the value, the object still has the state's, unless `hidden`.
  `Landed`: what was sent has arrived. `Settled` adds what holds after an apply that succeeded (`Done`), of which
  the next plan is then computed. Each property needs several of these: an empty plan is about the form that a
  refresh gives the value (`Base`), a replacement about what the refresh saw or an earlier apply asked for
  (`Seen`, `Remembered`), an update's result about the way from the plan to the object (`Landed`, `Unhidden`).
  The theorems hold for every set of values and inputs, every kind that the
  loading accepts, and every habit, under `AllDeclared`; `AppliesSettle` also under `OneForm`.
  `AllDeclared` was found by searching with TLC for valid kinds that break a property.
  `OneForm` is there because the model's API chooses anew, at each read, which of the resolved forms it
  shows, and the one in state is then not the one in the next reply; a real API changes it only when the value is written.

- `StateUpgradeProofs`: first what one upgrade computes, by induction over the visits to a step's renames and over the
  list of steps. `RenamedIs`: renames that do not chain or meet give `Merged`, in which no order occurs, so that
  `StepsAnyOrder`. `StepFits`: kinds before a step (`FitsKinds`) and `StepKinds` give those after it. `StepKeeps`: a value
  is under its first name until that is renamed and then under the new one for good (`Kept`), where nothing was in its
  way, since what is there came from the first state (`Traced`). Then the invariant `Upgrading` of the two states:
  `InHistory` (what is stored fits its schema); `Lockstep`, since `stored = twin` says nothing while releases are
  being missed: the steps of the installed release, applied to `stored`, give `twin`; and `FromOriginal`: both are what the steps of
  their versions, alone, make of the first state, so that `SurvivesUpgrade` is about one list of steps.
  `JumpsLikeSteps` needs no hypothesis on what upgrades compute (`RoutesLead`): a result `Follows` a map of routes when it
  has each value of the first state under the name its route leads to, as text, number or flag, with blanks read
  as null, or is `Unreadable` because some value does not read. `StepFollows` shows that a step takes values along
  `RouteAfter`, `StepsFollow` that a list of steps does, and two results that follow the same map are equal.
  Where names meet, as in `LosesAlias`, a route does not tell which value stays: there the property is model-checked only.
  The library's induction rules take an operator and cannot be used; `Induction`, `UpTo` and `Recursion` are their forms
  for sets and functions, proved from `NatLessThanWellFounded` and `WFMin`.

The assumptions are the named `ASSUME`s of the modules: statuses of failure are
not those of success; ids do not contain `NoId`; a spec with a deprovision call
has a waiter (true of all 40 that have one); budgets are naturals; segments
are not blank; the paths of attributes, of the backend's fields and of the secret are not prefixes of
each other; a spec that merges resends its secret unless it is a command; the releases of a resource are as
`validateStateUpgrades` admits them and `WellWritten`.
Model-checked only: `PollingEnds`, `Settles`, `BecomesQuiet`, `LinksSettle`, `AllIntentsDone` and `AttributesSettle`
(liveness is out of the prover's reach).

## 6. Plan

Done: the loops, the defaults, the lifecycle and its abstract specification, the
shared list of links, single-intent updates, the life of an attribute value,
ids and objects, retried reads, merged updates with secrets, state upgrades;
theorems about all of them. Left, in this order:

1. Collections and nested objects of `buildStateRaw`: normalisations, response
   filters, `order_by_key`, sets; `deletePathPruning` over `Documents`.
2. `SpecChecks`: the load-time validation and the config validators as
   predicates; accepted specs satisfy the assumptions of the other modules.

Not modelled: headers, credentials, TLS and environment variables of the provider
and the HTTP client (configuration and transport; the timeouts and every outcome of a call are in `ApiCalls`),
logging and redaction of log lines (no state, read by nobody), schema construction, the projection of data sources and
ephemeral resources (that of state building), the JSON specs themselves (data;
their flag combinations are the instances), the documentation generators and examples.
An `http_timeout` beyond what a Go duration holds is not modelled.
