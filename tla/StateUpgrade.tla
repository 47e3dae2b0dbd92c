------------------------------ MODULE StateUpgrade ------------------------------
(***************************************************************************)
(* UpgradeState: a state written by an older release of the provider is    *)
(* brought to the schema of the present one by the steps its spec lists.   *)
(* A release rewrites the list as it likes, but may only name attributes   *)
(* its own schema has (validateStateUpgrades); so the steps that bring a   *)
(* state over several releases at once are not those that would have       *)
(* brought it over one after the other.                                    *)
(*                                                                         *)
(* One state is upgraded whenever somebody opens it, after any number of   *)
(* releases; its twin started with the same values and is upgraded at      *)
(* every release.                                                          *)
(***************************************************************************)
EXTENDS Integers, SequencesExt

CONSTANTS
    StateNames,  \* names attributes have had
    Contents,    \* what a value says
    Numerals,    \* the contents that are a number
    Blanks,      \* the contents that are blank
    Histories    \* of a resource: what each of its releases ships

Nil == [kind |-> "null", of |-> "null"]
Unreadable == [error |-> [kind |-> "error", of |-> "error"]]

StateKinds == {"text", "number", "bool"}
StateValues == [kind : StateKinds, of : Contents] \cup {Nil}

(* A release: the kind of each of its attributes, and its upgrade steps.   *)
SchemaNames(release) == DOMAIN release.schema

(* validateStateUpgrades, for the release with schema version v.           *)
ValidSteps(release, v) ==
    /\ \A i \in DOMAIN release.steps :
         LET step == release.steps[i]
         IN /\ step.from \in 0 .. v - 1
            /\ \A j \in DOMAIN release.steps : release.steps[j].from = step.from => i = j
            /\ \A o \in DOMAIN step.renames : step.renames[o] \in SchemaNames(release)
            /\ step.toNumber \cup step.toString \subseteq SchemaNames(release)
            /\ step.drop \cap SchemaNames(release) = {}

(* What validateStateUpgrades leaves to the authors: the steps are listed  *)
(* by version, no step renames what another has renamed already, and no    *)
(* two renames of a step meet.                                             *)
WellWritten(release) ==
    \A i, j \in DOMAIN release.steps :
      /\ i < j => release.steps[i].from < release.steps[j].from
      /\ \A o \in DOMAIN release.steps[i].renames, p \in DOMAIN release.steps[j].renames :
           /\ release.steps[i].renames[o] \notin DOMAIN release.steps[j].renames
           /\ i = j /\ release.steps[i].renames[o] = release.steps[j].renames[p] => o = p

StepRecords ==
    [from : Nat, renames : UNION {[D -> StateNames] : D \in SUBSET StateNames},
     toNumber : SUBSET StateNames, toString : SUBSET StateNames, drop : SUBSET StateNames]

Releases ==
    [schema : UNION {[D -> StateKinds] : D \in SUBSET StateNames}, steps : Seq(StepRecords)]

ASSUME StateNamesAssumption == IsFiniteSet(StateNames)

ASSUME HistoryAssumption ==
    \A h \in Histories :
      /\ h \in Seq(Releases) /\ h # <<>>
      /\ \A i \in DOMAIN h : ValidSteps(h[i], i - 1) /\ WellWritten(h[i])

VARIABLES
    releases,   \* the releases of the resource's spec
    installed, \* the schema version of the provider in use
    stored,    \* the attributes in the stored state
    storedAt,  \* the version it was written at
    twin,      \* the state that saw every release
    original   \* both, when they were created

upgradeVars == <<releases, installed, stored, storedAt, twin, original>>

(* States that are read "strictly against the current schema".             *)
Fits(v, kind) ==
    /\ v.kind \in {kind, "null"}
    /\ v.kind = "number" => v.of \in Numerals

StatesOf(schema) ==
    {m \in UNION {[D -> StateValues] : D \in SUBSET DOMAIN schema} :
       \A n \in DOMAIN m : Fits(m[n], schema[n])}

ReleaseOf(v) == releases[v + 1]
Schema(v) == ReleaseOf(v).schema

UpgradeInit ==
    /\ releases \in Histories
    /\ installed = 0
    /\ stored \in StatesOf(Schema(0)) /\ DOMAIN stored = DOMAIN Schema(0)
    /\ storedAt = 0
    /\ twin = stored
    /\ original = stored

-----------------------------------------------------------------------------
(* StateUpgradeStep.apply *)

(* Broken: the old value goes over the one that is there. *)
RenameOver(m, old, new) ==
    IF old \notin DOMAIN m THEN m
    ELSE [n \in (DOMAIN m \cup {new}) \ {old} |-> IF n = new THEN m[old] ELSE m[n]]

Rename(m, old, new) ==
    IF old \notin DOMAIN m THEN m
    ELSE [n \in (DOMAIN m \cup {new}) \ {old} |->
            IF n = new /\ (new \notin DOMAIN m \/ m[new] = Nil) THEN m[old] ELSE m[n]]

(* Go visits a map in any order. *)
Renamed(m, renames, order) ==
    LET after[i \in 0 .. Len(order)] ==
          IF i = 0 THEN m
          ELSE IF order[i] \in DOMAIN renames
               THEN Rename(after[i - 1], order[i], renames[order[i]])
               ELSE after[i - 1]
    IN after[Len(order)]

Convertible(v) ==
    CASE v.kind = "text" -> v.of \in Numerals \cup Blanks
      [] v.kind = "bool" -> FALSE
      [] OTHER -> TRUE

AsNumber(v) ==
    CASE v.kind = "text" /\ v.of \in Blanks -> Nil
      [] v.kind = "text" /\ v.of \notin Blanks -> [v EXCEPT !.kind = "number"]
      [] OTHER -> v

AsText(v) == IF v = Nil THEN v ELSE [v EXCEPT !.kind = "text"]

Converted(v, n, step) ==
    LET read == IF n \in step.toNumber THEN AsNumber(v) ELSE v
    IN IF n \in step.toString THEN AsText(read) ELSE read

(* Renames, ToNumber, ToString, Drop, in this order. *)
ApplyStep(m, step, order) ==
    LET renamed == Renamed(m, step.renames, order)
    IN IF m = Unreadable \/ \E n \in step.toNumber \cap DOMAIN renamed : ~Convertible(renamed[n])
       THEN Unreadable
       ELSE [n \in DOMAIN renamed \ step.drop |-> Converted(renamed[n], n, step)]

Applies(step, from) == step.from >= from

(* The upgrader for states of version from, of a release with these steps. *)
StepsApplied(m, from, steps, order) ==
    LET after[i \in 0 .. Len(steps)] ==
          IF i = 0 THEN m
          ELSE IF Applies(steps[i], from) THEN ApplyStep(after[i - 1], steps[i], order)
               ELSE after[i - 1]
    IN after[Len(steps)]

Upgraded(m, from, v, order) == StepsApplied(m, from, ReleaseOf(v).steps, order)

Orders == SetToSeqs(StateNames)

-----------------------------------------------------------------------------
InstallRelease ==
    /\ installed < Len(releases) - 1
    /\ installed' = installed + 1
    /\ \E order \in Orders : twin' = Upgraded(twin, installed, installed + 1, order)
    /\ UNCHANGED <<releases, stored, storedAt, original>>

(* Broken: the upgrader of every version takes itself for the last one's.  *)
OpenStateLastVersion ==
    /\ storedAt < installed
    /\ \E order \in Orders : stored' = Upgraded(stored, installed, installed, order)
    /\ stored' # Unreadable
    /\ storedAt' = installed
    /\ UNCHANGED <<releases, installed, twin, original>>

(* Broken: the step of the state's own version is skipped. *)
OpenStateSkipsOwn ==
    /\ storedAt < installed
    /\ \E order \in Orders : stored' = Upgraded(stored, storedAt + 1, installed, order)
    /\ stored' # Unreadable
    /\ storedAt' = installed
    /\ UNCHANGED <<releases, installed, twin, original>>

(* A state that cannot be upgraded is left as it is. *)
OpenState ==
    /\ storedAt < installed
    /\ \E order \in Orders : stored' = Upgraded(stored, storedAt, installed, order)
    /\ stored' # Unreadable
    /\ storedAt' = installed
    /\ UNCHANGED <<releases, installed, twin, original>>

UpgradeNext == InstallRelease \/ OpenState

UpgradeSpec == UpgradeInit /\ [][UpgradeNext]_upgradeVars

-----------------------------------------------------------------------------
(* What authors must see to, and the loading of the specs does not check.  *)

(* The kinds that an attribute can have after a step, given those before.  *)
Sources(kinds, step, n) ==
    {o \in DOMAIN kinds : n = IF o \in DOMAIN step.renames THEN step.renames[o] ELSE o}

KindAfter(kind, step, n) ==
    CASE n \in step.toString -> "text"
      [] n \in step.toNumber \ step.toString -> "number"
      [] OTHER -> kind

StepKinds(kinds, step) ==
    [n \in {n \in StateNames \ step.drop : Sources(kinds, step, n) # {}} |->
       {KindAfter(k, step, n) : k \in UNION {kinds[o] : o \in Sources(kinds, step, n)}}]

KindsThrough(schema, from, steps) ==
    LET after[i \in 0 .. Len(steps)] ==
          IF i = 0 THEN [n \in DOMAIN schema |-> {schema[n]}]
          ELSE IF steps[i].from >= from THEN StepKinds(after[i - 1], steps[i]) ELSE after[i - 1]
    IN after[Len(steps)]

(* The steps of a release lead from every older schema into its own.       *)
KindsLead ==
    \A h \in Histories : \A i, j \in DOMAIN h : i < j =>
      LET kinds == KindsThrough(h[i].schema, i - 1, h[j].steps)
      IN \A n \in DOMAIN kinds : n \in SchemaNames(h[j]) /\ kinds[n] = {h[j].schema[n]}

(* A release does to a state that skips the release before it what the two *)
(* do one after the other.                                                 *)
ReleasesCompose ==
    \A h \in Histories : \A i, j \in DOMAIN h : i < j /\ j + 1 \in DOMAIN h =>
      \A m \in StatesOf(h[i].schema), order \in Orders :
        StepsApplied(StepsApplied(m, i - 1, h[j].steps, order), j - 1, h[j + 1].steps, order)
          = StepsApplied(m, i - 1, h[j + 1].steps, order)

(* Where the value of an attribute is, told from the names and kinds that  *)
(* the steps list: its name (none once it is dropped), its kind, and the   *)
(* kinds it has been read as a number from.                                *)
RouteStart(schema) ==
    [o \in DOMAIN schema |-> [at |-> {o}, kind |-> schema[o], parsed |-> {}]]

RouteAfter(route, step) ==
    LET at == {IF n \in DOMAIN step.renames THEN step.renames[n] ELSE n : n \in route.at} \ step.drop
        read == at \cap step.toNumber # {}
    IN [at     |-> at,
        kind   |-> CASE at = {} -> "null"
                     [] at \cap step.toString # {} -> "text"
                     [] read /\ at \cap step.toString = {} -> "number"
                     [] OTHER -> route.kind,
        parsed |-> route.parsed \cup (IF read THEN {route.kind} \ {"number"} ELSE {})]

RoutesThrough(start, from, steps) ==
    LET after[i \in 0 .. Len(steps)] ==
          IF i = 0 THEN start
          ELSE IF steps[i].from >= from
               THEN [o \in DOMAIN start |-> RouteAfter(after[i - 1][o], steps[i])]
               ELSE after[i - 1]
    IN after

(* No two attributes ever share a name. *)
KeepApart(run) ==
    \A i \in DOMAIN run : \A o, p \in DOMAIN run[i] : o # p => run[i][o].at \cap run[i][p].at = {}

(* In the lists of steps of a resource's releases, an attribute that skips *)
(* the release before one takes the same route as through the two.         *)
RoutesCompose(h) ==
    \A i, j \in DOMAIN h : i < j /\ j + 1 \in DOMAIN h =>
      LET start == RouteStart(h[i].schema)
          first == RoutesThrough(start, i - 1, h[j].steps)
          second == RoutesThrough(first[Len(h[j].steps)], j - 1, h[j + 1].steps)
          both == RoutesThrough(start, i - 1, h[j + 1].steps)
      IN /\ KeepApart(first) /\ KeepApart(second) /\ KeepApart(both)
         /\ second[Len(h[j + 1].steps)] = both[Len(h[j + 1].steps)]

(* No release gives two attributes of the first one the same new name.     *)
NewNamesDiffer ==
    \A h \in Histories : \A k \in DOMAIN h : \A i, j \in DOMAIN h[k].steps :
      LET r == h[k].steps[i].renames
          s == h[k].steps[j].renames
      IN \A o \in DOMAIN r \cap SchemaNames(h[1]), p \in DOMAIN s \cap SchemaNames(h[1]) :
           r[o] = s[p] => o = p

-----------------------------------------------------------------------------
(* The framework reads state "strictly against the current schema": what   *)
(* is stored fits the schema of the version it is stored at, so that no    *)
(* upgrade makes a state unreadable, whichever releases it missed.         *)
StoredFitsSchema == stored \in StatesOf(Schema(storedAt))

(* A state that missed releases ends up as one that saw them all, although *)
(* each was upgraded by lists written at different times, and in whatever  *)
(* order Go visits the renames.                                            *)
JumpsLikeSteps == storedAt = installed => stored = twin

(* What a user set is still there: a rename or a conversion loses nothing. *)
(* Only an attribute that the release dropped goes, or one renamed to a    *)
(* name that had a value of its own.                                       *)
SurvivesUpgrade ==
    \A n \in DOMAIN original :
      \/ original[n].of \in Blanks \cup {Nil.of}
      \/ \E k \in DOMAIN stored : stored[k].of = original[n].of
      \/ \E i \in DOMAIN ReleaseOf(storedAt).steps :
           LET step == ReleaseOf(storedAt).steps[i]
           IN \/ n \in step.drop
              \/ /\ n \in DOMAIN step.renames
                 /\ step.renames[n] \in DOMAIN original
                 /\ original[step.renames[n]] # Nil
=============================================================================
