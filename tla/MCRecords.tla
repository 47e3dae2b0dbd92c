----------------------------- MODULE MCRecords -----------------------------
(* What the state records: the objects that blocks stand for                *)
(* (ObjectAccess), the scopes linked to a workspace (ScopeLinks), and how   *)
(* it is carried over to a new release (StateUpgrade).  Each behaviour runs *)
(* one of the three; the others have nothing left to do.                    *)
EXTENDS ScopeLinks, ObjectAccess, StateUpgrade

Plain == [want |-> 2, association |-> FALSE, readFromList |-> FALSE,
          readListPath |-> FALSE, createReturnsList |-> FALSE, rules |-> {}]

(* The shipped endpoints have up to three path parameters; paths of two     *)
(* segments already tell a parameter from an id and a segment too many.     *)
MCShapes ==
    {Plain,
     [Plain EXCEPT !.want = 1],                     \* the admin objects
     [Plain EXCEPT !.rules = {400}],                \* azure_key_vault_secret
     [Plain EXCEPT !.readFromList = TRUE],          \* the kms keys
     [Plain EXCEPT !.readFromList = TRUE, !.readListPath = TRUE,
                   !.createReturnsList = TRUE],     \* the security group rules
     [Plain EXCEPT !.association = TRUE]}           \* admin_workspace_scope_mapping

LinksAtRest ==
    /\ exists = FALSE /\ linked = {} /\ want = {} /\ renamed = FALSE
    /\ tracked = FALSE /\ managed = {} /\ system = {} /\ pc = "idle"
    /\ wantMapped = {} /\ mapped = {} /\ mapPc = [s \in Scopes |-> "idle"]
    /\ faults = MaxFaults /\ edits = MaxEdits /\ seen = {} /\ inconsistent = FALSE

ObjectAtRest ==
    /\ shape = Plain /\ objects = {} /\ shown = {} /\ stateId = <<>> /\ identity = <<>>
    /\ lastOp = "none" /\ meant = <<>> /\ mine = {} /\ told = {} /\ hidden = {}

(* Releases of a resource. *)
Step(from, renames, toNumber, toString, drop) ==
    [from |-> from, renames |-> renames, toNumber |-> toNumber,
     toString |-> toString, drop |-> drop]
First(schema) == [schema |-> schema, steps |-> <<>>]
Size == [size |-> "capacity"]

Unchanged == <<First(<<>>)>>

(* A text becomes a number, and is then renamed. *)
BecomesNumber ==
    <<First([size |-> "text", name |-> "text"]),
      [schema |-> [size |-> "number", name |-> "text"],
       steps |-> <<Step(0, <<>>, {"size"}, {}, {})>>],
      [schema |-> [capacity |-> "number", name |-> "text"],
       steps |-> <<Step(0, Size, {"capacity"}, {}, {}), Step(1, Size, {}, {}, {})>>]>>

(* One of two names for the same goes, then another attribute. *)
LosesAlias ==
    <<First([size |-> "text", capacity |-> "text", name |-> "text"]),
      [schema |-> [capacity |-> "text", name |-> "text"],
       steps |-> <<Step(0, Size, {}, {}, {})>>],
      [schema |-> [capacity |-> "text"],
       steps |-> <<Step(0, Size, {}, {}, {}), Step(1, <<>>, {}, {}, {"name"})>>]>>

(* Two renames in one step, a number and a flag that become texts. *)
Renames ==
    <<First([size |-> "number", name |-> "bool"]),
      [schema |-> [capacity |-> "text", label |-> "text"],
       steps |-> <<Step(0, [size |-> "capacity", name |-> "label"], {}, {"capacity", "label"}, {})>>]>>

(* A new name, and another one. *)
RenamedTwice ==
    <<First([size |-> "text", name |-> "bool"]),
      [schema |-> [capacity |-> "text", name |-> "bool"],
       steps |-> <<Step(0, Size, {}, {}, {})>>],
      [schema |-> [label |-> "number"],
       steps |-> <<Step(0, [size |-> "label"], {"label"}, {}, {"name"}),
                   Step(1, [capacity |-> "label"], {"label"}, {}, {"name"})>>]>>

MCHistories == {Unchanged, BecomesNumber, LosesAlias, Renames, RenamedTwice}

ASSUME HistoriesWithCare == KindsLead /\ ReleasesCompose /\ NewNamesDiffer

(* Where two names for the same meet, the routes alone do not tell which    *)
(* value stays.                                                             *)
ASSUME RoutesWithCare ==
    \A h \in MCHistories : RoutesCompose(h) <=> h # LosesAlias

UpgradeAtRest ==
    /\ releases = Unchanged /\ installed = 0 /\ storedAt = 0
    /\ stored = <<>> /\ twin = <<>> /\ original = <<>>

RecordsInit ==
    \/ Init /\ ObjectAtRest /\ UpgradeAtRest
    \/ LinksAtRest /\ ObjectInit /\ UpgradeAtRest
    \/ LinksAtRest /\ ObjectAtRest /\ UpgradeInit

(* Only the run of the part that is not at rest goes on. *)
RecordsNext ==
    \/ Next /\ UNCHANGED <<objectVars, upgradeVars>>
    \/ LinksAtRest /\ UpgradeAtRest /\ ObjectNext /\ UNCHANGED <<vars, upgradeVars>>
    \/ UpgradeNext /\ UNCHANGED <<vars, objectVars>>

RecordsSpec ==
    /\ RecordsInit
    /\ [][RecordsNext]_<<vars, objectVars, upgradeVars>>
    /\ WF_vars(Workspace)
    /\ \A s \in Scopes : WF_vars(Mapping(s))
=============================================================================
