------------------------------- MODULE MCUpdates -------------------------------
(* The two ways an update reaches the backend: one call per change          *)
(* (SingleIntentUpdate), and one PUT, overlaid on the current record or not *)
(* (MergeUpdate).  Each behaviour runs one of the two, the other rests.     *)
EXTENDS SingleIntentUpdate, MergeUpdate

LabelsPath == <<"spec", "labels">>
Labels(keys) == [q \in {LabelsPath \o <<k>> : k \in keys} |-> "x"]
MCPath == [labels |-> LabelsPath]
MCPlannedValues ==
    [labels |-> {NoDocument, [q \in {LabelsPath} |-> Empty], Labels({"k"}), Labels({"k", "l"})}]

MCOwnedPaths == {<<"spec", "handle">>}
MCSecretPath == <<"spec", "password">>

Plain == [merges |-> FALSE, resend |-> FALSE, always |-> FALSE, command |-> FALSE]
Rds == [Plain EXCEPT !.merges = TRUE, !.resend = TRUE]        \* and elasticache
AwsSecret == [Plain EXCEPT !.merges = TRUE, !.command = TRUE]
KeyVaultSecret == [Plain EXCEPT !.always = TRUE, !.command = TRUE]
MCSpecs == {Rds, AwsSecret, KeyVaultSecret}

IntentsAtRest ==
    /\ phase = "ready" /\ actual = [i \in Intents |-> CHOOSE v \in Values : TRUE]
    /\ target = actual /\ want = actual /\ other = FALSE /\ recorded = actual
    /\ pc = "idle" /\ changes = {} /\ faults = MaxFaults /\ edits = MaxEdits
    /\ own = 0 /\ unseen = {} /\ late = FALSE

MergeAtRest ==
    /\ spec = KeyVaultSecret /\ secret = None /\ echo = "omitted"
    /\ owned = [p \in OwnedPaths |-> CHOOSE v \in OwnedValues : TRUE] /\ record = owned
    /\ wanted = [attrs |-> [a \in Names |-> NoDocument],
                 password |-> None, secret |-> None, version |-> None]
    /\ savedAttrs = wanted.attrs /\ savedPassword = None /\ savedVersion = None
    /\ stage = "idle" /\ sent = NoDocument /\ breaks = MaxBreaks /\ turns = MaxTurns
    /\ raced = {} /\ drifted = {} /\ unsure = FALSE
    /\ disciplined = TRUE /\ lastVersion = 0

UpdatesInit == (Init /\ MergeAtRest) \/ (IntentsAtRest /\ MergeInit)

UpdatesNext ==
    \/ MergeAtRest /\ Next /\ UNCHANGED mergeVars
    \/ IntentsAtRest /\ MergeNext /\ UNCHANGED vars

UpdatesSpec ==
    /\ UpdatesInit
    /\ [][UpdatesNext]_<<vars, mergeVars>>
    /\ WF_vars(MergeAtRest /\ Engine)
    /\ WF_vars(MergeAtRest /\ Begin)
    /\ WF_vars(MergeAtRest /\ Complete)
    /\ WF_vars(MergeAtRest /\ Recover)
    /\ WF_mergeVars(IntentsAtRest /\ Refresh)
    /\ WF_mergeVars(IntentsAtRest /\ Applying)
=============================================================================
