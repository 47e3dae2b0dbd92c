---------------------------- MODULE ObjectAccess ----------------------------
(***************************************************************************)
(* Which backend object a resource block stands for: how it comes by its   *)
(* id (a create, an import by text or by identity, a state written by an   *)
(* earlier version), how the id is turned back into an object, when the    *)
(* entry is dropped, and which identity Terraform is told.  Objects are    *)
(* named by their path.  The backend may lag: an object that exists is not *)
(* shown at first.  Waits and attributes are ResourceLifecycle's and       *)
(* AttributeFlow's.                                                        *)
(***************************************************************************)
EXTENDS ResourceIds, ApiCalls, FiniteSets

CONSTANTS
    Segments,      \* path parameters and object ids
    Shapes,        \* the endpoints of this instance
    CallStatuses,  \* HTTP statuses of replies
    MaxSegments,   \* longest id a user writes
    MaxObjects     \* bound on the objects that exist at once

ASSUME ShapeAssumption ==
    \A s \in Shapes :
       /\ s.want \in Nat \ {0}
       /\ s.association \in BOOLEAN /\ s.readFromList \in BOOLEAN
       /\ s.readListPath \in BOOLEAN /\ s.createReturnsList \in BOOLEAN
       /\ NotFoundRules(s.rules)

ASSUME SegmentAssumption ==
    /\ Blank \notin Segments
    /\ CallStatuses \subseteq 100 .. 599
    /\ MaxSegments \in Nat
    /\ MaxObjects \in Nat

VARIABLES
    shape,          \* the endpoint
    objects, shown, \* the objects that exist; those that reads return
    stateId,        \* the id in state, <<>> when there is no entry
    identity,       \* the identity last returned, <<>> when there was none
    lastOp          \* the last operation's end: "none", "ok", "error", "import"

(* History, read by the properties only. *)
VARIABLES
    meant,          \* the path of the object the block stands for
    mine,           \* objects that creates of this block made
    told,           \* objects an error or a warning was about
    hidden          \* objects that existed when a read did not return them

backendVars == <<objects, shown>>
entryVars == <<stateId, identity>>
objectVars == <<shape, backendVars, entryVars, lastOp, meant, mine, told, hidden>>

Paths == [1 .. shape.want -> Segments]

Texts == UNION {[1 .. n -> Segments \cup {Blank}] : n \in 1 .. MaxSegments}

(* One text for each part of an identity. *)
PartTexts == UNION {[1 .. n -> Segments] : n \in 1 .. 2}

Identities == [1 .. shape.want -> PartTexts \cup {<<Blank>>}]

Scope(p) == SubSeq(p, 1, shape.want - 1)

Own == splitID(stateId, shape.want)

Tracked == stateId # <<>>

(* A block without an entry, or one whose entry is older than identities   *)
(* and may end in segments that an import used to keep.                    *)
ObjectInit ==
    /\ shape \in Shapes
    /\ \/ objects = {} /\ stateId = <<>> /\ meant = <<>>
       \/ \E p \in Paths, q \in {<<>>} \cup [1 .. 1 -> Segments] :
            objects = {p} /\ meant = p /\ stateId = p \o q
    /\ shown = objects
    /\ identity = <<>>
    /\ lastOp = "none"
    /\ mine = {}
    /\ told = {}
    /\ hidden = {}

-----------------------------------------------------------------------------
(* Replies. *)

(* A backend says that an object is gone, or leaves it out of a list, only *)
(* when it does not show it; anything else may fail at any time.           *)
ReadAnswers(present) ==
    {r \in Replies(CallStatuses) :
       /\ r.status = 404 \/ r.body = "gone" => ~present
       /\ r.status \in 200 .. 299 /\ r.body = "noData" /\ shape.readFromList => ~present
       /\ r.status \in 200 .. 299 /\ r.body = "object"
            /\ ~shape.readFromList /\ ~shape.association => present}

ReadError(r) ==
    IF shape.association THEN decode(r)
    ELSE IF shape.readFromList THEN GetCollection(r, shape.readListPath)
    ELSE Get(shape.rules, r)

(* What Read concludes: an element that is not in its list is gone as well. *)
Verdict(r, present) ==
    CASE ReadError(r) = 404                 -> "gone"
      [] ReadError(r) = NoError /\ present  -> "kept"
      [] ReadError(r) = NoError /\ ~present -> "gone"
      [] OTHER                              -> "error"

CreateError(r) ==
    IF shape.association THEN callAPI(r, "nothing")
    ELSE IF shape.createReturnsList THEN CreateList(r)
    ELSE decode(r)

(* The path that the id in the reply makes; without data there is no id. *)
CreatedPath(r, p) ==
    IF r.body = "noData" /\ ~shape.association THEN composeID(Scope(p), Blank) ELSE p

-----------------------------------------------------------------------------
(* The operations of the resource. *)

(* The object of a create may take a while to show. *)
Make(made) ==
    /\ Cardinality(objects \cup made) <= MaxObjects
    /\ objects' = objects \cup made
    /\ \E late \in SUBSET made : shown' = shown \cup (made \ late)

(* setIdentity, for an operation without errors. *)
Identify(id) == identity' = splitID(id, shape.want)

CreateOk ==
    /\ ~Tracked
    /\ \E p \in Paths, r \in Replies(CallStatuses) :
         /\ shape.association \/ p \notin objects
         /\ CreateError(r) = NoError
         /\ Make({p})
         /\ stateId' = CreatedPath(r, p)
         /\ Identify(stateId')
         /\ meant' = p
         /\ mine' = mine \cup {p}
    /\ lastOp' = "ok"
    /\ UNCHANGED <<shape, told, hidden>>

(* Broken: the first element of the list is taken and no warning given. *)
CreateSeveralSilently ==
    /\ ~Tracked
    /\ shape.createReturnsList
    /\ \E p, q \in Paths \ objects :
         /\ p # q /\ Scope(p) = Scope(q)
         /\ Make({p, q})
         /\ stateId' = p
         /\ Identify(stateId')
         /\ meant' = p
         /\ mine' = mine \cup {p, q}
    /\ lastOp' = "ok"
    /\ UNCHANGED <<shape, told, hidden>>

(* createFromList: the request became several objects; a warning says so. *)
CreateSeveral ==
    /\ ~Tracked
    /\ shape.createReturnsList
    /\ \E p, q \in Paths \ objects :
         /\ p # q /\ Scope(p) = Scope(q)
         /\ Make({p, q})
         /\ stateId' = p
         /\ Identify(stateId')
         /\ meant' = p
         /\ mine' = mine \cup {p, q}
         /\ told' = told \cup {q}
    /\ lastOp' = "ok"
    /\ UNCHANGED <<shape, hidden>>

(* The call fails, or answers with an empty list; the object may be there. *)
CreateFails ==
    /\ ~Tracked
    /\ \E p \in Paths, r \in Replies(CallStatuses), applied \in BOOLEAN :
         /\ shape.association \/ p \notin objects
         /\ CreateError(r) # NoError \/ shape.createReturnsList
         /\ IF applied THEN Make({p}) ELSE UNCHANGED backendVars
         /\ mine' = IF applied THEN mine \cup {p} ELSE mine
         /\ told' = IF applied THEN told \cup {p} ELSE told
    /\ lastOp' = "error"
    /\ UNCHANGED <<shape, entryVars, meant, hidden>>

ReadKeeps ==
    /\ Tracked
    /\ \E r \in ReadAnswers(Own \in shown) : Verdict(r, Own \in shown) = "kept"
    /\ Identify(stateId)
    /\ lastOp' = "ok"
    /\ UNCHANGED <<shape, backendVars, stateId, meant, mine, told, hidden>>

(* Broken: the identity is taken from the entry that was just removed. *)
ReadDropsIdentityToo ==
    /\ Tracked
    /\ \E r \in ReadAnswers(Own \in shown) : Verdict(r, Own \in shown) = "gone"
    /\ stateId' = <<>>
    /\ hidden' = hidden \cup ({Own} \cap objects)
    /\ lastOp' = "ok"
    /\ UNCHANGED <<shape, backendVars, identity, meant, mine, told>>

(* The entry goes; its identity is still told, from the prior state. *)
ReadDrops ==
    /\ Tracked
    /\ \E r \in ReadAnswers(Own \in shown) : Verdict(r, Own \in shown) = "gone"
    /\ stateId' = <<>>
    /\ Identify(stateId)
    /\ hidden' = hidden \cup ({Own} \cap objects)
    /\ lastOp' = "ok"
    /\ UNCHANGED <<shape, backendVars, meant, mine, told>>

ReadFails ==
    /\ Tracked
    /\ \E r \in ReadAnswers(Own \in shown) : Verdict(r, Own \in shown) = "error"
    /\ lastOp' = "error"
    /\ UNCHANGED <<shape, backendVars, entryVars, meant, mine, told, hidden>>

(* What a delete may answer: success only when the object is gone by then. *)
DeleteAnswers(applied) ==
    {r \in Replies(CallStatuses) :
       /\ r.status = 404 \/ r.body = "gone" => Own \notin shown
       /\ r.status \in 200 .. 299 => applied \/ Own \notin objects}

Removed(applied) == IF applied THEN {Own} ELSE {}

DeleteOk ==
    /\ Tracked
    /\ \E applied \in BOOLEAN : \E r \in DeleteAnswers(applied) :
         /\ Delete(shape.rules, r) = NoError
         /\ objects' = objects \ Removed(applied)
         /\ shown' = shown \ Removed(applied)
         /\ hidden' = (hidden \cup {Own}) \cap objects'
    /\ mine' = mine \cap objects'
    /\ told' = told \cap objects'
    /\ stateId' = <<>>
    /\ identity' = <<>>
    /\ lastOp' = "none"
    /\ UNCHANGED <<shape, meant>>

(* The entry is kept, also when the object went and the reply was lost. *)
DeleteFails ==
    /\ Tracked
    /\ \E applied \in BOOLEAN : \E r \in DeleteAnswers(applied) :
         /\ Delete(shape.rules, r) # NoError
         /\ objects' = objects \ Removed(applied)
         /\ shown' = shown \ Removed(applied)
    /\ mine' = mine \cap objects'
    /\ told' = told \cap objects'
    /\ hidden' = hidden \cap objects'
    /\ lastOp' = "error"
    /\ UNCHANGED <<shape, entryVars, meant>>

(* ImportState, by an id the user writes. *)
ImportById ==
    /\ ~Tracked
    /\ \E text \in Texts :
         /\ ~importIDProblem(text, shape.want)
         /\ stateId' = canonicalImportID(text, shape.want)
         /\ meant' = splitID(text, shape.want)
    /\ identity' = <<>>
    /\ lastOp' = "import"
    /\ UNCHANGED <<shape, backendVars, mine, told, hidden>>

(* ImportState, by an identity: each value names one part of the path. *)
ImportByIdentity ==
    /\ ~Tracked
    /\ \E values \in Identities :
         /\ ~IdentityProblem(values)
         /\ ~importIDProblem(idFromIdentity(values), shape.want)
         /\ stateId' = idFromIdentity(values)
         /\ meant' = [i \in DOMAIN values |-> values[i][1]]
    /\ identity' = <<>>
    /\ lastOp' = "import"
    /\ UNCHANGED <<shape, backendVars, mine, told, hidden>>

-----------------------------------------------------------------------------
(* The backend and its other users. *)

ShowUp ==
    /\ \E p \in objects \ shown : shown' = shown \cup {p}
    /\ UNCHANGED <<shape, objects, entryVars, lastOp, meant, mine, told, hidden>>

Appears ==
    /\ \E p \in Paths \ objects : Make({p})
    /\ UNCHANGED <<shape, entryVars, lastOp, meant, mine, told, hidden>>

Vanishes ==
    /\ \E p \in objects : objects' = objects \ {p} /\ shown' = shown \ {p}
    /\ mine' = mine \cap objects'
    /\ told' = told \cap objects'
    /\ hidden' = hidden \cap objects'
    /\ UNCHANGED <<shape, entryVars, lastOp, meant>>

ObjectNext ==
    \/ CreateOk
    \/ CreateSeveral
    \/ CreateFails
    \/ ReadKeeps
    \/ ReadDrops
    \/ ReadFails
    \/ DeleteOk
    \/ DeleteFails
    \/ ImportById
    \/ ImportByIdentity
    \/ ShowUp
    \/ Appears
    \/ Vanishes

ObjectSpec == ObjectInit /\ [][ObjectNext]_objectVars

-----------------------------------------------------------------------------
ObjectTypeOK ==
    /\ shape \in Shapes
    /\ objects \subseteq Paths
    /\ shown \subseteq objects
    /\ stateId = <<>> \/ Len(stateId) >= shape.want
    /\ identity = <<>> \/ identity \in Paths
    /\ lastOp \in {"none", "ok", "error", "import"}
    /\ mine \cup told \cup hidden \subseteq objects

(* Whatever way an id came into the state (a create's reply, an import by   *)
(* text with anything behind it, an import by identity, an older version), *)
(* the object it is turned back into is the one that was made or named.    *)
TracksWhatWasMeant == Tracked => Own = meant

(* Every operation that ends well, a read that drops the entry among them, *)
(* leaves the identity of the object that the block stands, or stood, for; *)
(* Terraform refuses a read without one.                                   *)
IdentityNamesTheObject == lastOp = "ok" => identity = meant

(* An entry is dropped, by a refresh or by a destroy, only when the backend *)
(* does not show the object at that moment, whatever faults, error texts   *)
(* and empty lists it answers with.                                        *)
DropsOnlyWhatIsGone ==
    [][Tracked /\ stateId' = <<>> => meant \notin shown \/ meant \notin objects']_objectVars

(* Every object that a create of this block made is tracked, gone, or the   *)
(* user was told of it - lost replies, empty replies and lists of several  *)
(* included.  Only a backend that hides what it has made is excused.       *)
NothingSilentlyLost ==
    mine \subseteq told \cup hidden \cup (IF Tracked THEN {Own} ELSE {})

(* A data source given the resource's id, or its object id alone, together *)
(* with the resource's path parameters asks for the resource's object.     *)
LookupReadsTheSame ==
    Tracked /\ ~shape.association /\ Len(stateId) = shape.want =>
        /\ composeID(Scope(Own), apiID(stateId)) = meant
        /\ composeID(Scope(Own), apiID(<<Own[shape.want]>>)) = meant

(* The id and the identity of every object in state can be imported, and   *)
(* both imports give the id a create would have given.                     *)
ImportsBack ==
    Tracked =>
        /\ ~importIDProblem(stateId, shape.want)
        /\ canonicalImportID(stateId, shape.want) = meant
        /\ idFromIdentity([i \in 1 .. shape.want |-> <<meant[i]>>]) = meant

(* Each name the object has in state, its id and its identity, leads back   *)
(* to it, through a call, a data source and an import.                     *)
NamesLeadToTheObject ==
    /\ TracksWhatWasMeant
    /\ IdentityNamesTheObject
    /\ LookupReadsTheSame
    /\ ImportsBack
=============================================================================
