--------------------------- MODULE ObjectAccessProofs ---------------------------
(***************************************************************************)
(* Which object a resource block stands for: proofs for every endpoint,    *)
(* every length of path and of id, every set of segments and statuses.     *)
(***************************************************************************)
EXTENDS ObjectAccess, SequenceTheorems, TLAPS

want == shape.want

(* A path has at least one segment. *)
LEMMA ShapeFacts == ASSUME shape \in Shapes PROVE want \in Nat \ {0}
  BY ShapeAssumption DEF want

(* A path is a text of as many segments as the endpoint asks for. *)
LEMMA PathFacts ==
    ASSUME shape \in Shapes, NEW p \in Paths
    PROVE  /\ p \in Seq(Segments) /\ Len(p) = want /\ p # <<>>
           /\ \A i \in 1 .. want : p[i] \in Segments /\ p[i] # Blank
           /\ SubSeq(p, 1, want) = p
<1>1. want \in Nat \ {0} /\ p \in [1 .. want -> Segments]
  BY ShapeFacts DEF Paths, want
<1>2. p \in Seq(Segments) /\ Len(p) = want
  BY <1>1
<1>3. p # <<>>
  BY <1>1, <1>2
<1>4. \A i \in 1 .. want : p[i] \in Segments /\ p[i] # Blank
  BY <1>1, SegmentAssumption
<1>5. SubSeq(p, 1, want) = p
  BY <1>1, <1>2
<1> QED
  BY <1>2, <1>3, <1>4, <1>5

(* What is left of a long enough text is a path when no part is blank. *)
LEMMA SplitFacts ==
    ASSUME shape \in Shapes, NEW text \in Seq(Segments \cup {Blank}), Len(text) >= want,
           \A i \in 1 .. want : text[i] # Blank
    PROVE  splitID(text, want) \in Paths
<1>1. want \in Nat \ {0}
  BY ShapeFacts
<1>2. Len(text) \in Nat
  OBVIOUS
<1>3. \A i \in 1 .. want : text[i] \in Segments
  BY <1>1, <1>2, ElementOfSeq
<1>4. splitID(text, want) = [i \in 1 .. want |-> text[i]]
  BY <1>1, <1>2 DEF splitID
<1> QED
  BY <1>1, <1>3, <1>4 DEF Paths, want

-----------------------------------------------------------------------------
(* Replies. *)

(* A reply that ends a create well has an id, unless none is asked for. *)
LEMMA CreatedFacts ==
    ASSUME NEW r, NEW p, CreateError(r) = NoError PROVE CreatedPath(r, p) = p
  BY DEF CreateError, CreatedPath, CreateList, decode, callAPI, NoError

(* A read concludes that an object is gone only when it is not shown. *)
LEMMA GoneFacts ==
    ASSUME NEW present \in BOOLEAN, NEW r \in ReadAnswers(present), Verdict(r, present) = "gone"
    PROVE  ~present
<1>1. r.status = 404 \/ r.body = "gone" => ~present
  BY DEF ReadAnswers
<1>2. CASE ReadError(r) = 404
  <2>1. r.status = 404 \/ r.body = "gone"
    BY <1>2 DEF ReadError, GetCollection, Get, asNotFound, decode, callAPI, NoError
  <2> QED
    BY <1>1, <2>1
<1>3. CASE ReadError(r) # 404
  BY <1>3 DEF Verdict
<1> QED
  BY <1>2, <1>3

(* A delete ends well only when the object is gone or not shown. *)
LEMMA DeletedFacts ==
    ASSUME NEW applied \in BOOLEAN, NEW r \in DeleteAnswers(applied), NEW rules,
           Delete(rules, r) = NoError
    PROVE  applied \/ Own \notin objects \/ Own \notin shown
<1>1. r.status # NoError
  BY SegmentAssumption DEF DeleteAnswers, Replies, Lost, NoError
<1>2. \/ r.status = 404 \/ r.body = "gone"
      \/ r.status \in 200 .. 299
  BY <1>1 DEF Delete, asNotFound, callAPI, NoError
<1> QED
  BY <1>2 DEF DeleteAnswers

-----------------------------------------------------------------------------
(* What the steps keep. *)

ObjectInv ==
    /\ ObjectTypeOK
    /\ TracksWhatWasMeant
    /\ IdentityNamesTheObject
    /\ NothingSilentlyLost
    /\ Tracked => meant \in Paths /\ stateId \in Seq(Segments \cup {Blank})

(* The invariant holds of a block with or without an old entry. *)
LEMMA ObjectInitFacts == ASSUME ObjectInit PROVE ObjectInv
<1>1. /\ shape \in Shapes /\ shown = objects /\ identity = <<>> /\ lastOp = "none"
      /\ mine = {} /\ told = {} /\ hidden = {}
  BY DEF ObjectInit
<1>2. want \in Nat \ {0}
  BY <1>1, ShapeFacts
<1>3. CASE objects = {} /\ stateId = <<>> /\ meant = <<>>
  BY <1>1, <1>3 DEF ObjectInv, ObjectTypeOK, TracksWhatWasMeant, IdentityNamesTheObject,
                    NothingSilentlyLost, Tracked
<1>4. ASSUME NEW p \in Paths, NEW q \in {<<>>} \cup [1 .. 1 -> Segments],
             objects = {p}, meant = p, stateId = p \o q
      PROVE  ObjectInv
  <2>1. p \in Seq(Segments) /\ Len(p) = want /\ SubSeq(p, 1, want) = p
    BY <1>1, PathFacts
  <2>2. q \in Seq(Segments)
    <3>1. CASE q = <<>>
      BY <3>1
    <3>2. CASE q \in [1 .. 1 -> Segments]
      <4>1. \E n \in Nat : q \in [1 .. n -> Segments]
        BY <3>2
      <4> QED
        BY <4>1, SeqDef
    <3> QED
      BY <3>1, <3>2
  <2>3. /\ stateId \in Seq(Segments) /\ Len(stateId) >= want
        /\ \A i \in 1 .. want : stateId[i] = p[i]
    BY <1>2, <1>4, <2>1, <2>2
  <2>4. splitID(stateId, want) = p
    BY <1>2, <2>1, <2>3 DEF splitID
  <2>5. stateId \in Seq(Segments \cup {Blank})
    BY <2>3
  <2> QED
    BY <1>1, <1>4, <2>3, <2>4, <2>5
       DEF ObjectInv, ObjectTypeOK, TracksWhatWasMeant, IdentityNamesTheObject,
           NothingSilentlyLost, Tracked, Own, want
<1> QED
  BY <1>3, <1>4 DEF ObjectInit

(* An entry that gets the id of its object, or one longer than it. *)
LEMMA NewEntry ==
    ASSUME ObjectInv, UNCHANGED shape, NEW p \in Paths, stateId' = p, meant' = p
    PROVE  /\ Tracked' /\ Own' = p /\ splitID(stateId', want) = p
           /\ Len(stateId') >= shape.want
           /\ stateId' \in Seq(Segments \cup {Blank})
<1>1. /\ shape \in Shapes /\ p \in Seq(Segments) /\ Len(p) = want
      /\ SubSeq(p, 1, want) = p /\ p # <<>> /\ want \in Nat \ {0}
  BY PathFacts, ShapeFacts DEF ObjectInv, ObjectTypeOK
<1>2. p \in Seq(Segments \cup {Blank})
  BY <1>1
<1> QED
  BY <1>1, <1>2 DEF Tracked, Own, splitID, want

(* A create tracks what it made, or says so. *)
LEMMA CreateKeeps ==
    ASSUME ObjectInv, CreateOk \/ CreateSeveral \/ CreateFails
    PROVE  ObjectInv'
<1>0. shape \in Shapes /\ ~Tracked
  BY DEF ObjectInv, ObjectTypeOK, CreateOk, CreateSeveral, CreateFails
<1>1. ASSUME NEW made \in SUBSET Paths, Make(made)
      PROVE  objects' = objects \cup made /\ shown' \subseteq objects'
             /\ objects \subseteq Paths /\ objects' \subseteq objects \cup Paths
  BY <1>1 DEF Make, ObjectInv, ObjectTypeOK
<1>2. CASE CreateOk
  <2>1. PICK p \in Paths, r \in Replies(CallStatuses) :
          /\ CreateError(r) = NoError
          /\ Make({p})
          /\ stateId' = CreatedPath(r, p)
          /\ Identify(stateId')
          /\ meant' = p
          /\ mine' = mine \cup {p}
    BY <1>2 DEF CreateOk
  <2>2. lastOp' = "ok" /\ UNCHANGED <<shape, told, hidden>>
    BY <1>2 DEF CreateOk
  <2>3. stateId' = p
    BY <2>1, CreatedFacts
  <2>4. /\ Tracked' /\ Own' = p /\ splitID(stateId', want) = p
        /\ Len(stateId') >= shape.want /\ stateId' \in Seq(Segments \cup {Blank})
    BY <2>1, <2>2, <2>3, NewEntry
  <2>5. identity' = p
    BY <2>1, <2>4 DEF Identify, want
  <2>6. objects' = objects \cup {p} /\ shown' \subseteq objects' /\ objects \subseteq Paths
    BY <2>1, <1>1
  <2>7. ObjectTypeOK'
    BY <2>1, <2>2, <2>4, <2>5, <2>6 DEF ObjectInv, ObjectTypeOK, Paths
  <2>8. NothingSilentlyLost'
    BY <2>1, <2>2, <2>4, <1>0 DEF ObjectInv, NothingSilentlyLost
  <2> QED
    BY <2>1, <2>2, <2>4, <2>5, <2>7, <2>8
       DEF ObjectInv, TracksWhatWasMeant, IdentityNamesTheObject, Paths
<1>3. CASE CreateSeveral
  <2>1. PICK p \in Paths \ objects, q \in Paths \ objects :
          /\ Make({p, q})
          /\ stateId' = p
          /\ Identify(stateId')
          /\ meant' = p
          /\ mine' = mine \cup {p, q}
          /\ told' = told \cup {q}
    BY <1>3 DEF CreateSeveral
  <2>2. lastOp' = "ok" /\ UNCHANGED <<shape, hidden>>
    BY <1>3 DEF CreateSeveral
  <2>4. /\ Tracked' /\ Own' = p /\ splitID(stateId', want) = p
        /\ Len(stateId') >= shape.want /\ stateId' \in Seq(Segments \cup {Blank})
    BY <2>1, <2>2, NewEntry
  <2>5. identity' = p
    BY <2>1, <2>4 DEF Identify, want
  <2>6. objects' = objects \cup {p, q} /\ shown' \subseteq objects' /\ objects \subseteq Paths
    BY <2>1, <1>1
  <2>7. ObjectTypeOK'
    BY <2>1, <2>2, <2>4, <2>5, <2>6 DEF ObjectInv, ObjectTypeOK, Paths
  <2>8. NothingSilentlyLost'
    BY <2>1, <2>2, <2>4, <1>0 DEF ObjectInv, NothingSilentlyLost
  <2> QED
    BY <2>1, <2>2, <2>4, <2>5, <2>7, <2>8
       DEF ObjectInv, TracksWhatWasMeant, IdentityNamesTheObject, Paths
<1>4. CASE CreateFails
  <2>1. PICK p \in Paths, applied \in BOOLEAN :
          /\ IF applied THEN Make({p}) ELSE UNCHANGED backendVars
          /\ mine' = IF applied THEN mine \cup {p} ELSE mine
          /\ told' = IF applied THEN told \cup {p} ELSE told
    BY <1>4 DEF CreateFails
  <2>2. lastOp' = "error" /\ UNCHANGED <<shape, stateId, identity, meant, hidden>>
    BY <1>4 DEF CreateFails, entryVars
  <2>3. /\ shown' \subseteq objects' /\ objects' \subseteq Paths /\ objects \subseteq objects'
        /\ applied => p \in objects'
    <3>1. CASE applied
      BY <2>1, <3>1, <1>1
    <3>2. CASE ~applied
      BY <2>1, <3>2 DEF backendVars, ObjectInv, ObjectTypeOK
    <3> QED
      BY <3>1, <3>2
  <2>4. ~Tracked'
    BY <1>0, <2>2 DEF Tracked
  <2>5. ObjectTypeOK'
    BY <2>1, <2>2, <2>3 DEF ObjectInv, ObjectTypeOK, Paths
  <2>6. NothingSilentlyLost'
    BY <2>1, <2>2, <1>0 DEF ObjectInv, NothingSilentlyLost
  <2> QED
    BY <2>2, <2>4, <2>5, <2>6 DEF ObjectInv, TracksWhatWasMeant, IdentityNamesTheObject
<1> QED
  BY <1>2, <1>3, <1>4

(* A read keeps the id, or drops it and still tells the identity. *)
LEMMA ReadKeepsInv ==
    ASSUME ObjectInv, ReadKeeps \/ ReadDrops \/ ReadFails PROVE ObjectInv'
<1>1. Tracked /\ UNCHANGED <<shape, objects, shown, meant, mine, told>>
  BY DEF ReadKeeps, ReadDrops, ReadFails, backendVars
<1>2. Own = meant /\ meant \in Paths /\ Own \in Paths
  BY <1>1 DEF ObjectInv, TracksWhatWasMeant
<1>3. CASE ReadKeeps
  <2>1. identity' = meant /\ lastOp' = "ok" /\ UNCHANGED <<stateId, hidden>>
    BY <1>2, <1>3 DEF ReadKeeps, Identify, Own
  <2>2. ObjectTypeOK'
    BY <1>1, <1>2, <2>1 DEF ObjectInv, ObjectTypeOK, Paths
  <2> QED
    BY <1>1, <2>1, <2>2
       DEF ObjectInv, TracksWhatWasMeant, IdentityNamesTheObject, NothingSilentlyLost,
           Tracked, Own, Paths
<1>4. CASE ReadDrops
  <2>1. /\ identity' = meant /\ lastOp' = "ok" /\ stateId' = <<>>
        /\ hidden' = hidden \cup ({Own} \cap objects)
    BY <1>2, <1>4 DEF ReadDrops, Identify, Own
  <2>2. ObjectTypeOK'
    BY <1>1, <1>2, <2>1 DEF ObjectInv, ObjectTypeOK, Paths
  <2>3. ~Tracked'
    BY <2>1 DEF Tracked
  <2>4. NothingSilentlyLost'
    BY <1>1, <2>1, <2>3 DEF ObjectInv, ObjectTypeOK, NothingSilentlyLost
  <2> QED
    BY <1>1, <2>1, <2>2, <2>3, <2>4 DEF ObjectInv, TracksWhatWasMeant, IdentityNamesTheObject
<1>5. CASE ReadFails
  <2>1. lastOp' = "error" /\ UNCHANGED <<stateId, identity, hidden>>
    BY <1>5 DEF ReadFails, entryVars
  <2>2. ObjectTypeOK'
    BY <1>1, <2>1 DEF ObjectInv, ObjectTypeOK, Paths
  <2> QED
    BY <1>1, <2>1, <2>2
       DEF ObjectInv, TracksWhatWasMeant, IdentityNamesTheObject, NothingSilentlyLost,
           Tracked, Own, Paths
<1> QED
  BY <1>3, <1>4, <1>5

(* A delete lets go of the object that was meant. *)
LEMMA DeleteKeeps ==
    ASSUME ObjectInv, DeleteOk \/ DeleteFails PROVE ObjectInv'
<1>1. PICK applied \in BOOLEAN :
        objects' = objects \ Removed(applied) /\ shown' = shown \ Removed(applied)
  BY DEF DeleteOk, DeleteFails
<1>2. /\ Tracked /\ UNCHANGED <<shape, meant>>
      /\ mine' = mine \cap objects' /\ told' = told \cap objects'
  BY DEF DeleteOk, DeleteFails
<1>3. objects' \subseteq Paths /\ shown' \subseteq objects'
  BY <1>1 DEF ObjectInv, ObjectTypeOK
<1>4. CASE DeleteOk
  <2>1. /\ stateId' = <<>> /\ identity' = <<>> /\ lastOp' = "none"
        /\ hidden' = (hidden \cup {Own}) \cap objects'
    BY <1>4 DEF DeleteOk
  <2>2. ~Tracked'
    BY <2>1 DEF Tracked
  <2>3. ObjectTypeOK'
    BY <1>2, <1>3, <2>1 DEF ObjectInv, ObjectTypeOK, Paths
  <2>4. NothingSilentlyLost'
    BY <1>2, <2>1, <2>2 DEF ObjectInv, NothingSilentlyLost
  <2> QED
    BY <2>1, <2>2, <2>3, <2>4 DEF ObjectInv, TracksWhatWasMeant, IdentityNamesTheObject
<1>5. CASE DeleteFails
  <2>1. /\ lastOp' = "error" /\ UNCHANGED <<stateId, identity>>
        /\ hidden' = hidden \cap objects'
    BY <1>5 DEF DeleteFails, entryVars
  <2>2. Own' = Own /\ (Tracked' <=> Tracked)
    BY <1>2, <2>1 DEF Own, Tracked
  <2>3. ObjectTypeOK'
    BY <1>2, <1>3, <2>1 DEF ObjectInv, ObjectTypeOK, Paths
  <2>4. NothingSilentlyLost'
    BY <1>2, <2>1, <2>2 DEF ObjectInv, NothingSilentlyLost
  <2> QED
    BY <1>2, <2>1, <2>2, <2>3, <2>4
       DEF ObjectInv, TracksWhatWasMeant, IdentityNamesTheObject, Paths
<1> QED
  BY <1>4, <1>5

(* An import tracks the object that the text or the identity names. *)
LEMMA ImportKeeps ==
    ASSUME ObjectInv, ImportById \/ ImportByIdentity PROVE ObjectInv'
<1>1. /\ ~Tracked /\ identity' = <<>> /\ lastOp' = "import"
      /\ UNCHANGED <<shape, objects, shown, mine, told, hidden>>
  BY DEF ImportById, ImportByIdentity, backendVars
<1>2. shape \in Shapes /\ want \in Nat \ {0}
  BY ShapeFacts DEF ObjectInv, ObjectTypeOK
<1>3. PICK p \in Paths : stateId' = p /\ meant' = p
  <2>1. CASE ImportById
    <3>1. PICK text \in Texts :
            /\ ~importIDProblem(text, want)
            /\ stateId' = canonicalImportID(text, want)
            /\ meant' = splitID(text, want)
      BY <2>1 DEF ImportById, want
    <3>2. text \in Seq(Segments \cup {Blank})
      BY DEF Texts
    <3>3. Len(text) >= want /\ \A i \in 1 .. want : text[i] # Blank
      BY <3>1 DEF importIDProblem, Splits
    <3>4. splitID(text, want) \in Paths
      BY <1>2, <3>2, <3>3, SplitFacts
    <3> QED
      BY <3>1, <3>3, <3>4 DEF canonicalImportID, Splits
  <2>2. CASE ImportByIdentity
    <3>1. PICK values \in Identities :
            /\ ~IdentityProblem(values)
            /\ ~importIDProblem(idFromIdentity(values), want)
            /\ stateId' = idFromIdentity(values)
            /\ meant' = [i \in DOMAIN values |-> values[i][1]]
      BY <2>2 DEF ImportByIdentity, want
    <3>2. DOMAIN values = 1 .. want
      BY DEF Identities, want
    <3>3. ASSUME NEW i \in 1 .. want
          PROVE  Len(values[i]) = 1 /\ values[i][1] \in Segments \cup {Blank}
      <4>1. values[i] \in PartTexts \cup {<<Blank>>}
        BY <3>3 DEF Identities, want
      <4>2. ~(Len(values[i]) > 1)
        BY <3>1, <3>2 DEF IdentityProblem
      <4>3. CASE values[i] = <<Blank>>
        BY <4>3
      <4>4. CASE \E n \in 1 .. 2 : values[i] \in [1 .. n -> Segments]
        <5>1. PICK n \in 1 .. 2 : values[i] \in [1 .. n -> Segments]
          BY <4>4
        <5>2. Len(values[i]) = n
          BY <5>1
        <5>3. n = 1
          BY <4>2, <5>2
        <5>4. values[i][1] \in Segments
          BY <5>1, <5>3
        <5> QED
          BY <5>2, <5>3, <5>4
      <4>5. PartTexts = UNION {[1 .. n -> Segments] : n \in 1 .. 2}
        BY DEF PartTexts
      <4> QED
        BY <4>1, <4>3, <4>4, <4>5
    <3>4. idFromIdentity(values) = [i \in DOMAIN values |-> values[i][1]]
      BY <3>2, <3>3 DEF idFromIdentity
    <3>5. \A i \in 1 .. want : idFromIdentity(values)[i] # Blank
      BY <3>1 DEF importIDProblem
    <3>6. \A i \in 1 .. want : values[i][1] \in Segments
      BY <3>2, <3>3, <3>4, <3>5
    <3>7. [i \in 1 .. want |-> values[i][1]] \in Paths
      BY <3>6 DEF Paths, want
    <3> QED
      BY <3>1, <3>2, <3>4, <3>7
  <2> QED
    BY <2>1, <2>2
<1>4. /\ Tracked' /\ Own' = p /\ Len(stateId') >= shape.want
      /\ stateId' \in Seq(Segments \cup {Blank})
  BY <1>1, <1>3, NewEntry
<1>5. ObjectTypeOK'
  BY <1>1, <1>4 DEF ObjectInv, ObjectTypeOK, Paths
<1>6. NothingSilentlyLost'
  BY <1>1, <1>4 DEF ObjectInv, NothingSilentlyLost
<1> QED
  BY <1>1, <1>3, <1>4, <1>5, <1>6
     DEF ObjectInv, TracksWhatWasMeant, IdentityNamesTheObject, Paths

(* What others do to objects leaves the entry as it is. *)
LEMMA OthersKeep ==
    ASSUME ObjectInv, ShowUp \/ Appears \/ Vanishes \/ UNCHANGED objectVars PROVE ObjectInv'
<1>1. UNCHANGED <<shape, stateId, identity, lastOp, meant>>
  BY DEF ShowUp, Appears, Vanishes, objectVars, entryVars
<1>2. /\ objects' \subseteq Paths /\ shown' \subseteq objects'
      /\ mine' \cup told' \cup hidden' \subseteq objects'
      /\ mine' \subseteq told' \cup hidden' \cup (IF Tracked THEN {Own} ELSE {})
  <2>1. CASE ShowUp
    BY <2>1 DEF ShowUp, ObjectInv, ObjectTypeOK, NothingSilentlyLost
  <2>2. CASE Appears
    BY <2>2 DEF Appears, Make, ObjectInv, ObjectTypeOK, NothingSilentlyLost
  <2>3. CASE Vanishes
    BY <2>3 DEF Vanishes, ObjectInv, ObjectTypeOK, NothingSilentlyLost
  <2>4. CASE UNCHANGED objectVars
    BY <2>4 DEF objectVars, backendVars, ObjectInv, ObjectTypeOK, NothingSilentlyLost
  <2> QED
    BY <2>1, <2>2, <2>3, <2>4
<1>3. Own' = Own /\ (Tracked' <=> Tracked)
  BY <1>1 DEF Own, Tracked
<1>4. ObjectTypeOK'
  BY <1>1, <1>2 DEF ObjectInv, ObjectTypeOK, Paths
<1> QED
  BY <1>1, <1>2, <1>3, <1>4
     DEF ObjectInv, TracksWhatWasMeant, IdentityNamesTheObject, NothingSilentlyLost, Paths

(* However an entry came about, it leads to the object that was meant. *)
THEOREM ObjectInvariant == ObjectSpec => []ObjectInv
<1>1. ASSUME ObjectInv, [ObjectNext]_objectVars PROVE ObjectInv'
  BY <1>1, CreateKeeps, ReadKeepsInv, DeleteKeeps, ImportKeeps, OthersKeep DEF ObjectNext
<1> QED
  BY <1>1, ObjectInitFacts, PTL DEF ObjectSpec

(* The object and its entry stay what the types say, for any endpoint.     *)
THEOREM ObjectTypeCorrect == ObjectSpec => []ObjectTypeOK
<1>1. ObjectInv => ObjectTypeOK
  BY DEF ObjectInv
<1> QED
  BY <1>1, ObjectInvariant, PTL

(* The id in state is always turned back into the object that was meant.   *)
THEOREM TracksTheObjectMeant == ObjectSpec => []TracksWhatWasMeant
<1>1. ObjectInv => TracksWhatWasMeant
  BY DEF ObjectInv
<1> QED
  BY <1>1, ObjectInvariant, PTL

(* The identity an operation leaves behind names the object of the block.  *)
THEOREM IdentityNames == ObjectSpec => []IdentityNamesTheObject
<1>1. ObjectInv => IdentityNamesTheObject
  BY DEF ObjectInv
<1> QED
  BY <1>1, ObjectInvariant, PTL

(* Every object a create made is tracked, gone, hidden or was reported.    *)
THEOREM NothingIsSilentlyLost == ObjectSpec => []NothingSilentlyLost
<1>1. ObjectInv => NothingSilentlyLost
  BY DEF ObjectInv
<1> QED
  BY <1>1, ObjectInvariant, PTL

(* A data source reads the object that the resource's id stands for.       *)
THEOREM LookupsAgree == ObjectSpec => []LookupReadsTheSame
<1>1. ASSUME ObjectInv PROVE LookupReadsTheSame
  <2>1. SUFFICES ASSUME Tracked, ~shape.association, Len(stateId) = want
                 PROVE  /\ composeID(Scope(Own), apiID(stateId)) = meant
                        /\ composeID(Scope(Own), apiID(<<Own[want]>>)) = meant
    BY DEF LookupReadsTheSame, want
  <2>2. Own = meant /\ meant \in Paths /\ stateId \in Seq(Segments \cup {Blank})
    BY <1>1, <2>1 DEF ObjectInv, TracksWhatWasMeant
  <2>3. want \in Nat \ {0} /\ meant \in Seq(Segments) /\ Len(meant) = want
    BY <1>1, <2>2, ShapeFacts, PathFacts DEF ObjectInv, ObjectTypeOK
  <2>4. meant = stateId
    BY <2>1, <2>2, <2>3 DEF Own, splitID, want
  <2>5. Append(SubSeq(meant, 1, want - 1), meant[want]) = meant
    <3>1. SubSeq(meant, 1, want - 1) = [i \in 1 .. want - 1 |-> meant[i]]
      BY <2>3
    <3> QED
      BY <3>1, <2>3
  <2> QED
    BY <2>1, <2>2, <2>3, <2>4, <2>5 DEF composeID, Scope, apiID, want
<1> QED
  BY <1>1, ObjectInvariant, PTL

(* The id and the identity of an entry import the same object again.       *)
THEOREM EntriesImport == ObjectSpec => []ImportsBack
<1>1. ASSUME ObjectInv PROVE ImportsBack
  <2>1. SUFFICES ASSUME Tracked
                 PROVE  /\ ~importIDProblem(stateId, want)
                        /\ canonicalImportID(stateId, want) = meant
                        /\ idFromIdentity([i \in 1 .. want |-> <<meant[i]>>]) = meant
    BY DEF ImportsBack, want
  <2>2. splitID(stateId, want) = meant /\ meant \in Paths /\ Len(stateId) >= want
    BY <1>1, <2>1 DEF ObjectInv, ObjectTypeOK, TracksWhatWasMeant, Own, Tracked, want
  <2>3. /\ want \in Nat \ {0} /\ stateId \in Seq(Segments \cup {Blank})
        /\ \A i \in 1 .. want : meant[i] # Blank
        /\ meant \in [1 .. want -> Segments]
    BY <1>1, <2>1, <2>2, ShapeFacts, PathFacts DEF ObjectInv, ObjectTypeOK, Paths, want
  <2>4. \A i \in 1 .. want : stateId[i] = meant[i]
    BY <2>2, <2>3 DEF splitID
  <2>5. idFromIdentity([i \in 1 .. want |-> <<meant[i]>>]) = meant
    <3> DEFINE values == [i \in 1 .. want |-> <<meant[i]>>]
    <3>1. DOMAIN values = 1 .. want /\ \A i \in 1 .. want : Len(values[i]) = 1 /\ values[i][1] = meant[i]
      OBVIOUS
    <3> HIDE DEF values
    <3>2. idFromIdentity(values) = [i \in 1 .. want |-> values[i][1]]
      BY <3>1 DEF idFromIdentity
    <3>3. idFromIdentity(values) = meant
      BY <3>1, <3>2, <2>3
    <3> QED
      BY <3>3 DEF values
  <2> QED
    BY <2>2, <2>3, <2>4, <2>5 DEF importIDProblem, canonicalImportID, Splits
<1> QED
  BY <1>1, ObjectInvariant, PTL

(* An entry is dropped only when the backend does not show its object.     *)
THEOREM OnlyGoneIsDropped == ObjectSpec => DropsOnlyWhatIsGone
<1>1. ASSUME ObjectInv, [ObjectNext]_objectVars
      PROVE  [Tracked /\ stateId' = <<>> => meant \notin shown \/ meant \notin objects']_objectVars
  <2>1. SUFFICES ASSUME Tracked, stateId' = <<>>, ObjectNext
                 PROVE  meant \notin shown \/ meant \notin objects'
    BY <1>1
  <2>2. Own = meant
    BY <1>1, <2>1 DEF ObjectInv, TracksWhatWasMeant
  <2>3. CASE ReadDrops
    <3>1. PICK r \in ReadAnswers(Own \in shown) : Verdict(r, Own \in shown) = "gone"
      BY <2>3 DEF ReadDrops
    <3> QED
      BY <3>1, <2>2, GoneFacts
  <2>4. CASE DeleteOk
    <3>1. PICK applied \in BOOLEAN : \E r \in DeleteAnswers(applied) :
            /\ Delete(shape.rules, r) = NoError
            /\ objects' = objects \ Removed(applied)
      BY <2>4 DEF DeleteOk
    <3>2. applied \/ Own \notin objects \/ Own \notin shown
      BY <3>1, DeletedFacts
    <3> QED
      BY <3>1, <3>2, <2>2 DEF Removed
  <2>5. ~Tracked'
    BY <2>1 DEF Tracked
  <2>6. CASE ReadKeeps \/ ReadFails \/ DeleteFails \/ ShowUp \/ Appears \/ Vanishes
    BY <2>1, <2>6 DEF ReadKeeps, ReadFails, DeleteFails, ShowUp, Appears, Vanishes, entryVars, Tracked
  <2>7. CASE CreateOk \/ CreateSeveral \/ CreateFails \/ ImportById \/ ImportByIdentity
    BY <2>1, <2>7 DEF CreateOk, CreateSeveral, CreateFails, ImportById, ImportByIdentity
  <2> QED
    BY <2>1, <2>3, <2>4, <2>6, <2>7 DEF ObjectNext
<1> QED
  BY <1>1, ObjectInvariant, PTL DEF ObjectSpec, DropsOnlyWhatIsGone

(* However an entry came into state, its id and its identity lead to the    *)
(* object that was meant, through calls, lookups and imports.               *)
THEOREM NamesLeadBack == ObjectSpec => []NamesLeadToTheObject
<1>1. TracksWhatWasMeant /\ IdentityNamesTheObject /\ LookupReadsTheSame /\ ImportsBack
        => NamesLeadToTheObject
  BY DEF NamesLeadToTheObject
<1> QED
  BY <1>1, TracksTheObjectMeant, IdentityNames, LookupsAgree, EntriesImport, PTL
=============================================================================
