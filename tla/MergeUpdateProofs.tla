--------------------------- MODULE MergeUpdateProofs ---------------------------
(***************************************************************************)
(* What MergeUpdate keeps, for all attributes, documents, secrets and      *)
(* specs.                                                                  *)
(***************************************************************************)
EXTENDS MergeUpdate, SequenceTheorems, TLAPS

Texts == Seq(STRING)

(* Two prefixes of a path are comparable, and a prefix of a prefix is one. *)
LEMMA PrefixElements ==
    ASSUME NEW p \in Texts, NEW q \in Texts
    PROVE  IsPrefix(p, q) <=> Len(p) <= Len(q) /\ \A i \in 1 .. Len(p) : p[i] = q[i]
<1>1. Len(p) \in Nat /\ Len(q) \in Nat
  BY DEF Texts
<1>2. SubSeq(p, 1, Len(p)) = [i \in 1 .. Len(p) |-> p[i]]
  BY <1>1 DEF Texts
<1>3. SubSeq(q, 1, Len(p)) = [i \in 1 .. Len(p) |-> q[i]]
  BY <1>1 DEF Texts
<1> QED
  BY <1>1, <1>2, <1>3 DEF IsPrefix

(* What follows for incomparable paths. *)
LEMMA PrefixRelations ==
    ASSUME NEW p \in Texts, NEW q \in Texts, NEW r \in Texts
    PROVE  /\ IsPrefix(p, p)
           /\ IsPrefix(p, q) /\ IsPrefix(q, r) => IsPrefix(p, r)
           /\ IsPrefix(p, r) /\ IsPrefix(q, r) => IsPrefix(p, q) \/ IsPrefix(q, p)
<1>1. Len(p) \in Nat /\ Len(q) \in Nat /\ Len(r) \in Nat
  BY DEF Texts
<1> QED
  BY <1>1, PrefixElements

(* The paths of the schema are texts and keep apart. *)
LEMMA PathTypes ==
    /\ LeafPaths \subseteq Texts
    /\ \A a \in Names : Path[a] \in AttrPaths /\ Path[a] \in LeafPaths
    /\ SecretPath \in LeafPaths
    /\ OwnedPaths \subseteq LeafPaths
    /\ AttrPaths \subseteq LeafPaths
    /\ \A p, q \in LeafPaths : p # q => Incomparable(p, q)
  BY PathAssumption DEF LeafPaths, AttrPaths, Texts, Incomparable

(* A leaf is at or below one of these paths at most. *)
LEMMA OneHome ==
    ASSUME NEW p \in LeafPaths, NEW q \in LeafPaths, NEW r \in Texts,
           IsPrefix(p, r), IsPrefix(q, r)
    PROVE  p = q
  BY PathTypes, PrefixRelations DEF Incomparable

(* Leaves below different paths have nothing to do with each other. *)
LEMMA HomesApart ==
    ASSUME NEW p \in LeafPaths, NEW q \in LeafPaths, p # q,
           NEW r \in Texts, NEW s \in Texts, IsPrefix(p, r), IsPrefix(q, s)
    PROVE  Incomparable(r, s)
<1>1. SUFFICES ASSUME IsPrefix(r, s) \/ IsPrefix(s, r) PROVE FALSE
  BY DEF Incomparable
<1>2. CASE IsPrefix(r, s)
  <2>1. IsPrefix(p, s)
    BY <1>2, PathTypes, PrefixRelations
  <2> QED
    BY <2>1, OneHome
<1>3. CASE IsPrefix(s, r)
  <2>1. IsPrefix(q, r)
    BY <1>3, PathTypes, PrefixRelations
  <2> QED
    BY <2>1, OneHome
<1> QED
  BY <1>1, <1>2, <1>3

-----------------------------------------------------------------------------
(* Documents. *)

(* A part holds the leaves of its document at and below the path. *)
LEMMA PartFacts ==
    ASSUME NEW d, NEW p
    PROVE  /\ DOMAIN Part(d, p) = {q \in DOMAIN d : IsPrefix(p, q)}
           /\ \A q \in DOMAIN Part(d, p) : Part(d, p)[q] = d[q]
           /\ Part(d, p) = NoDocument <=> \A q \in DOMAIN d : ~IsPrefix(p, q)
<1>1. /\ DOMAIN Part(d, p) = {q \in DOMAIN d : IsPrefix(p, q)}
      /\ \A q \in DOMAIN Part(d, p) : Part(d, p)[q] = d[q]
  BY DEF Part, Restrict
<1>2. DOMAIN NoDocument = {}
  BY DEF NoDocument
<1>3. ASSUME \A q \in DOMAIN d : ~IsPrefix(p, q)
      PROVE  Part(d, p) = NoDocument
  <2>1. {q \in DOMAIN d : IsPrefix(p, q)} = {}
    BY <1>3
  <2> QED
    BY <2>1 DEF Part, Restrict, NoDocument
<1> QED
  BY <1>1, <1>2, <1>3

(* Deleting takes the leaves at and below the paths and no others. *)
LEMMA DeletePathsFacts ==
    ASSUME NEW d, NEW ps
    PROVE  /\ DOMAIN DeletePaths(d, ps) =
                 {q \in DOMAIN d : \A p \in ps : ~IsPrefix(p, q)}
           /\ \A q \in DOMAIN DeletePaths(d, ps) : DeletePaths(d, ps)[q] = d[q]
  BY DEF DeletePaths, Restrict

(* Two parts are the same when the documents agree below the path. *)
LEMMA SamePart ==
    ASSUME NEW d, NEW e, NEW p,
           \A q : q \in DOMAIN d /\ IsPrefix(p, q) <=> q \in DOMAIN e /\ IsPrefix(p, q),
           \A q \in DOMAIN d : IsPrefix(p, q) => d[q] = e[q]
    PROVE  Part(d, p) = Part(e, p)
<1>1. {q \in DOMAIN d : IsPrefix(p, q)} = {q \in DOMAIN e : IsPrefix(p, q)}
  OBVIOUS
<1> QED
  BY <1>1 DEF Part, Restrict

(* Every leaf of a merged document is of one of the two. *)
LEMMA MergeSources ==
    ASSUME NEW d, NEW s, NEW q \in DOMAIN DeepMergeInto(d, s)
    PROVE  \/ q \in DOMAIN s /\ DeepMergeInto(d, s)[q] = s[q]
           \/ q \in DOMAIN d /\ DeepMergeInto(d, s)[q] = d[q]
  BY DEF DeepMergeInto, IsStrictPrefix

(* What is laid over a document is there afterwards, an empty object where *)
(* nothing was below it. *)
LEMMA MergeLays ==
    ASSUME NEW d, NEW s, NEW q \in DOMAIN s,
           s[q] # Empty \/ \A r \in DOMAIN d : ~IsPrefix(q, r)
    PROVE  q \in DOMAIN DeepMergeInto(d, s) /\ DeepMergeInto(d, s)[q] = s[q]
  BY DEF DeepMergeInto, IsStrictPrefix

(* What has nothing to do with it stays. *)
LEMMA MergeKeeps ==
    ASSUME NEW d, NEW s, NEW q \in DOMAIN d, \A r \in DOMAIN s : Incomparable(q, r), q \notin DOMAIN s
    PROVE  q \in DOMAIN DeepMergeInto(d, s) /\ DeepMergeInto(d, s)[q] = d[q]
  BY DEF DeepMergeInto, IsStrictPrefix, Incomparable

(* A leaf takes the place of whatever was at and below its path. *)
LEMMA MergeReplaces ==
    ASSUME NEW d, NEW s, NEW b \in DOMAIN s, s[b] # Empty,
           NEW q \in DOMAIN DeepMergeInto(d, s), IsPrefix(b, q)
    PROVE  q \in DOMAIN s /\ DeepMergeInto(d, s)[q] = s[q]
  BY DEF DeepMergeInto, IsStrictPrefix

(* Setting a leaf apart from all others adds it and changes nothing else. *)
LEMMA SetPathFacts ==
    ASSUME NEW d, NEW path \in Texts, NEW v, v # Empty,
           \A q \in DOMAIN d : q \in Texts
    PROVE  /\ path \in DOMAIN SetPath(d, path, v)
           /\ SetPath(d, path, v)[path] = v
           /\ \A q \in DOMAIN SetPath(d, path, v) :
                q = path \/ (q \in DOMAIN d /\ ~IsPrefix(path, q) /\ SetPath(d, path, v)[q] = d[q])
           /\ \A q \in DOMAIN d : Incomparable(q, path) =>
                q \in DOMAIN SetPath(d, path, v) /\ SetPath(d, path, v)[q] = d[q]
<1> DEFINE s == [p \in {path} |-> v]
<1>1. DOMAIN s = {path} /\ s[path] = v
  OBVIOUS
<1> HIDE DEF s
<1>2. SetPath(d, path, v) = DeepMergeInto(d, s)
  BY DEF SetPath, s
<1>3. path \in DOMAIN SetPath(d, path, v) /\ SetPath(d, path, v)[path] = v
  BY <1>1, <1>2, MergeLays
<1>4. ASSUME NEW q \in DOMAIN SetPath(d, path, v), q # path
      PROVE  q \in DOMAIN d /\ ~IsPrefix(path, q) /\ SetPath(d, path, v)[q] = d[q]
  BY <1>1, <1>2, <1>4, MergeSources, MergeReplaces
<1>5. ASSUME NEW q \in DOMAIN d, Incomparable(q, path)
      PROVE  q \in DOMAIN SetPath(d, path, v) /\ SetPath(d, path, v)[q] = d[q]
  <2>1. q # path
    BY <1>5, PrefixRelations DEF Incomparable
  <2> QED
    BY <2>1, <1>1, <1>2, <1>5, MergeKeeps
<1> QED
  BY <1>3, <1>4, <1>5

-----------------------------------------------------------------------------
(* Configurations and requests. *)

(* What a configuration is made of. *)
LEMMA ConfigurationFacts ==
    ASSUME NEW c \in Configurations
    PROVE  /\ c.attrs \in AttrValues
           /\ c.password \in Secrets \cup {None}
           /\ c.secret \in Secrets \cup {None}
           /\ c.version \in Versions \cup {None}
           /\ c.secret = None <=> c.version = None
           /\ c.password = None \/ c.secret = None
           /\ \A attrs \in AttrValues : [c EXCEPT !.attrs = attrs] \in Configurations
<1>1. PICK attrs \in AttrValues, args \in SecretArguments : c = Configuration(attrs, args)
  BY DEF Configurations
<1>2. /\ args.password \in Secrets \cup {None}
      /\ args.secret \in Secrets \cup {None}
      /\ args.version \in Versions \cup {None}
      /\ args.secret = None <=> args.version = None
      /\ args.password = None \/ args.secret = None
  BY ValueAssumption, MergeBoundAssumption DEF SecretArguments, Versions
<1>3. /\ c.attrs = attrs /\ c.password = args.password
      /\ c.secret = args.secret /\ c.version = args.version
      /\ \A new \in AttrValues : [c EXCEPT !.attrs = new] = Configuration(new, args)
  BY <1>1 DEF Configuration
<1> QED
  BY <1>1, <1>2, <1>3 DEF Configurations

(* The planned body holds the attributes and the password, and nothing else. *)
LEMMA PlannedFacts ==
    ASSUME NEW attrs \in AttrValues, NEW a \in Names
    PROVE  /\ attrs[a] = [q \in DOMAIN attrs[a] |-> attrs[a][q]]
           /\ \A q \in DOMAIN attrs[a] : q \in Texts /\ IsPrefix(Path[a], q)
<1>1. attrs[a] \in PlannedValues[a]
  BY DEF AttrValues
<1> QED
  BY <1>1, ValueAssumption DEF Texts

(* What is below the path of an attribute in a body is its value. *)
LEMMA BodyFacts ==
    ASSUME NEW attrs,
           \A a \in Names : \A q \in DOMAIN attrs[a] : q \in Texts /\ IsPrefix(Path[a], q),
           NEW password
    PROVE  /\ \A q \in DOMAIN Body(attrs, password) :
                \/ q = SecretPath /\ password # None /\ Body(attrs, password)[q] = password
                \/ \E a \in Names : q \in DOMAIN attrs[a] /\ Body(attrs, password)[q] = attrs[a][q]
           /\ \A a \in Names : \A q \in DOMAIN attrs[a] :
                q \in DOMAIN Body(attrs, password) /\ Body(attrs, password)[q] = attrs[a][q]
           /\ password # None => /\ SecretPath \in DOMAIN Body(attrs, password)
                                 /\ Body(attrs, password)[SecretPath] = password
<1> DEFINE B == Body(attrs, password)
<1>1. ASSUME NEW q
      PROVE  q \in DOMAIN B <=> \/ \E a \in Names : q \in DOMAIN attrs[a]
                                \/ password # None /\ q = SecretPath
  <2>1. DOMAIN B = Leaves(attrs) \cup SecretLeaf(password)
    BY DEF Body
  <2>2. q \in Leaves(attrs) <=> \E a \in Names : q \in DOMAIN attrs[a]
    BY DEF Leaves
  <2>3. q \in SecretLeaf(password) <=> password # None /\ q = SecretPath
    BY DEF SecretLeaf
  <2> HIDE DEF B
  <2> QED
    BY <2>1, <2>2, <2>3
<1>2. \A q \in DOMAIN B :
        B[q] = IF q = SecretPath THEN password ELSE attrs[CHOOSE a \in Names : q \in DOMAIN attrs[a]][q]
  BY DEF Body
<1> HIDE DEF B
<1>3. ASSUME NEW a \in Names, NEW q \in DOMAIN attrs[a]
      PROVE  q # SecretPath /\ (CHOOSE b \in Names : q \in DOMAIN attrs[b]) = a
  <2>1. q # SecretPath
    BY <1>3, PathTypes, PathAssumption, PrefixRelations DEF Incomparable
  <2>2. \A b \in Names : q \in DOMAIN attrs[b] => b = a
    BY <1>3, PathTypes, PathAssumption, OneHome
  <2> QED
    BY <2>1, <2>2
<1>4. \A a \in Names : \A q \in DOMAIN attrs[a] : q \in DOMAIN B /\ B[q] = attrs[a][q]
  BY <1>1, <1>2, <1>3
<1>5. password # None => SecretPath \in DOMAIN B /\ B[SecretPath] = password
  <2>1. ASSUME password # None PROVE SecretPath \in DOMAIN B
    BY <1>1, <2>1
  <2> QED
    BY <2>1, <1>2
<1>6. ASSUME NEW q \in DOMAIN B
      PROVE  \/ q = SecretPath /\ password # None /\ B[q] = password
             \/ \E a \in Names : q \in DOMAIN attrs[a] /\ B[q] = attrs[a][q]
  <2>1. CASE \E a \in Names : q \in DOMAIN attrs[a]
    BY <2>1, <1>4
  <2>2. CASE q = SecretPath /\ password # None
    BY <2>2, <1>5
  <2> QED
    BY <2>1, <2>2, <1>1
<1> QED
  BY <1>4, <1>5, <1>6 DEF B

(* The request adds the secret at most. *)
LEMMA RequestFacts ==
    ASSUME wanted \in Configurations
    PROVE  /\ \A q \in DOMAIN RequestBody :
                \/ /\ q = SecretPath
                   /\ RequestBody[q] \in Secrets
                   /\ RequestBody[q] \in {wanted.password, wanted.secret}
                \/ \E a \in Names : /\ q \in DOMAIN wanted.attrs[a]
                                    /\ RequestBody[q] = wanted.attrs[a][q]
           /\ \A a \in Names : \A q \in DOMAIN wanted.attrs[a] :
                q \in DOMAIN RequestBody /\ RequestBody[q] = wanted.attrs[a][q]
           /\ wanted.password # None => /\ SecretPath \in DOMAIN RequestBody
                                        /\ RequestBody[SecretPath] = wanted.password
           /\ wanted.secret # None /\ writeOnlyVersionChanged =>
                /\ SecretPath \in DOMAIN RequestBody
                /\ RequestBody[SecretPath] = wanted.secret
<1> DEFINE R == RequestBody
<1>0. \A a \in Names : \A q \in DOMAIN wanted.attrs[a] : q \in Texts /\ IsPrefix(Path[a], q)
  BY ConfigurationFacts, PlannedFacts
<1>1. /\ \A q \in DOMAIN PlannedBody :
           \/ q = SecretPath /\ wanted.password # None /\ PlannedBody[q] = wanted.password
           \/ \E a \in Names : q \in DOMAIN wanted.attrs[a] /\ PlannedBody[q] = wanted.attrs[a][q]
      /\ \A a \in Names : \A q \in DOMAIN wanted.attrs[a] :
           q \in DOMAIN PlannedBody /\ PlannedBody[q] = wanted.attrs[a][q]
      /\ wanted.password # None => /\ SecretPath \in DOMAIN PlannedBody
                                   /\ PlannedBody[SecretPath] = wanted.password
  BY <1>0, BodyFacts DEF PlannedBody
<1>2. wanted.password \in Secrets \cup {None} /\ wanted.secret \in Secrets \cup {None}
      /\ (wanted.password = None \/ wanted.secret = None)
  BY ConfigurationFacts
<1>3. CASE wanted.secret # None /\ (writeOnlyVersionChanged \/ spec.always)
  <2>1. R = SetPath(PlannedBody, SecretPath, wanted.secret)
    BY <1>3 DEF RequestBody
  <2>2. wanted.secret # Empty
    BY <1>2, <1>3, ValueAssumption
  <2>3. \A q \in DOMAIN PlannedBody : q \in Texts /\ Incomparable(q, SecretPath)
    <3> SUFFICES ASSUME NEW q \in DOMAIN PlannedBody PROVE q \in Texts /\ Incomparable(q, SecretPath)
      OBVIOUS
    <3>1. PICK a \in Names : q \in DOMAIN wanted.attrs[a]
      BY <1>1, <1>2, <1>3
    <3>2. q \in Texts /\ IsPrefix(Path[a], q)
      BY <3>1, <1>0
    <3> QED
      BY <3>2, PathTypes, PathAssumption, HomesApart, PrefixRelations
  <2>4. /\ SecretPath \in DOMAIN R
        /\ R[SecretPath] = wanted.secret
        /\ \A q \in DOMAIN R : q = SecretPath \/ (q \in DOMAIN PlannedBody /\ R[q] = PlannedBody[q])
        /\ \A q \in DOMAIN PlannedBody : q \in DOMAIN R /\ R[q] = PlannedBody[q]
    BY <2>1, <2>2, <2>3, SetPathFacts, PathTypes
  <2> QED
    BY <2>4, <1>1, <1>2, <1>3
<1>4. CASE ~(wanted.secret # None /\ (writeOnlyVersionChanged \/ spec.always))
  <2>1. R = PlannedBody
    BY <1>4 DEF RequestBody
  <2> QED
    BY <2>1, <1>1, <1>2, <1>4
<1> QED
  BY <1>3, <1>4

-----------------------------------------------------------------------------
(* What the PUT of an update carries, and what the state knows of secrets. *)

RecordLeaves(d) ==
    \A q \in DOMAIN d : q \in Texts /\ \E p \in AttrPaths \cup OwnedPaths : IsPrefix(p, q)

BodyLeaves(d) ==
    \A q \in DOMAIN d : q \in Texts /\ \E p \in AttrPaths \cup {SecretPath} : IsPrefix(p, q)

SentLeaves(d) ==
    \A q \in DOMAIN d :
      \/ q = SecretPath /\ d[q] \in Secrets \cup {Masked}
      \/ q \in Texts /\ \E p \in AttrPaths \cup OwnedPaths : IsPrefix(p, q)

(* An overlaid request: the plan, what only the backend knows, the secret. *)
Overlaid(d) ==
    /\ \A a \in Names : Part(d, Path[a]) = wanted.attrs[a]
    /\ \A p \in OwnedPaths : p \in DOMAIN d /\ (d[p] = owned[p] \/ p \in raced)

CarriesSecret(d) ==
    /\ wanted.password # None => SecretPath \in DOMAIN d /\ d[SecretPath] = wanted.password
    /\ wanted.secret # None /\ SecretPath \in DOMAIN d =>
         d[SecretPath] \in {Masked, secret, wanted.secret}
    /\ wanted.secret # None /\ writeOnlyVersionChanged =>
         SecretPath \in DOMAIN d /\ d[SecretPath] = wanted.secret
    /\ spec.resend /\ wanted.secret # None => SecretPath \in DOMAIN d

SentOK ==
    /\ stage = "read" => spec.merges /\ sent = RequestBody
    /\ stage = "put" => /\ SentLeaves(sent)
                        /\ spec.merges => Overlaid(sent)
                        /\ ~spec.merges => BodyLeaves(sent)
                        /\ CarriesSecret(sent)

SavedOK ==
    /\ \A a \in Names : savedAttrs[a] = [q \in DOMAIN savedAttrs[a] |-> savedAttrs[a][q]]
    /\ savedVersion # None => savedVersion <= lastVersion
    /\ wanted.version # None => wanted.version <= lastVersion

(* A secret the state has the version of, and a password it has, are the   *)
(* ones stored. *)
SecretKnown ==
    /\ disciplined /\ wanted.secret # None /\ savedVersion = wanted.version =>
         secret = wanted.secret
    /\ ~unsure /\ savedPassword \in Secrets => secret = savedPassword

MergeInv ==
    /\ MergeTypeOK
    /\ UnmodelledKept
    /\ SavedIsStored
    /\ SecretStaysOutOfState
    /\ SentOK
    /\ SavedOK
    /\ SecretKnown

(* The record has no leaf near the secret. *)
LEMMA RecordApart ==
    ASSUME NEW d, RecordLeaves(d), NEW q \in DOMAIN d
    PROVE  q \in Texts /\ Incomparable(q, SecretPath) /\ q # SecretPath
<1>1. PICK p \in AttrPaths \cup OwnedPaths : IsPrefix(p, q) /\ q \in Texts
  BY DEF RecordLeaves
<1>2. p \in LeafPaths /\ p # SecretPath /\ SecretPath \in Texts
  BY PathTypes, PathAssumption
<1>3. Incomparable(q, SecretPath)
  BY <1>1, <1>2, PathTypes, HomesApart, PrefixRelations
<1> QED
  BY <1>1, <1>2, <1>3, PrefixRelations DEF Incomparable

(* A reply is the record, with the secret as the backend shows it. *)
LEMMA ReplyFacts ==
    ASSUME RecordLeaves(record), secret \in Secrets \cup {None},
           echo \in {"plain", "masked", "omitted"}
    PROVE  /\ \A q \in DOMAIN Reply :
                \/ q \in DOMAIN record /\ Reply[q] = record[q]
                \/ q = SecretPath /\ secret # None /\ Reply[q] \in {Masked, secret}
           /\ \A q \in DOMAIN record : q \in DOMAIN Reply /\ Reply[q] = record[q]
           /\ secret = None \/ echo = "omitted" => SecretPath \notin DOMAIN Reply
           /\ secret # None /\ echo = "plain" =>
                SecretPath \in DOMAIN Reply /\ Reply[SecretPath] = secret
           /\ SecretPath \in DOMAIN Reply => Reply[SecretPath] \in {Masked, secret}
<1>1. \A q \in DOMAIN record : q \in Texts /\ Incomparable(q, SecretPath) /\ q # SecretPath
  BY RecordApart
<1>2. SecretPath \in Texts
  BY PathTypes
<1>3. CASE secret = None \/ echo = "omitted"
  <2>1. Reply = record
    BY <1>3 DEF Reply
  <2> QED
    BY <2>1, <1>1, <1>3
<1>4. ASSUME NEW v \in {Masked, secret}, v # Empty, Reply = SetPath(record, SecretPath, v)
      PROVE  /\ \A q \in DOMAIN Reply :
                  \/ q \in DOMAIN record /\ Reply[q] = record[q]
                  \/ q = SecretPath /\ Reply[q] = v
             /\ \A q \in DOMAIN record : q \in DOMAIN Reply /\ Reply[q] = record[q]
             /\ SecretPath \in DOMAIN Reply /\ Reply[SecretPath] = v
  BY <1>1, <1>2, <1>4, SetPathFacts
<1>5. CASE secret # None /\ echo = "masked"
  <2>1. Reply = SetPath(record, SecretPath, Masked) /\ Masked # Empty
    BY <1>5, ValueAssumption DEF Reply
  <2> QED
    BY <2>1, <1>4, <1>5
<1>6. CASE secret # None /\ echo = "plain"
  <2>1. Reply = SetPath(record, SecretPath, secret) /\ secret # Empty
    BY <1>6, ValueAssumption DEF Reply
  <2> QED
    BY <2>1, <1>4, <1>6
<1> QED
  BY <1>3, <1>5, <1>6

(* What a reply shows of the attributes is what is stored. *)
LEMMA ReplyAttributes ==
    ASSUME RecordLeaves(record), secret \in Secrets \cup {None},
           echo \in {"plain", "masked", "omitted"}, NEW a \in Names
    PROVE  Part(Reply, Path[a]) = Part(record, Path[a])
<1>1. ~IsPrefix(Path[a], SecretPath)
  BY PathTypes, PathAssumption DEF Incomparable
<1>2. \A q : q \in DOMAIN Reply /\ IsPrefix(Path[a], q) <=>
             q \in DOMAIN record /\ IsPrefix(Path[a], q)
  BY <1>1, ReplyFacts
<1>3. \A q \in DOMAIN Reply : IsPrefix(Path[a], q) => Reply[q] = record[q]
  BY <1>1, ReplyFacts
<1> QED
  BY <1>2, <1>3, SamePart

(* The current record with the write-only secret where it does not show it. *)
LEMMA ResentFacts ==
    ASSUME wanted \in Configurations, NEW d, \A q \in DOMAIN d : q \in Texts,
           \A q \in DOMAIN d : IsPrefix(SecretPath, q) => q = SecretPath
    PROVE  /\ \A q \in DOMAIN resendOmittedWriteOnly(d) :
                \/ q \in DOMAIN d /\ resendOmittedWriteOnly(d)[q] = d[q]
                \/ /\ q = SecretPath /\ wanted.secret # None
                   /\ resendOmittedWriteOnly(d)[q] = wanted.secret
           /\ \A q \in DOMAIN d : Incomparable(q, SecretPath) =>
                q \in DOMAIN resendOmittedWriteOnly(d) /\ resendOmittedWriteOnly(d)[q] = d[q]
           /\ spec.resend /\ wanted.secret # None =>
                SecretPath \in DOMAIN resendOmittedWriteOnly(d)
<1> DEFINE K == resendOmittedWriteOnly(d)
           Unseen == \A q \in DOMAIN Part(d, SecretPath) : d[q] = Masked
<1>1. wanted.secret \in Secrets \cup {None} /\ (wanted.secret # None <=> wanted.version # None)
  BY ConfigurationFacts
<1>2. CASE spec.resend /\ wanted.version # None /\ Unseen
  <2>1. K = SetPath(d, SecretPath, wanted.secret) /\ wanted.secret # Empty
    BY <1>1, <1>2, ValueAssumption DEF resendOmittedWriteOnly, writeOnlyInUse
  <2>2. SecretPath \in Texts
    BY PathTypes
  <2> HIDE DEF K, Unseen
  <2> QED
    BY <1>1, <1>2, <2>1, <2>2, SetPathFacts DEF K
<1>3. CASE ~(spec.resend /\ wanted.version # None /\ Unseen)
  <2>1. K = d
    BY <1>3 DEF resendOmittedWriteOnly, writeOnlyInUse
  <2>2. ~Unseen => SecretPath \in DOMAIN d
    BY PartFacts
  <2> HIDE DEF K, Unseen
  <2> QED
    BY <1>1, <1>3, <2>1, <2>2 DEF K
<1> QED
  BY <1>2, <1>3

(* The merged request: the planned leaves, the record's others, the secret. *)
LEMMA OverlayFacts ==
    ASSUME MergeInv, stage = "read"
    PROVE  LET R == mergeIntoCurrent(Reply, sent)
           IN SentLeaves(R) /\ Overlaid(R) /\ CarriesSecret(R)
<1> DEFINE body == RequestBody
           D == DeletePaths(Reply, Cleared)
           K == resendOmittedWriteOnly(D)
           replaced == {p \in AttrPaths \cup {SecretPath} : Part(body, p) # NoDocument}
           L == DeletePaths(K, replaced)
           R == DeepMergeInto(L, body)
<1>1. wanted \in Configurations /\ secret \in Secrets \cup {None}
      /\ echo \in {"plain", "masked", "omitted"} /\ RecordLeaves(record)
      /\ sent = RequestBody /\ SecretPath \in Texts
  BY PathTypes DEF MergeInv, MergeTypeOK, RecordLeaves, SentOK, Texts
<1>2. mergeIntoCurrent(Reply, sent) = R
  BY <1>1 DEF mergeIntoCurrent
<1>3. /\ DOMAIN D = {q \in DOMAIN Reply : \A p \in Cleared : ~IsPrefix(p, q)}
      /\ \A q \in DOMAIN D : D[q] = Reply[q]
  BY DeletePathsFacts
<1>4. \A q \in DOMAIN record : q \in Texts /\ Incomparable(q, SecretPath) /\ q # SecretPath
  BY <1>1, RecordApart
<1>5. \A q \in DOMAIN D : q \in Texts /\ (IsPrefix(SecretPath, q) => q = SecretPath)
  BY <1>1, <1>3, <1>4, ReplyFacts DEF Incomparable
<1>6. /\ DOMAIN L = {q \in DOMAIN K : \A p \in replaced : ~IsPrefix(p, q)}
      /\ \A q \in DOMAIN L : L[q] = K[q]
  BY DeletePathsFacts
<1>8. /\ \A q \in DOMAIN body :
           \/ /\ q = SecretPath
              /\ body[q] \in Secrets
              /\ body[q] \in {wanted.password, wanted.secret}
           \/ \E a \in Names : q \in DOMAIN wanted.attrs[a] /\ body[q] = wanted.attrs[a][q]
      /\ \A a \in Names : \A q \in DOMAIN wanted.attrs[a] :
           q \in DOMAIN body /\ body[q] = wanted.attrs[a][q]
      /\ wanted.password # None => SecretPath \in DOMAIN body /\ body[SecretPath] = wanted.password
      /\ wanted.secret # None /\ writeOnlyVersionChanged =>
           SecretPath \in DOMAIN body /\ body[SecretPath] = wanted.secret
  BY <1>1, RequestFacts
<1>9. \A a \in Names :
        /\ wanted.attrs[a] = [q \in DOMAIN wanted.attrs[a] |-> wanted.attrs[a][q]]
        /\ \A q \in DOMAIN wanted.attrs[a] : q \in Texts /\ IsPrefix(Path[a], q)
  BY <1>1, ConfigurationFacts, PlannedFacts
<1>10. /\ \A q \in DOMAIN K :
            \/ q \in DOMAIN D /\ K[q] = D[q]
            \/ q = SecretPath /\ wanted.secret # None /\ K[q] = wanted.secret
       /\ \A q \in DOMAIN D : Incomparable(q, SecretPath) => q \in DOMAIN K /\ K[q] = D[q]
       /\ spec.resend /\ wanted.secret # None => SecretPath \in DOMAIN K
  BY <1>1, <1>5, ResentFacts
<1>11. \A q \in DOMAIN R : \/ q \in DOMAIN body /\ R[q] = body[q]
                           \/ q \in DOMAIN L /\ R[q] = L[q]
  BY MergeSources
<1>12. \A q \in DOMAIN body : body[q] # Empty \/ (\A r \in DOMAIN L : ~IsPrefix(q, r)) =>
         q \in DOMAIN R /\ R[q] = body[q]
  BY MergeLays
<1>13. \A q \in DOMAIN L : (\A r \in DOMAIN body : Incomparable(q, r)) /\ q \notin DOMAIN body =>
         q \in DOMAIN R /\ R[q] = L[q]
  BY MergeKeeps
<1>14. \A p \in AttrPaths \cup {SecretPath} :
         p \in replaced <=> \E q \in DOMAIN body : IsPrefix(p, q)
  BY PartFacts
<1> HIDE DEF body, D, K, replaced, L, R
<1>15. wanted.password \in Secrets \cup {None} /\ wanted.secret \in Secrets \cup {None}
       /\ (wanted.password = None \/ wanted.secret = None)
       /\ None \notin Secrets
  BY <1>1, ConfigurationFacts, ValueAssumption
<1>7. \A a \in Names : SecretPath \notin DOMAIN wanted.attrs[a]
  <2> SUFFICES ASSUME NEW a \in Names, SecretPath \in DOMAIN wanted.attrs[a] PROVE FALSE
    OBVIOUS
  <2>1. IsPrefix(Path[a], SecretPath) /\ Path[a] # SecretPath
    BY <1>9, PathTypes, PathAssumption
  <2> QED
    BY <2>1, PathTypes DEF Incomparable
<1>16. SentLeaves(R)
  <2> SUFFICES ASSUME NEW q \in DOMAIN R
               PROVE  \/ q = SecretPath /\ R[q] \in Secrets \cup {Masked}
                      \/ q \in Texts /\ \E p \in AttrPaths \cup OwnedPaths : IsPrefix(p, q)
    BY DEF SentLeaves
  <2>1. CASE q \in DOMAIN body /\ R[q] = body[q]
    BY <2>1, <1>8, <1>9, PathTypes
  <2>2. CASE q \in DOMAIN L /\ R[q] = L[q]
    <3>1. \/ q \in DOMAIN Reply /\ R[q] = Reply[q]
          \/ q = SecretPath /\ R[q] \in Secrets
      BY <2>2, <1>3, <1>6, <1>10, <1>15
    <3> QED
      BY <3>1, <1>1, ReplyFacts DEF RecordLeaves
  <2> QED
    BY <2>1, <2>2, <1>11
<1>17. ASSUME NEW a \in Names PROVE Part(R, Path[a]) = wanted.attrs[a]
  <2>1. ~IsPrefix(Path[a], SecretPath) /\ Path[a] \in AttrPaths /\ Path[a] \in LeafPaths
    BY PathTypes, PathAssumption DEF Incomparable
  <2>2. \A q \in DOMAIN body : IsPrefix(Path[a], q) =>
          q \in DOMAIN wanted.attrs[a] /\ body[q] = wanted.attrs[a][q]
    <3> SUFFICES ASSUME NEW q \in DOMAIN body, IsPrefix(Path[a], q)
                 PROVE  q \in DOMAIN wanted.attrs[a] /\ body[q] = wanted.attrs[a][q]
      OBVIOUS
    <3>1. PICK b \in Names : q \in DOMAIN wanted.attrs[b] /\ body[q] = wanted.attrs[b][q]
      BY <1>8, <2>1
    <3>2. Path[b] = Path[a]
      BY <3>1, <1>9, PathTypes, OneHome
    <3>3. a = b
      BY <3>2, PathAssumption
    <3> QED
      BY <3>1, <3>3
  <2>3. \A q \in DOMAIN L : ~IsPrefix(Path[a], q)
    <3> SUFFICES ASSUME NEW q \in DOMAIN L, IsPrefix(Path[a], q) PROVE FALSE
      OBVIOUS
    <3>1. Path[a] \notin replaced
      BY <1>6
    <3>2. \A r \in DOMAIN body : ~IsPrefix(Path[a], r)
      BY <3>1, <2>1, <1>14
    <3>3. DOMAIN wanted.attrs[a] = {}
      BY <3>2, <1>8, <1>9
    <3>4. wanted.attrs[a] = NoDocument
      BY <3>3, <1>9 DEF NoDocument
    <3>5. Path[a] \in Cleared
      BY <3>4 DEF Cleared
    <3>6. q \in DOMAIN D
      BY <1>6, <1>10, <2>1
    <3> QED
      BY <3>5, <3>6, <1>3
  <2>4. \A q \in DOMAIN R : IsPrefix(Path[a], q) =>
          q \in DOMAIN wanted.attrs[a] /\ R[q] = wanted.attrs[a][q]
    BY <2>2, <2>3, <1>11
  <2>5. \A q \in DOMAIN wanted.attrs[a] : q \in DOMAIN R /\ IsPrefix(Path[a], q)
    <3> SUFFICES ASSUME NEW q \in DOMAIN wanted.attrs[a]
                 PROVE  q \in DOMAIN R /\ IsPrefix(Path[a], q)
      OBVIOUS
    <3>1. q \in DOMAIN body /\ q \in Texts /\ IsPrefix(Path[a], q)
      BY <1>8, <1>9
    <3>2. \A r \in DOMAIN L : r \in Texts
      BY <1>5, <1>6, <1>10, <1>1
    <3>3. \A r \in DOMAIN L : ~IsPrefix(q, r)
      BY <3>1, <3>2, <2>1, <2>3, PathTypes, PrefixRelations
    <3> QED
      BY <3>1, <3>3, <1>12
  <2>6. {q \in DOMAIN R : IsPrefix(Path[a], q)} = DOMAIN wanted.attrs[a]
    BY <2>4, <2>5
  <2>7. Part(R, Path[a]) = [q \in DOMAIN wanted.attrs[a] |-> R[q]]
    BY <2>6 DEF Part, Restrict
  <2>8. \A q \in DOMAIN wanted.attrs[a] : R[q] = wanted.attrs[a][q]
    BY <2>4, <2>5
  <2> QED
    BY <2>7, <2>8, <1>9
<1>18. ASSUME NEW p \in OwnedPaths PROVE p \in DOMAIN R /\ (R[p] = owned[p] \/ p \in raced)
  <2>1. p \in DOMAIN Reply /\ (Reply[p] = owned[p] \/ p \in raced) /\ p \in DOMAIN record
    BY <1>1, ReplyFacts DEF MergeInv, UnmodelledKept
  <2>2. p \in LeafPaths /\ p \in Texts /\ p \notin AttrPaths \cup {SecretPath} /\ IsPrefix(p, p)
    BY PathTypes, PathAssumption, PrefixRelations
  <2>3. \A r \in AttrPaths \cup {SecretPath} : Incomparable(p, r) /\ r \in LeafPaths
    BY <2>2, PathTypes DEF Incomparable
  <2>4. Cleared \subseteq AttrPaths \cup {SecretPath} /\ replaced \subseteq AttrPaths \cup {SecretPath}
    BY PathTypes DEF Cleared, replaced
  <2>5. p \in DOMAIN D /\ D[p] = Reply[p]
    BY <1>3, <2>1, <2>3, <2>4 DEF Incomparable
  <2>6. p \in DOMAIN K /\ K[p] = Reply[p]
    BY <2>5, <2>3, <1>10
  <2>7. p \in DOMAIN L /\ L[p] = Reply[p]
    BY <2>6, <1>6, <2>3, <2>4 DEF Incomparable
  <2>8. \A r \in DOMAIN body : Incomparable(p, r) /\ r # p
    <3> SUFFICES ASSUME NEW r \in DOMAIN body PROVE Incomparable(p, r)
      BY <2>2 DEF Incomparable
    <3>1. CASE r = SecretPath
      BY <3>1, <2>3
    <3>2. CASE \E a \in Names : r \in DOMAIN wanted.attrs[a]
      <4>1. PICK a \in Names : r \in DOMAIN wanted.attrs[a]
        BY <3>2
      <4>2. r \in Texts /\ IsPrefix(Path[a], r) /\ Path[a] \in AttrPaths /\ Path[a] # p
        BY <4>1, <1>9, <2>2, PathTypes
      <4> QED
        BY <4>2, <2>2, <2>3, HomesApart
    <3> QED
      BY <3>1, <3>2, <1>8
  <2> QED
    BY <2>1, <2>7, <2>8, <1>13
<1>19. CarriesSecret(R)
  <2>1. ASSUME SecretPath \in DOMAIN body
        PROVE  SecretPath \in DOMAIN R /\ R[SecretPath] = body[SecretPath]
    <3>1. body[SecretPath] \in Secrets
      BY <2>1, <1>7, <1>8
    <3> QED
      BY <2>1, <3>1, <1>12, ValueAssumption
  <2>2. ASSUME SecretPath \in DOMAIN R, wanted.secret # None
        PROVE  R[SecretPath] \in {Masked, secret, wanted.secret}
    <3>1. CASE SecretPath \in DOMAIN body /\ R[SecretPath] = body[SecretPath]
      BY <3>1, <2>2, <1>7, <1>8, <1>15
    <3>2. CASE SecretPath \in DOMAIN L /\ R[SecretPath] = L[SecretPath]
      BY <3>2, <1>1, <1>3, <1>6, <1>10, ReplyFacts
    <3> QED
      BY <3>1, <3>2, <2>2, <1>11
  <2>3. ASSUME spec.resend, wanted.secret # None PROVE SecretPath \in DOMAIN R
    <3>1. CASE SecretPath \in DOMAIN body
      BY <3>1, <2>1
    <3>2. CASE SecretPath \notin DOMAIN body
      <4>1. SecretPath \in DOMAIN K
        BY <2>3, <1>10
      <4>2. \A r \in DOMAIN body : Incomparable(SecretPath, r)
        <5> SUFFICES ASSUME NEW r \in DOMAIN body PROVE Incomparable(SecretPath, r)
          OBVIOUS
        <5>1. PICK a \in Names : r \in DOMAIN wanted.attrs[a]
          BY <3>2, <1>8
        <5>2. r \in Texts /\ IsPrefix(Path[a], r) /\ Path[a] # SecretPath
          BY <5>1, <1>9, PathTypes, PathAssumption
        <5>3. IsPrefix(SecretPath, SecretPath)
          BY <1>1, PrefixRelations
        <5> QED
          BY <5>2, <5>3, <1>1, PathTypes, HomesApart
      <4>3. \A r \in replaced : ~IsPrefix(r, SecretPath)
        <5> SUFFICES ASSUME NEW r \in replaced PROVE ~IsPrefix(r, SecretPath)
          OBVIOUS
        <5>1. r \in AttrPaths \cup {SecretPath}
          BY DEF replaced
        <5>2. r # SecretPath
          BY <4>2, <1>14 DEF Incomparable
        <5> QED
          BY <5>1, <5>2, PathTypes DEF Incomparable
      <4>4. SecretPath \in DOMAIN L
        BY <4>1, <4>3, <1>6
      <4> QED
        BY <4>2, <4>4, <3>2, <1>13
    <3> QED
      BY <3>1, <3>2
  <2> QED
    BY <2>1, <2>2, <2>3, <1>8 DEF CarriesSecret
<1> QED
  BY <1>2, <1>16, <1>17, <1>18, <1>19 DEF Overlaid

-----------------------------------------------------------------------------
(* The steps. *)

(* What a PUT leaves in the record, for both kinds of backend. *)
LEMMA StoreFacts ==
    ASSUME MergeInv, stage = "put", Store
    PROVE  /\ RecordLeaves(record')
           /\ secret' \in Secrets \cup {None}
           /\ echo' = echo
           /\ \A p \in OwnedPaths : p \in DOMAIN record' /\ (record'[p] = owned[p] \/ p \in raced)
           /\ spec.merges => \A a \in Names : Part(record', Path[a]) = wanted.attrs[a]
           /\ wanted.password # None => secret' = wanted.password
           /\ disciplined /\ wanted.secret # None
                /\ (writeOnlyVersionChanged \/ savedVersion = wanted.version) =>
                secret' = wanted.secret
<1> DEFINE rest == DeletePaths(sent, {SecretPath})
<1>1. /\ SentLeaves(sent) /\ CarriesSecret(sent)
      /\ spec.merges => Overlaid(sent)
      /\ ~spec.merges => BodyLeaves(sent)
  BY DEF MergeInv, SentOK
<1>2. /\ wanted \in Configurations /\ secret \in Secrets \cup {None}
      /\ spec \in Specs /\ RecordLeaves(record)
  BY DEF MergeInv, MergeTypeOK, RecordLeaves, Texts
<1>3. /\ wanted.password \in Secrets \cup {None} /\ wanted.secret \in Secrets \cup {None}
      /\ (wanted.password = None \/ wanted.secret = None)
      /\ None \notin Secrets /\ Masked \notin Secrets
  BY <1>2, ConfigurationFacts, ValueAssumption
<1>4. /\ DOMAIN rest = {q \in DOMAIN sent : ~IsPrefix(SecretPath, q)}
      /\ \A q \in DOMAIN rest : rest[q] = sent[q]
  <2>1. DOMAIN rest = {q \in DOMAIN sent : \A p \in {SecretPath} : ~IsPrefix(p, q)}
        /\ \A q \in DOMAIN rest : rest[q] = sent[q]
    BY DeletePathsFacts
  <2> HIDE DEF rest
  <2> QED
    BY <2>1
<1>5. record' = IF spec.merges THEN rest ELSE DeepMergeInto(record, rest)
  BY DEF Store
<1> HIDE DEF rest
<1>6. SecretPath \in Texts /\ IsPrefix(SecretPath, SecretPath)
  BY PathTypes, PrefixRelations
<1>7. \A q \in DOMAIN rest : q \in Texts /\ \E p \in AttrPaths \cup OwnedPaths : IsPrefix(p, q)
  BY <1>1, <1>4, <1>6 DEF SentLeaves
<1>8. ASSUME ~spec.merges, NEW q \in DOMAIN rest
      PROVE  \E p \in AttrPaths : IsPrefix(p, q)
  BY <1>1, <1>4, <1>8 DEF BodyLeaves
<1>9. RecordLeaves(record')
  <2>1. CASE spec.merges
    BY <2>1, <1>5, <1>7 DEF RecordLeaves
  <2>2. CASE ~spec.merges
    <3>1. record' = DeepMergeInto(record, rest)
      BY <2>2, <1>5
    <3>2. \A q \in DOMAIN record' : q \in DOMAIN rest \/ q \in DOMAIN record
      BY <3>1, MergeSources
    <3> QED
      BY <3>2, <1>2, <1>7 DEF RecordLeaves
  <2> QED
    BY <2>1, <2>2
<1>10. ASSUME NEW p \in OwnedPaths
       PROVE  p \in DOMAIN record' /\ (record'[p] = owned[p] \/ p \in raced)
  <2>1. p \in LeafPaths /\ p \in Texts /\ p \notin AttrPaths \cup {SecretPath} /\ IsPrefix(p, p)
    BY PathTypes, PathAssumption, PrefixRelations
  <2>2. CASE spec.merges
    <3>1. p \in DOMAIN sent /\ (sent[p] = owned[p] \/ p \in raced)
      BY <2>2, <1>1 DEF Overlaid
    <3>2. ~IsPrefix(SecretPath, p)
      BY <2>1, PathTypes DEF Incomparable
    <3> QED
      BY <3>1, <3>2, <2>2, <1>4, <1>5
  <2>3. CASE ~spec.merges
    <3>1. p \in DOMAIN record /\ (record[p] = owned[p] \/ p \in raced)
      BY DEF MergeInv, UnmodelledKept
    <3>2. \A r \in DOMAIN rest : Incomparable(p, r)
      <4> SUFFICES ASSUME NEW r \in DOMAIN rest PROVE Incomparable(p, r)
        OBVIOUS
      <4>1. PICK h \in AttrPaths : IsPrefix(h, r) /\ r \in Texts
        BY <2>3, <1>7, <1>8
      <4>2. h \in LeafPaths /\ h # p
        BY <2>1, PathTypes
      <4> QED
        BY <4>1, <4>2, <2>1, HomesApart
    <3>3. p \notin DOMAIN rest
      BY <3>2, <2>1 DEF Incomparable
    <3>4. p \in DOMAIN DeepMergeInto(record, rest) /\ DeepMergeInto(record, rest)[p] = record[p]
      BY <3>1, <3>2, <3>3, MergeKeeps
    <3> QED
      BY <3>1, <3>4, <2>3, <1>5
  <2> QED
    BY <2>2, <2>3
<1>11. ASSUME spec.merges, NEW a \in Names PROVE Part(record', Path[a]) = wanted.attrs[a]
  <2>1. Path[a] \in LeafPaths /\ Path[a] # SecretPath
    BY PathTypes, PathAssumption
  <2>2. ~IsPrefix(Path[a], SecretPath)
    BY <2>1, PathTypes DEF Incomparable
  <2>3. \A q \in DOMAIN sent : IsPrefix(Path[a], q) => ~IsPrefix(SecretPath, q)
    BY <2>1, <2>2, <1>1, PathTypes, OneHome DEF SentLeaves
  <2>4. Part(rest, Path[a]) = Part(sent, Path[a])
    BY <2>3, <1>4, SamePart
  <2> QED
    BY <2>4, <1>1, <1>5, <1>11 DEF Overlaid
<1>12. Part(sent, SecretPath) = NoDocument <=> SecretPath \notin DOMAIN sent
  <2>1. ASSUME NEW q \in DOMAIN sent, IsPrefix(SecretPath, q) PROVE q = SecretPath
    <3>1. CASE q \in Texts /\ \E p \in AttrPaths \cup OwnedPaths : IsPrefix(p, q)
      <4>1. PICK p \in AttrPaths \cup OwnedPaths : IsPrefix(p, q)
        BY <3>1
      <4>2. p \in LeafPaths /\ p # SecretPath
        BY PathTypes, PathAssumption
      <4> QED
        BY <4>1, <4>2, <3>1, <2>1, PathTypes, OneHome
    <3> QED
      BY <3>1, <1>1 DEF SentLeaves
  <2> QED
    BY <2>1, <1>6, PartFacts
<1>13. CASE SecretPath \in DOMAIN sent
  <2>1. secret' = IF sent[SecretPath] = Masked THEN secret ELSE sent[SecretPath]
    BY <1>12, <1>13 DEF Store
  <2>2. sent[SecretPath] \in Secrets \cup {Masked}
    <3>1. \A p \in AttrPaths \cup OwnedPaths : ~IsPrefix(p, SecretPath)
      BY PathTypes, PathAssumption DEF Incomparable
    <3> QED
      BY <3>1, <1>1, <1>13 DEF SentLeaves
  <2>3. wanted.password # None => secret' = wanted.password
    BY <2>1, <1>1, <1>3 DEF CarriesSecret
  <2>4. ASSUME disciplined, wanted.secret # None,
               writeOnlyVersionChanged \/ savedVersion = wanted.version
        PROVE  secret' = wanted.secret
    <3>1. CASE writeOnlyVersionChanged
      BY <3>1, <2>1, <2>4, <1>1, <1>3 DEF CarriesSecret
    <3>2. CASE savedVersion = wanted.version
      <4>1. secret = wanted.secret
        BY <3>2, <2>4 DEF MergeInv, SecretKnown
      <4>2. sent[SecretPath] \in {Masked, secret, wanted.secret}
        BY <2>4, <1>1, <1>13 DEF CarriesSecret
      <4> QED
        BY <4>1, <4>2, <2>1
    <3> QED
      BY <3>1, <3>2, <2>4
  <2>5. secret' \in Secrets \cup {None}
    BY <2>1, <2>2, <1>2
  <2> QED
    BY <2>3, <2>4, <2>5, <1>9, <1>10, <1>11 DEF Store
<1>14. CASE SecretPath \notin DOMAIN sent
  <2>1. \/ secret' = secret
        \/ spec.merges /\ ~spec.command /\ secret' = None
    BY <1>12, <1>14 DEF Store
  <2>2. wanted.password = None
    BY <1>1, <1>14 DEF CarriesSecret
  <2>3. ASSUME disciplined, wanted.secret # None,
               writeOnlyVersionChanged \/ savedVersion = wanted.version
        PROVE  secret' = wanted.secret
    <3>1. ~spec.resend /\ savedVersion = wanted.version
      BY <2>3, <1>1, <1>14 DEF CarriesSecret
    <3>2. ~(spec.merges /\ ~spec.command)
      BY <3>1, <1>2, MergeSpecAssumption
    <3> QED
      BY <3>1, <3>2, <2>1, <2>3 DEF MergeInv, SecretKnown
  <2> QED
    BY <2>1, <2>2, <2>3, <1>2, <1>9, <1>10, <1>11 DEF Store
<1> QED
  BY <1>13, <1>14

(* Nothing but what is sent and the stage changes: the rest stays true. *)
mergeRest == <<spec, mergeBackend, wanted, savedState, mergeHistory>>

(* What no step but edits and calls touches. *)
LEMMA RestKept ==
    ASSUME MergeInv, UNCHANGED mergeRest, SentOK',
           stage' \in {"idle", "read", "put"}, stage' = "idle" => sent' = NoDocument
    PROVE  MergeInv'
<1> USE DEF mergeRest, mergeBackend, savedState, mergeHistory
<1>1. MergeTypeOK'
  BY DEF MergeInv, MergeTypeOK
<1>2. UnmodelledKept' /\ SavedIsStored' /\ SecretStaysOutOfState' /\ SavedOK' /\ SecretKnown'
  BY DEF MergeInv, UnmodelledKept, SavedIsStored, SecretStaysOutOfState, SavedOK, SecretKnown
<1> QED
  BY <1>1, <1>2 DEF MergeInv

(* One lemma for each action: the invariant holds after it. *)
LEMMA StartUpdateKeeps == ASSUME MergeInv, StartUpdate PROVE MergeInv'
<1>1. UNCHANGED mergeRest /\ stage' = (IF spec.merges THEN "read" ELSE "put") /\ sent' = RequestBody
  BY DEF StartUpdate, mergeRest
<1>2. wanted \in Configurations /\ spec \in Specs
  BY DEF MergeInv, MergeTypeOK
<1>3. /\ wanted.password \in Secrets \cup {None} /\ wanted.secret \in Secrets \cup {None}
      /\ (wanted.password = None \/ wanted.secret = None)
      /\ None \notin Secrets
  BY <1>2, ConfigurationFacts, ValueAssumption
<1>4. \A q \in DOMAIN RequestBody :
        \/ q = SecretPath /\ RequestBody[q] \in Secrets /\ RequestBody[q] \in {wanted.password, wanted.secret}
        \/ /\ q # SecretPath /\ q \in Texts
           /\ \E a \in Names : IsPrefix(Path[a], q)
  <2> SUFFICES ASSUME NEW q \in DOMAIN RequestBody,
                      NEW a \in Names, q \in DOMAIN wanted.attrs[a]
               PROVE  q # SecretPath /\ q \in Texts /\ IsPrefix(Path[a], q)
    BY <1>2, RequestFacts
  <2>1. q \in Texts /\ IsPrefix(Path[a], q)
    BY <1>2, ConfigurationFacts, PlannedFacts
  <2>2. ~IsPrefix(Path[a], SecretPath)
    BY PathTypes, PathAssumption DEF Incomparable
  <2> QED
    BY <2>1, <2>2
<1>5. SentLeaves(RequestBody)
  BY <1>4, PathTypes DEF SentLeaves
<1>6. BodyLeaves(RequestBody)
  BY <1>4, PathTypes, PrefixRelations DEF BodyLeaves
<1>7. ASSUME ~spec.merges PROVE CarriesSecret(RequestBody)
  <2>1. ~spec.resend
    BY <1>2, <1>7, MergeSpecAssumption
  <2>2. SecretPath \in DOMAIN RequestBody => RequestBody[SecretPath] \in {wanted.password, wanted.secret} \cap Secrets
    BY <1>4
  <2> QED
    BY <2>1, <2>2, <1>2, <1>3, RequestFacts DEF CarriesSecret
<1>8. SentOK'
  <2>1. CASE spec.merges
    <3>1. RequestBody' = RequestBody
      BY <1>1 DEF RequestBody, PlannedBody, writeOnlyVersionChanged, mergeRest, savedState
    <3> QED
      BY <2>1, <3>1, <1>1 DEF SentOK, mergeRest
  <2>2. CASE ~spec.merges
    <3>1. CarriesSecret(sent)'
      BY <2>2, <1>7, <1>1 DEF CarriesSecret, writeOnlyVersionChanged, mergeRest, savedState, mergeBackend
    <3>2. SentLeaves(sent') /\ BodyLeaves(sent')
      BY <1>1, <1>5, <1>6
    <3> QED
      BY <2>2, <3>1, <3>2, <1>1 DEF SentOK, mergeRest, SentLeaves, BodyLeaves
  <2> QED
    BY <2>1, <2>2
<1> QED
  BY <1>1, <1>8, RestKept

(* The read of the current record. *)
LEMMA ReadCurrentKeeps == ASSUME MergeInv, ReadCurrent PROVE MergeInv'
<1>1. UNCHANGED mergeRest /\ stage = "read" /\ stage' = "put" /\ sent' = mergeIntoCurrent(Reply, sent)
  BY DEF ReadCurrent, mergeRest
<1>2. SentLeaves(sent') /\ Overlaid(sent') /\ CarriesSecret(sent')
  BY <1>1, OverlayFacts
<1>3. spec.merges
  BY <1>1 DEF MergeInv, SentOK
<1>4. Overlaid(sent)' /\ CarriesSecret(sent)' /\ SentLeaves(sent)'
  BY <1>1, <1>2 DEF Overlaid, CarriesSecret, SentLeaves, writeOnlyVersionChanged,
                    mergeRest, savedState, mergeBackend, mergeHistory
<1>5. SentOK'
  BY <1>1, <1>3, <1>4 DEF SentOK, mergeRest
<1> QED
  BY <1>1, <1>5, RestKept

(* A failed read changes nothing. *)
LEMMA ReadCurrentFailsKeeps == ASSUME MergeInv, ReadCurrentFails PROVE MergeInv'
<1>1. UNCHANGED mergeRest /\ stage' = "idle" /\ sent' = NoDocument
  BY DEF ReadCurrentFails, GiveUp, mergeRest, mergeHistory, savedState
<1>2. SentOK'
  BY <1>1 DEF SentOK
<1> QED
  BY <1>1, <1>2, RestKept

(* How secrets are shown is not part of the invariant. *)
LEMMA EchoChangesKeeps == ASSUME MergeInv, EchoChanges PROVE MergeInv'
<1> USE DEF EchoChanges, savedState, mergeHistory
<1>1. MergeTypeOK'
  BY DEF MergeInv, MergeTypeOK
<1>2. /\ UnmodelledKept' /\ SavedIsStored' /\ SecretStaysOutOfState' /\ SavedOK' /\ SecretKnown'
  BY DEF MergeInv, UnmodelledKept, SavedIsStored, SecretStaysOutOfState, SavedOK, SecretKnown
<1>3. RequestBody' = RequestBody
  BY DEF RequestBody, PlannedBody, writeOnlyVersionChanged
<1>4. SentOK'
  BY <1>3 DEF MergeInv, SentOK, Overlaid, CarriesSecret, SentLeaves, BodyLeaves, writeOnlyVersionChanged
<1> QED
  BY <1>1, <1>2, <1>4 DEF MergeInv

(* What a configuration is saved as. *)
LEMMA SavePlanFacts ==
    ASSUME MergeInv, SavePlan
    PROVE  /\ DOMAIN savedAttrs' = Names
           /\ \A a \in Names : UnderPath(savedAttrs'[a], Path[a])
           /\ \A a \in Names : savedAttrs'[a] = [q \in DOMAIN savedAttrs'[a] |-> savedAttrs'[a][q]]
           /\ savedPassword' \in Secrets \cup {None}
           /\ savedVersion' \in Versions \cup {None}
           /\ savedVersion' # None => savedPassword' = None
<1>1. wanted \in Configurations
  BY DEF MergeInv, MergeTypeOK
<1>2. wanted.attrs \in AttrValues
  BY <1>1, ConfigurationFacts
<1>3. DOMAIN wanted.attrs = Names
  BY <1>2 DEF AttrValues
<1>4. \A a \in Names : /\ UnderPath(wanted.attrs[a], Path[a])
                       /\ wanted.attrs[a] = [q \in DOMAIN wanted.attrs[a] |-> wanted.attrs[a][q]]
  BY <1>2, PlannedFacts DEF UnderPath, Texts
<1>5. /\ wanted.password \in Secrets \cup {None}
      /\ wanted.version \in Versions \cup {None}
      /\ wanted.version # None => wanted.password = None
  BY <1>1, ConfigurationFacts
<1> QED
  BY <1>3, <1>4, <1>5 DEF SavePlan

(* A version in use is never newer than the last one. *)
LEMMA VersionsKnown ==
    ASSUME MergeInv
    PROVE  /\ wanted \in Configurations
           /\ wanted.version # None => wanted.version \in Nat
           /\ savedVersion # None => savedVersion \in Nat
           /\ lastVersion \in Nat
           /\ None \notin Nat /\ None \notin Secrets
           /\ wanted.secret # None <=> wanted.version # None
           /\ wanted.password = None \/ wanted.secret = None
           /\ wanted.password \in Secrets \cup {None}
<1>1. wanted \in Configurations
  BY DEF MergeInv, MergeTypeOK
<1>2. Versions \subseteq Nat
  BY MergeBoundAssumption DEF Versions
<1>3. lastVersion \in Nat
  BY MergeBoundAssumption DEF MergeInv, MergeTypeOK
<1> QED
  BY <1>1, <1>2, <1>3, ConfigurationFacts, ValueAssumption DEF MergeInv, MergeTypeOK

(* The PUT that ends well stores the plan and saves it. *)
LEMMA PutDoneKeeps == ASSUME MergeInv, PutDone PROVE MergeInv'
<1>1. stage = "put" /\ Store /\ SavePlan /\ stage' = "idle" /\ sent' = NoDocument
      /\ drifted' = {} /\ unsure' = FALSE
      /\ UNCHANGED <<spec, wanted, owned, raced, disciplined, lastVersion>>
  BY DEF PutDone
<1>2. /\ RecordLeaves(record')
      /\ secret' \in Secrets \cup {None}
      /\ echo' = echo
      /\ \A p \in OwnedPaths : p \in DOMAIN record' /\ (record'[p] = owned[p] \/ p \in raced)
      /\ spec.merges => \A a \in Names : Part(record', Path[a]) = wanted.attrs[a]
      /\ wanted.password # None => secret' = wanted.password
      /\ disciplined /\ wanted.secret # None
           /\ (writeOnlyVersionChanged \/ savedVersion = wanted.version) =>
           secret' = wanted.secret
  BY <1>1, StoreFacts
<1>3. MergeTypeOK'
  BY <1>1, <1>2, SavePlanFacts DEF MergeInv, MergeTypeOK, RecordLeaves, Texts
<1>4. UnmodelledKept'
  BY <1>1, <1>2 DEF UnmodelledKept
<1>5. SavedIsStored'
  BY <1>1, <1>2 DEF SavedIsStored, SavePlan
<1>6. SecretStaysOutOfState'
  BY <1>1, SavePlanFacts DEF SecretStaysOutOfState
<1>7. SentOK'
  BY <1>1 DEF SentOK
<1>8. SavedOK'
  BY <1>1, SavePlanFacts DEF MergeInv, SavedOK, SavePlan
<1>9. SecretKnown'
  <2>1. wanted.secret # None => writeOnlyVersionChanged \/ savedVersion = wanted.version
    BY VersionsKnown DEF writeOnlyVersionChanged
  <2>2. disciplined /\ wanted.secret # None => secret' = wanted.secret
    BY <1>2, <2>1
  <2>3. savedPassword' \in Secrets => secret' = savedPassword'
    BY <1>1, <1>2, VersionsKnown DEF SavePlan
  <2> QED
    BY <1>1, <2>2, <2>3 DEF SecretKnown
<1> QED
  BY <1>3, <1>4, <1>5, <1>6, <1>7, <1>8, <1>9 DEF MergeInv

(* The PUT that fails leaves the old state, and doubt where it was applied. *)
LEMMA PutFailedKeeps == ASSUME MergeInv, PutFailed PROVE MergeInv'
<1>1. stage = "put" /\ stage' = "idle" /\ sent' = NoDocument
      /\ UNCHANGED <<spec, wanted, savedState, owned, raced, disciplined, lastVersion>>
  BY DEF PutFailed, GiveUp
<1>2. CASE UNCHANGED <<mergeBackend, drifted, unsure>>
  <2>1. UNCHANGED mergeRest
    BY <1>1, <1>2 DEF mergeRest, mergeHistory, mergeBackend, savedState
  <2>2. SentOK'
    BY <1>1 DEF SentOK
  <2> QED
    BY <1>1, <2>1, <2>2, RestKept
<1>3. CASE Store /\ drifted' = Names /\ unsure' = (unsure \/ secret' # secret)
  <2>1. /\ RecordLeaves(record')
        /\ secret' \in Secrets \cup {None}
        /\ echo' = echo
        /\ \A p \in OwnedPaths : p \in DOMAIN record' /\ (record'[p] = owned[p] \/ p \in raced)
        /\ disciplined /\ wanted.secret # None
             /\ (writeOnlyVersionChanged \/ savedVersion = wanted.version) =>
             secret' = wanted.secret
    BY <1>1, <1>3, StoreFacts
  <2>2. MergeTypeOK'
    BY <1>1, <1>3, <2>1 DEF MergeInv, MergeTypeOK, RecordLeaves, Texts, savedState
  <2>3. UnmodelledKept'
    BY <1>1, <2>1 DEF UnmodelledKept
  <2>4. SavedIsStored'
    BY <1>1, <1>3 DEF SavedIsStored
  <2>5. SecretStaysOutOfState' /\ SavedOK' /\ SentOK'
    BY <1>1 DEF MergeInv, SecretStaysOutOfState, SavedOK, SentOK, savedState
  <2>6. ~unsure' => ~unsure /\ secret' = secret
    BY <1>3
  <2>7. SecretKnown'
    BY <1>1, <2>1, <2>6 DEF MergeInv, SecretKnown, savedState
  <2> QED
    BY <2>2, <2>3, <2>4, <2>5, <2>7 DEF MergeInv
<1> QED
  BY <1>2, <1>3 DEF PutFailed

(* A body tells the attributes and the password it is made of. *)
LEMMA SameBodies ==
    ASSUME MergeInv, PlannedBody = Body(savedAttrs, savedPassword)
    PROVE  /\ \A a \in Names : wanted.attrs[a] = savedAttrs[a]
           /\ wanted.password # None => savedPassword = wanted.password
<1>1. wanted \in Configurations
  BY DEF MergeInv, MergeTypeOK
<1>2. \A a \in Names :
        /\ wanted.attrs[a] = [q \in DOMAIN wanted.attrs[a] |-> wanted.attrs[a][q]]
        /\ \A q \in DOMAIN wanted.attrs[a] : q \in Texts /\ IsPrefix(Path[a], q)
  BY <1>1, ConfigurationFacts, PlannedFacts
<1>3. \A a \in Names :
        /\ savedAttrs[a] = [q \in DOMAIN savedAttrs[a] |-> savedAttrs[a][q]]
        /\ \A q \in DOMAIN savedAttrs[a] : q \in Texts /\ IsPrefix(Path[a], q)
  BY DEF MergeInv, SavedOK, MergeTypeOK, UnderPath, Texts
<1>5. /\ \A q \in DOMAIN PlannedBody :
           \/ q = SecretPath /\ wanted.password # None /\ PlannedBody[q] = wanted.password
           \/ \E a \in Names : q \in DOMAIN wanted.attrs[a] /\ PlannedBody[q] = wanted.attrs[a][q]
      /\ \A a \in Names : \A q \in DOMAIN wanted.attrs[a] :
           q \in DOMAIN PlannedBody /\ PlannedBody[q] = wanted.attrs[a][q]
      /\ wanted.password # None => /\ SecretPath \in DOMAIN PlannedBody
                                   /\ PlannedBody[SecretPath] = wanted.password
  <2>1. \A a \in Names : \A q \in DOMAIN wanted.attrs[a] : q \in Texts /\ IsPrefix(Path[a], q)
    BY <1>2
  <2> QED
    BY <2>1, BodyFacts DEF PlannedBody
<1>6. /\ \A q \in DOMAIN PlannedBody :
           \/ q = SecretPath /\ savedPassword # None /\ PlannedBody[q] = savedPassword
           \/ \E a \in Names : q \in DOMAIN savedAttrs[a] /\ PlannedBody[q] = savedAttrs[a][q]
      /\ \A a \in Names : \A q \in DOMAIN savedAttrs[a] :
           q \in DOMAIN PlannedBody /\ PlannedBody[q] = savedAttrs[a][q]
  <2>1. \A a \in Names : \A q \in DOMAIN savedAttrs[a] : q \in Texts /\ IsPrefix(Path[a], q)
    BY <1>3
  <2> QED
    BY <2>1, BodyFacts
<1>7. \A a \in Names : ~IsPrefix(Path[a], SecretPath) /\ Path[a] \in LeafPaths
  BY PathTypes, PathAssumption DEF Incomparable
<1>8. ASSUME NEW a \in Names PROVE wanted.attrs[a] = savedAttrs[a]
  <2>1. ASSUME NEW q \in DOMAIN wanted.attrs[a]
        PROVE  q \in DOMAIN savedAttrs[a] /\ savedAttrs[a][q] = wanted.attrs[a][q]
    <3>1. q \in DOMAIN PlannedBody /\ PlannedBody[q] = wanted.attrs[a][q] /\ q \in Texts /\ IsPrefix(Path[a], q)
      BY <1>2, <1>5
    <3>2. PICK b \in Names : q \in DOMAIN savedAttrs[b] /\ PlannedBody[q] = savedAttrs[b][q]
      BY <3>1, <1>6, <1>7
    <3>3. Path[a] = Path[b]
      BY <3>1, <3>2, <1>3, <1>7, OneHome
    <3> QED
      BY <3>1, <3>2, <3>3, PathAssumption
  <2>2. ASSUME NEW q \in DOMAIN savedAttrs[a]
        PROVE  q \in DOMAIN wanted.attrs[a]
    <3>1. q \in DOMAIN PlannedBody /\ q \in Texts /\ IsPrefix(Path[a], q)
      BY <1>3, <1>6
    <3>2. PICK b \in Names : q \in DOMAIN wanted.attrs[b]
      BY <3>1, <1>5, <1>7
    <3>3. Path[a] = Path[b]
      BY <3>1, <3>2, <1>2, <1>7, OneHome
    <3> QED
      BY <3>2, <3>3, PathAssumption
  <2>3. DOMAIN wanted.attrs[a] = DOMAIN savedAttrs[a]
    BY <2>1, <2>2
  <2> QED
    BY <2>1, <2>3, <1>2, <1>3
<1>9. ASSUME wanted.password # None PROVE savedPassword = wanted.password
  <2>1. SecretPath \in DOMAIN PlannedBody /\ PlannedBody[SecretPath] = wanted.password
    BY <1>5, <1>9
  <2>2. \A a \in Names : SecretPath \notin DOMAIN savedAttrs[a]
    BY <1>3, <1>7
  <2> QED
    BY <2>1, <2>2, <1>6
<1> QED
  BY <1>8, <1>9

(* A skipped update had nothing to send. *)
LEMMA SkipUpdateKeeps == ASSUME MergeInv, SkipUpdate PROVE MergeInv'
<1>1. /\ stage = "idle" /\ NothingToSend /\ SavePlan
      /\ UNCHANGED <<spec, mergeBackend, wanted, stage, sent, breaks, turns, mergeHistory>>
  BY DEF SkipUpdate
<1>2. /\ \A a \in Names : wanted.attrs[a] = savedAttrs[a]
      /\ wanted.password # None => savedPassword = wanted.password
      /\ wanted.version # None => savedVersion = wanted.version
  BY <1>1, SameBodies DEF NothingToSend, writeOnlyVersionChanged
<1> USE DEF mergeBackend, mergeHistory
<1>3. MergeTypeOK'
  BY <1>1, SavePlanFacts DEF MergeInv, MergeTypeOK
<1>4. UnmodelledKept' /\ SentOK'
  BY <1>1 DEF MergeInv, UnmodelledKept, SentOK
<1>5. SavedIsStored'
  BY <1>1, <1>2 DEF MergeInv, SavedIsStored, SavePlan
<1>6. SecretStaysOutOfState'
  BY <1>1, SavePlanFacts DEF SecretStaysOutOfState
<1>7. SavedOK'
  BY <1>1, SavePlanFacts DEF MergeInv, SavedOK, SavePlan
<1>8. SecretKnown'
  <2>1. savedPassword' \in Secrets => savedPassword' = savedPassword
    BY <1>1, <1>2, VersionsKnown DEF SavePlan
  <2>2. wanted.secret # None => savedVersion = wanted.version
    BY <1>2, VersionsKnown
  <2> QED
    BY <1>1, <2>1, <2>2 DEF MergeInv, SecretKnown
<1> QED
  BY <1>3, <1>4, <1>5, <1>6, <1>7, <1>8 DEF MergeInv

(* A refresh reads the attributes as stored, and never the secret. *)
LEMMA RefreshKeeps == ASSUME MergeInv, Refresh PROVE MergeInv'
<1>1. /\ stage = "idle"
      /\ savedAttrs' = [a \in Names |-> Part(Reply, Path[a])]
      /\ savedPassword' = keepShadowedNull(Refreshed)
      /\ drifted' = {}
      /\ unsure' = (unsure /\ (secret = None \/ echo # "plain"))
      /\ UNCHANGED <<spec, record, secret, echo, wanted, savedVersion, stage, sent,
                     owned, raced, disciplined, lastVersion>>
  BY DEF Refresh, mergeBackend
<1>2. /\ RecordLeaves(record) /\ secret \in Secrets \cup {None}
      /\ echo \in {"plain", "masked", "omitted"}
      /\ savedPassword \in Secrets \cup {None, Masked}
  BY DEF MergeInv, MergeTypeOK, RecordLeaves, Texts
<1>3. /\ None \notin Secrets /\ None # Masked /\ Masked \notin Secrets
  BY ValueAssumption
<1>4. \A a \in Names : savedAttrs'[a] = Part(record, Path[a])
  BY <1>1, <1>2, ReplyAttributes
<1>5. /\ DOMAIN savedAttrs' = Names
      /\ \A a \in Names :
           /\ UnderPath(savedAttrs'[a], Path[a])
           /\ savedAttrs'[a] = [q \in DOMAIN savedAttrs'[a] |-> savedAttrs'[a][q]]
  <2>1. DOMAIN savedAttrs' = Names
    BY <1>1
  <2>2. ASSUME NEW a \in Names
        PROVE  /\ UnderPath(Part(record, Path[a]), Path[a])
               /\ Part(record, Path[a]) =
                    [q \in DOMAIN Part(record, Path[a]) |-> Part(record, Path[a])[q]]
    <3>1. UnderPath(Part(record, Path[a]), Path[a])
      <4>1. \A q \in DOMAIN record : q \in Texts
        BY <1>2 DEF RecordLeaves
      <4>2. DOMAIN Part(record, Path[a]) = {q \in DOMAIN record : IsPrefix(Path[a], q)}
        BY PartFacts
      <4> QED
        BY <4>1, <4>2 DEF UnderPath, Texts
    <3> QED
      BY <3>1 DEF Part, Restrict
  <2> QED
    BY <2>1, <2>2, <1>4
<1>6. Part(Reply, SecretPath) = NoDocument <=> SecretPath \notin DOMAIN Reply
  <2>1. \A q \in DOMAIN record : ~IsPrefix(SecretPath, q)
    BY <1>2, RecordApart DEF Incomparable
  <2>2. IsPrefix(SecretPath, SecretPath)
    BY PathTypes, PrefixRelations
  <2> QED
    BY <2>1, <2>2, <1>2, ReplyFacts, PartFacts
<1>7. DEFINE shown == IF Part(Reply, SecretPath) = NoDocument THEN None ELSE Reply[SecretPath]
<1>8. /\ shown \in {None, Masked, secret}
      /\ secret # None /\ echo = "plain" => shown = secret
  BY <1>2, <1>6, ReplyFacts
<1>9. Refreshed = IF shown \in {None, Masked} /\ savedPassword # None THEN savedPassword ELSE shown
  BY DEF Refreshed
<1> HIDE DEF shown
<1>10. /\ Refreshed \in Secrets \cup {None, Masked}
       /\ Refreshed \in Secrets => Refreshed \in {savedPassword, secret}
       /\ secret # None /\ echo = "plain" => Refreshed = secret
  BY <1>2, <1>3, <1>8, <1>9
<1>11. /\ savedPassword' \in {None, Refreshed}
       /\ savedVersion # None /\ savedPassword = None => savedPassword' = None
  BY <1>1 DEF keepShadowedNull
<1>12. MergeTypeOK'
  BY <1>1, <1>5, <1>10, <1>11 DEF MergeInv, MergeTypeOK
<1>13. UnmodelledKept' /\ SentOK'
  BY <1>1 DEF MergeInv, UnmodelledKept, SentOK
<1>14. SavedIsStored'
  BY <1>1, <1>4 DEF SavedIsStored
<1>15. SecretStaysOutOfState'
  BY <1>1, <1>11 DEF MergeInv, SecretStaysOutOfState
<1>16. SavedOK'
  BY <1>1, <1>5 DEF MergeInv, SavedOK
<1>17. SecretKnown'
  <2>1. ASSUME ~unsure', savedPassword' \in Secrets PROVE secret = savedPassword'
    <3>1. savedPassword' = Refreshed /\ Refreshed \in {savedPassword, secret}
      BY <2>1, <1>3, <1>10, <1>11
    <3>2. CASE ~unsure
      BY <3>1, <3>2, <2>1 DEF MergeInv, SecretKnown
    <3>3. CASE secret # None /\ echo = "plain"
      BY <3>1, <3>3, <1>10
    <3> QED
      BY <3>2, <3>3, <2>1, <1>1
  <2> QED
    BY <2>1, <1>1 DEF MergeInv, SecretKnown
<1> QED
  BY <1>12, <1>13, <1>14, <1>15, <1>16, <1>17 DEF MergeInv

(* Attributes edited while nothing is under way. *)
LEMMA EditAttrsKeeps ==
    ASSUME MergeInv, NEW attrs \in AttrValues, EditAttrs(attrs) PROVE MergeInv'
<1>1. /\ wanted' = [wanted EXCEPT !.attrs = attrs]
      /\ stage = "idle"
      /\ UNCHANGED <<spec, mergeBackend, savedState, stage, sent, mergeHistory>>
  BY DEF EditAttrs
<1>2. wanted' \in Configurations
  BY <1>1, ConfigurationFacts DEF MergeInv, MergeTypeOK
<1>3. /\ wanted'.secret = wanted.secret /\ wanted'.version = wanted.version
  <2>1. PICK old \in AttrValues, args \in SecretArguments : wanted = Configuration(old, args)
    BY DEF MergeInv, MergeTypeOK, Configurations
  <2> QED
    BY <1>1, <2>1 DEF Configuration
<1> USE DEF mergeBackend, savedState, mergeHistory
<1>4. MergeTypeOK'
  BY <1>1, <1>2 DEF MergeInv, MergeTypeOK
<1>5. UnmodelledKept' /\ SavedIsStored' /\ SecretStaysOutOfState'
  BY <1>1 DEF MergeInv, UnmodelledKept, SavedIsStored, SecretStaysOutOfState
<1>6. SentOK' /\ SavedOK' /\ SecretKnown'
  BY <1>1, <1>3 DEF MergeInv, SentOK, SavedOK, SecretKnown
<1> QED
  BY <1>4, <1>5, <1>6 DEF MergeInv

(* A secret edited while nothing is under way. *)
LEMMA EditSecretKeeps ==
    ASSUME MergeInv, NEW args \in SecretArguments, EditSecret(args) PROVE MergeInv'
<1>1. /\ wanted' = Configuration(wanted.attrs, args)
      /\ stage = "idle"
      /\ disciplined' = (disciplined /\ (args.version # None => args.version > lastVersion))
      /\ lastVersion' = IF args.version # None /\ args.version > lastVersion
                        THEN args.version ELSE lastVersion
      /\ UNCHANGED <<spec, mergeBackend, savedState, stage, sent, owned, raced, drifted, unsure>>
  BY DEF EditSecret
<1>2. wanted' \in Configurations
  BY <1>1, ConfigurationFacts DEF MergeInv, MergeTypeOK, Configurations
<1>3. wanted'.secret = args.secret /\ wanted'.version = args.version
  BY <1>1 DEF Configuration
<1>4. /\ args.version \in Versions \cup {None} /\ (args.secret # None <=> args.version # None)
  BY <1>2, <1>3, ConfigurationFacts
<1>5. /\ lastVersion' \in 0 .. MaxVersion
      /\ lastVersion' >= lastVersion
      /\ args.version # None => args.version <= lastVersion'
  BY <1>1, <1>4, VersionsKnown, MergeBoundAssumption DEF MergeInv, MergeTypeOK, Versions
<1> USE DEF mergeBackend, savedState
<1>6. MergeTypeOK'
  BY <1>1, <1>2, <1>5 DEF MergeInv, MergeTypeOK
<1>7. UnmodelledKept' /\ SavedIsStored' /\ SecretStaysOutOfState' /\ SentOK'
  BY <1>1 DEF MergeInv, UnmodelledKept, SavedIsStored, SecretStaysOutOfState, SentOK
<1>8. SavedOK'
  BY <1>1, <1>3, <1>5, VersionsKnown, MergeBoundAssumption DEF MergeInv, SavedOK
<1>9. SecretKnown'
  <2>1. ASSUME disciplined', args.secret # None PROVE savedVersion # args.version
    <3>1. args.version # None /\ args.version > lastVersion
      BY <2>1, <1>1, <1>4
    <3> QED
      BY <3>1, <1>4, VersionsKnown, MergeBoundAssumption DEF MergeInv, SavedOK, Versions
  <2> QED
    BY <2>1, <1>1, <1>3 DEF MergeInv, SecretKnown
<1> QED
  BY <1>6, <1>7, <1>8, <1>9 DEF MergeInv

(* An agent writes a leaf of its own. *)
LEMMA OwnerWritesKeeps ==
    ASSUME MergeInv, NEW p \in OwnedPaths, NEW v \in OwnedValues, OwnerWrites(p, v)
    PROVE  MergeInv'
<1>1. /\ record' = [record EXCEPT ![p] = v]
      /\ owned' = [owned EXCEPT ![p] = v]
      /\ raced' = IF stage = "put" THEN raced \cup {p} ELSE raced
      /\ UNCHANGED <<spec, secret, echo, wanted, savedState, stage, sent,
                     drifted, unsure, disciplined, lastVersion>>
  BY DEF OwnerWrites
<1>2. /\ DOMAIN record' = DOMAIN record
      /\ p \in DOMAIN record /\ record'[p] = v
      /\ \A q \in DOMAIN record : q # p => record'[q] = record[q]
  BY <1>1 DEF MergeInv, UnmodelledKept
<1>3. /\ owned' \in [OwnedPaths -> OwnedValues]
      /\ owned'[p] = v
      /\ \A q \in OwnedPaths : q # p => owned'[q] = owned[q]
  BY <1>1 DEF MergeInv, MergeTypeOK
<1>4. raced \subseteq raced' /\ raced' \subseteq OwnedPaths /\ (stage = "put" => p \in raced')
  BY <1>1 DEF MergeInv, MergeTypeOK
<1>5. MergeTypeOK'
  BY <1>1, <1>2, <1>3, <1>4 DEF MergeInv, MergeTypeOK, savedState
<1>6. UnmodelledKept'
  BY <1>2, <1>3, <1>4 DEF MergeInv, UnmodelledKept
<1>7. SavedIsStored'
  <2>1. ASSUME NEW a \in Names PROVE Part(record', Path[a]) = Part(record, Path[a])
    <3>1. ~IsPrefix(Path[a], p)
      BY PathTypes, PathAssumption DEF Incomparable
    <3> QED
      BY <3>1, <1>2, SamePart
  <2> QED
    BY <2>1, <1>1 DEF MergeInv, SavedIsStored, savedState
<1>8. SecretStaysOutOfState' /\ SavedOK' /\ SecretKnown'
  BY <1>1 DEF MergeInv, SecretStaysOutOfState, SavedOK, SecretKnown, savedState
<1>9. SentOK'
  <2>1. RequestBody' = RequestBody
    BY <1>1 DEF RequestBody, PlannedBody, writeOnlyVersionChanged, savedState
  <2>2. CASE stage = "read"
    BY <2>1, <2>2, <1>1 DEF MergeInv, SentOK
  <2>3. CASE stage = "put"
    <3>1. SentLeaves(sent)' /\ BodyLeaves(sent)' = BodyLeaves(sent) /\ CarriesSecret(sent)'
      BY <2>3, <1>1 DEF MergeInv, SentOK, SentLeaves, BodyLeaves, CarriesSecret,
                        writeOnlyVersionChanged, savedState
    <3>2. ASSUME spec.merges PROVE Overlaid(sent)'
      BY <2>3, <3>2, <1>1, <1>3, <1>4 DEF MergeInv, SentOK, Overlaid
    <3> QED
      BY <2>3, <3>1, <3>2, <1>1 DEF MergeInv, SentOK
  <2>4. CASE stage = "idle"
    BY <2>4, <1>1 DEF SentOK
  <2> QED
    BY <2>2, <2>3, <2>4 DEF MergeInv, MergeTypeOK
<1> QED
  BY <1>5, <1>6, <1>7, <1>8, <1>9 DEF MergeInv

(* An attribute edited in the console drifts. *)
LEMMA ConsoleEditsKeeps ==
    ASSUME MergeInv, NEW a \in Names, NEW v \in PlannedValues[a], ConsoleEdits(a, v)
    PROVE  MergeInv'
<1> DEFINE rest == DeletePaths(record, {Path[a]})
<1>1. /\ record' = DeepMergeInto(rest, v)
      /\ drifted' = drifted \cup {a}
      /\ UNCHANGED <<spec, secret, echo, wanted, savedState, stage, sent,
                     owned, raced, unsure, disciplined, lastVersion>>
  BY DEF ConsoleEdits
<1>2. /\ DOMAIN rest = {q \in DOMAIN record : ~IsPrefix(Path[a], q)}
      /\ \A q \in DOMAIN rest : rest[q] = record[q]
  <2>1. DOMAIN rest = {q \in DOMAIN record : \A p \in {Path[a]} : ~IsPrefix(p, q)}
        /\ \A q \in DOMAIN rest : rest[q] = record[q]
    BY DeletePathsFacts
  <2> HIDE DEF rest
  <2> QED
    BY <2>1
<1> HIDE DEF rest
<1>3. \A q \in DOMAIN v : q \in Texts /\ IsPrefix(Path[a], q)
  BY ValueAssumption DEF Texts
<1>4. \A q \in DOMAIN record' :
        \/ q \in DOMAIN v /\ record'[q] = v[q]
        \/ q \in DOMAIN rest /\ record'[q] = rest[q]
  <2>1. \A q \in DOMAIN DeepMergeInto(rest, v) :
          \/ q \in DOMAIN v /\ DeepMergeInto(rest, v)[q] = v[q]
          \/ q \in DOMAIN rest /\ DeepMergeInto(rest, v)[q] = rest[q]
    BY MergeSources
  <2>2. record' = DeepMergeInto(rest, v)
    BY <1>1
  <2> QED
    BY <2>1, <2>2
<1>5. Path[a] \in AttrPaths /\ Path[a] \in LeafPaths /\ Path[a] \in Texts
  BY PathTypes
<1>6. RecordLeaves(record)
  BY DEF MergeInv, MergeTypeOK, RecordLeaves, Texts
<1>7. RecordLeaves(record')
  BY <1>2, <1>3, <1>4, <1>5, <1>6 DEF RecordLeaves
(* A leaf below another path stays as it is. *)
<1>8. ASSUME NEW h \in LeafPaths, h # Path[a], NEW q \in DOMAIN record, IsPrefix(h, q)
      PROVE  q \in DOMAIN record' /\ record'[q] = record[q]
  <2>1. q \in Texts
    BY <1>6 DEF RecordLeaves
  <2>2. ~IsPrefix(Path[a], q)
    BY <2>1, <1>5, <1>8, OneHome
  <2>3. \A r \in DOMAIN v : Incomparable(q, r)
    BY <2>1, <1>3, <1>5, <1>8, HomesApart
  <2>4. q \notin DOMAIN v
    BY <2>2, <1>3
  <2>5. q \in DOMAIN rest /\ rest[q] = record[q]
    BY <2>2, <1>2
  <2> QED
    BY <2>3, <2>4, <2>5, <1>1, MergeKeeps
<1>9. MergeTypeOK'
  BY <1>1, <1>7 DEF MergeInv, MergeTypeOK, RecordLeaves, Texts, savedState
<1>10. UnmodelledKept'
  <2>1. ASSUME NEW p \in OwnedPaths
        PROVE  p \in DOMAIN record' /\ (record'[p] = owned[p] \/ p \in raced)
    <3>1. p \in LeafPaths /\ p # Path[a] /\ IsPrefix(p, p)
      BY <1>5, PathTypes, PathAssumption, PrefixRelations
    <3>2. p \in DOMAIN record /\ (record[p] = owned[p] \/ p \in raced)
      BY DEF MergeInv, UnmodelledKept
    <3> QED
      BY <3>1, <3>2, <1>8
  <2> QED
    BY <2>1, <1>1 DEF UnmodelledKept
<1>11. SavedIsStored'
  <2>1. ASSUME NEW b \in Names, b # a PROVE Part(record', Path[b]) = Part(record, Path[b])
    <3>1. Path[b] \in LeafPaths /\ Path[b] # Path[a]
      BY <2>1, PathTypes, PathAssumption
    <3>2. \A q \in DOMAIN record : IsPrefix(Path[b], q) =>
            q \in DOMAIN record' /\ record'[q] = record[q]
      BY <3>1, <1>8
    <3>3. \A q \in DOMAIN v : ~IsPrefix(Path[b], q)
      BY <3>1, <1>3, <1>5, OneHome
    <3>4. \A q \in DOMAIN record' : IsPrefix(Path[b], q) => q \in DOMAIN record
      BY <3>3, <1>2, <1>4
    <3> QED
      BY <3>2, <3>4, SamePart
  <2> QED
    BY <2>1, <1>1 DEF MergeInv, SavedIsStored, savedState
<1>12. SecretStaysOutOfState' /\ SavedOK' /\ SecretKnown'
  BY <1>1 DEF MergeInv, SecretStaysOutOfState, SavedOK, SecretKnown, savedState
<1>13. SentOK'
  <2>1. RequestBody' = RequestBody
    BY <1>1 DEF RequestBody, PlannedBody, writeOnlyVersionChanged, savedState
  <2>2. /\ SentLeaves(sent)' <=> SentLeaves(sent)
        /\ BodyLeaves(sent)' <=> BodyLeaves(sent)
        /\ Overlaid(sent)' <=> Overlaid(sent)
        /\ CarriesSecret(sent)' <=> CarriesSecret(sent)
    BY <1>1 DEF SentLeaves, BodyLeaves, Overlaid, CarriesSecret, writeOnlyVersionChanged, savedState
  <2> QED
    BY <2>1, <2>2, <1>1 DEF MergeInv, SentOK
<1> QED
  BY <1>9, <1>10, <1>11, <1>12, <1>13 DEF MergeInv

(* A created object satisfies the invariant. *)
LEMMA MergeInitFacts == ASSUME MergeInit PROVE MergeInv
<1> DEFINE body == Body(wanted.attrs, None)
<1>1. wanted \in Configurations /\ spec \in Specs
  BY DEF MergeInit
<1>2. owned \in [OwnedPaths -> OwnedValues] /\ record = DeepMergeInto(owned, body)
  BY DEF MergeInit
<1>3. /\ wanted.attrs \in AttrValues /\ DOMAIN wanted.attrs = Names
      /\ wanted.password \in Secrets \cup {None} /\ wanted.secret \in Secrets \cup {None}
      /\ wanted.version \in Versions \cup {None}
      /\ (wanted.secret # None <=> wanted.version # None)
      /\ wanted.password = None \/ wanted.secret = None
  BY <1>1, ConfigurationFacts DEF AttrValues
<1>4. \A a \in Names :
        /\ wanted.attrs[a] = [q \in DOMAIN wanted.attrs[a] |-> wanted.attrs[a][q]]
        /\ \A q \in DOMAIN wanted.attrs[a] : q \in Texts /\ IsPrefix(Path[a], q)
  BY <1>3, PlannedFacts
<1>5. /\ \A q \in DOMAIN body :
           \E a \in Names : q \in DOMAIN wanted.attrs[a] /\ body[q] = wanted.attrs[a][q]
      /\ \A a \in Names : \A q \in DOMAIN wanted.attrs[a] :
           q \in DOMAIN body /\ body[q] = wanted.attrs[a][q]
  <2>1. \A a \in Names : \A q \in DOMAIN wanted.attrs[a] : q \in Texts /\ IsPrefix(Path[a], q)
    BY <1>4
  <2> QED
    BY <2>1, BodyFacts
<1> HIDE DEF body
<1>6. \A q \in DOMAIN record :
        \/ q \in DOMAIN body /\ record[q] = body[q]
        \/ q \in OwnedPaths
  <2>1. \A q \in DOMAIN DeepMergeInto(owned, body) :
          \/ q \in DOMAIN body /\ DeepMergeInto(owned, body)[q] = body[q]
          \/ q \in DOMAIN owned
    BY MergeSources
  <2> QED
    BY <2>1, <1>2
<1>7. \A p \in OwnedPaths :
        p \in LeafPaths /\ p \in Texts /\ p \notin AttrPaths /\ IsPrefix(p, p)
  BY PathTypes, PathAssumption, PrefixRelations
<1>8. ASSUME NEW p \in OwnedPaths, NEW q \in DOMAIN body PROVE Incomparable(p, q)
  <2>1. PICK a \in Names : q \in DOMAIN wanted.attrs[a]
    BY <1>5
  <2>2. q \in Texts /\ IsPrefix(Path[a], q) /\ Path[a] \in LeafPaths /\ Path[a] # p
    BY <2>1, <1>4, <1>7, PathTypes
  <2> QED
    BY <2>2, <1>7, HomesApart
<1>9. RecordLeaves(record)
  <2> SUFFICES ASSUME NEW q \in DOMAIN record
               PROVE  q \in Texts /\ \E p \in AttrPaths \cup OwnedPaths : IsPrefix(p, q)
    BY DEF RecordLeaves
  <2>1. CASE q \in OwnedPaths
    BY <2>1, <1>7
  <2>2. CASE q \in DOMAIN body
    BY <2>2, <1>4, <1>5, PathTypes
  <2> QED
    BY <2>1, <2>2, <1>6
<1>10. ASSUME NEW p \in OwnedPaths PROVE p \in DOMAIN record /\ record[p] = owned[p]
  <2>1. p \in DOMAIN owned /\ p \notin DOMAIN body
    BY <1>2, <1>7, <1>8 DEF Incomparable
  <2>2. p \in DOMAIN DeepMergeInto(owned, body) /\ DeepMergeInto(owned, body)[p] = owned[p]
    BY <2>1, <1>8, MergeKeeps
  <2> QED
    BY <2>2, <1>2
<1>11. ASSUME NEW a \in Names PROVE Part(record, Path[a]) = wanted.attrs[a]
  <2>1. ASSUME NEW q \in DOMAIN wanted.attrs[a]
        PROVE  q \in DOMAIN record /\ record[q] = wanted.attrs[a][q] /\ IsPrefix(Path[a], q)
    <3>1. q \in DOMAIN body /\ body[q] = wanted.attrs[a][q] /\ IsPrefix(Path[a], q)
      BY <1>4, <1>5
    <3>2. \A r \in DOMAIN owned : ~IsPrefix(q, r)
      BY <3>1, <1>2, <1>8 DEF Incomparable
    <3>3. q \in DOMAIN DeepMergeInto(owned, body) /\ DeepMergeInto(owned, body)[q] = body[q]
      BY <3>1, <3>2, MergeLays
    <3> QED
      BY <3>1, <3>3, <1>2
  <2>2. ASSUME NEW q \in DOMAIN record, IsPrefix(Path[a], q)
        PROVE  q \in DOMAIN wanted.attrs[a]
    <3>1. q \notin OwnedPaths
      BY <2>2, PathTypes, PathAssumption DEF Incomparable
    <3>2. PICK b \in Names : q \in DOMAIN wanted.attrs[b]
      BY <3>1, <1>5, <1>6
    <3>3. Path[a] = Path[b]
      BY <3>2, <2>2, <1>4, PathTypes, OneHome
    <3> QED
      BY <3>2, <3>3, PathAssumption
  <2>3. {q \in DOMAIN record : IsPrefix(Path[a], q)} = DOMAIN wanted.attrs[a]
    BY <2>1, <2>2
  <2>4. Part(record, Path[a]) = [q \in DOMAIN wanted.attrs[a] |-> record[q]]
    BY <2>3 DEF Part, Restrict
  <2> QED
    BY <2>1, <2>4, <1>4
<1>12. /\ savedAttrs = wanted.attrs /\ savedPassword = wanted.password
       /\ savedVersion = wanted.version
       /\ secret = (IF wanted.password # None THEN wanted.password ELSE wanted.secret)
       /\ echo \in (IF spec.command THEN {"omitted"} ELSE {"plain", "masked", "omitted"})
       /\ stage = "idle" /\ sent = NoDocument /\ raced = {} /\ drifted = {}
       /\ unsure = FALSE /\ disciplined = TRUE
       /\ wanted.version \in {None, 1}
       /\ lastVersion = IF wanted.version = None THEN 0 ELSE wanted.version
  BY DEF MergeInit
<1>13. \A a \in Names : UnderPath(wanted.attrs[a], Path[a])
  BY <1>4 DEF UnderPath, Texts
<1>14. lastVersion \in 0 .. MaxVersion /\ (wanted.version # None => wanted.version <= lastVersion)
  BY <1>3, <1>12, MergeBoundAssumption DEF Versions
<1>15. MergeTypeOK
  BY <1>1, <1>2, <1>3, <1>9, <1>12, <1>13, <1>14 DEF MergeTypeOK, RecordLeaves, Texts
<1>16. UnmodelledKept
  BY <1>10 DEF UnmodelledKept
<1>17. SavedIsStored
  BY <1>11, <1>12 DEF SavedIsStored
<1>18. SecretStaysOutOfState /\ SentOK
  BY <1>3, <1>12 DEF SecretStaysOutOfState, SentOK
<1>19. SavedOK
  BY <1>4, <1>12, <1>14 DEF SavedOK
<1>20. SecretKnown
  BY <1>3, <1>12, ValueAssumption DEF SecretKnown
<1> QED
  BY <1>15, <1>16, <1>17, <1>18, <1>19, <1>20 DEF MergeInv

(* Every step keeps the invariant. *)
LEMMA MergeStep == ASSUME MergeInv, [MergeNext]_mergeVars PROVE MergeInv'
<1>1. CASE UNCHANGED mergeVars
  <2>1. UNCHANGED mergeRest /\ UNCHANGED <<stage, sent>>
    BY <1>1 DEF mergeVars, mergeRest
  <2>2. RequestBody' = RequestBody
    BY <2>1 DEF RequestBody, PlannedBody, writeOnlyVersionChanged, mergeRest, savedState
  <2>3. SentOK'
    BY <2>1, <2>2 DEF MergeInv, SentOK, SentLeaves, BodyLeaves, Overlaid, CarriesSecret,
         writeOnlyVersionChanged, mergeRest, savedState, mergeBackend, mergeHistory
  <2> QED
    BY <2>1, <2>3, RestKept DEF MergeInv, MergeTypeOK
<1>2. CASE Refresh
  BY <1>2, RefreshKeeps
<1>3. CASE Applying
  BY <1>3, SkipUpdateKeeps, StartUpdateKeeps, ReadCurrentKeeps, ReadCurrentFailsKeeps,
     PutDoneKeeps, PutFailedKeeps DEF Applying
<1>4. CASE Others
  BY <1>4, OwnerWritesKeeps, ConsoleEditsKeeps, EchoChangesKeeps, EditAttrsKeeps,
     EditSecretKeeps DEF Others
<1> QED
  BY <1>1, <1>2, <1>3, <1>4 DEF MergeNext

(* Whatever fails and whoever edits, state, record and request stay tied
   together as MergeInv says. *)
THEOREM MergeInvariant == MergeSpec => []MergeInv
<1> QED
  BY MergeInitFacts, MergeStep, PTL DEF MergeSpec

(* The record, the state and a request under way have the shapes of the    *)
(* documents of Update, whatever the schema. *)
THEOREM MergeTypeCorrect == MergeSpec => []MergeTypeOK
<1>1. MergeInv => MergeTypeOK
  BY DEF MergeInv
<1> QED
  BY <1>1, MergeInvariant, PTL

(* A PUT that replaces the record keeps what only the backend knows. *)
THEOREM UnmodelledIsKept == MergeSpec => []UnmodelledKept
<1>1. MergeInv => UnmodelledKept
  BY DEF MergeInv
<1> QED
  BY <1>1, MergeInvariant, PTL

(* What the state says of an attribute is what the record holds. *)
THEOREM SavedIsWhatIsStored == MergeSpec => []SavedIsStored
<1>1. MergeInv => SavedIsStored
  BY DEF MergeInv
<1> QED
  BY <1>1, MergeInvariant, PTL

(* No PUT lacks the secret in use where a missing one means removal. *)
THEOREM SecretIsNeverRemoved == MergeSpec => []SecretNeverLooksRemoved
<1>1. ASSUME MergeInv PROVE SecretNeverLooksRemoved
  <2>1. SecretPath \in DOMAIN sent => Part(sent, SecretPath) # NoDocument
    BY PathTypes, PrefixRelations, PartFacts
  <2> QED
    BY <1>1, <2>1 DEF MergeInv, SentOK, CarriesSecret, SecretNeverLooksRemoved
<1> QED
  BY <1>1, MergeInvariant, PTL

(* Nothing left to apply, the backend holds the configured secret. *)
THEOREM SecretsAgree == MergeSpec => []SecretInSync
<1>1. ASSUME MergeInv PROVE SecretInSync
  BY <1>1, VersionsKnown DEF MergeInv, SecretKnown, SecretInSync, SecretDiffers
<1> QED
  BY <1>1, MergeInvariant, PTL

(* The state has a secret's version or the password, never both. *)
THEOREM SecretOutOfState == MergeSpec => []SecretStaysOutOfState
<1>1. MergeInv => SecretStaysOutOfState
  BY DEF MergeInv
<1> QED
  BY <1>1, MergeInvariant, PTL
=============================================================================
