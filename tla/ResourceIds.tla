---------------------------- MODULE ResourceIds ----------------------------
(***************************************************************************)
(* The ids under which Terraform knows an object (dynamic_resource.go,     *)
(* utils.go, dynamic_data_source.go).  An id is a text, split at "/": here *)
(* a nonempty sequence of segments.  The segments the endpoint asks for,   *)
(* its path parameters and then the object's own id (an association has    *)
(* none), are the path of the object; there are "want" of them.            *)
(***************************************************************************)
EXTENDS Naturals, Sequences

CONSTANT Blank   \* a segment that is empty or only spaces

(* composeID: path parameters and object ids hold no "/" themselves. *)
composeID(scope, objId) == Append(scope, objId)

Splits(id, want) == Len(id) >= want

splitID(id, want) == SubSeq(id, 1, want)

importIDProblem(id, want) ==
    \/ ~Splits(id, want)
    \/ \E i \in 1 .. want : id[i] = Blank

canonicalImportID(id, want) ==
    IF Splits(id, want) THEN splitID(id, want) ELSE id

(* An identity gives each part by itself, as a text. *)
IdentityProblem(values) == \E i \in DOMAIN values : Len(values[i]) > 1

(* The texts joined with "/", one part behind the other. *)
idFromIdentity(values) ==
    LET join[n \in 0 .. Len(values)] ==
          IF n = 0 THEN <<>> ELSE join[n - 1] \o values[n]
    IN  IF \A i \in DOMAIN values : Len(values[i]) = 1
        THEN [i \in DOMAIN values |-> values[i][1]]
        ELSE join[Len(values)]

(* The object id a data source sends: users may chain a resource's id. *)
apiID(id) == id[Len(id)]
=============================================================================
