------------------------------- MODULE Documents -------------------------------
(***************************************************************************)
(* The JSON documents of requests and records, flattened: a document maps  *)
(* the path of each of its leaves (a sequence of keys) to the leaf.  An    *)
(* object without keys is the leaf Empty; what is absent has no path, so   *)
(* an object that lost its last key is no longer told from an absent one.  *)
(***************************************************************************)
EXTENDS SequencesExt, Functions

CONSTANT Empty   \* the object {}

NoDocument == [p \in {} |-> Empty]

(* The leaves at and below a path: what extractPath and lookupPath find,   *)
(* NoDocument when the path is absent.                                     *)
Part(doc, path) == Restrict(doc, {q \in DOMAIN doc : IsPrefix(path, q)})

(* Broken: the key is deleted only where it holds a leaf. *)
DeletePathsLeaf(doc, paths) == Restrict(doc, DOMAIN doc \ paths)

DeletePaths(doc, paths) ==
    Restrict(doc, {q \in DOMAIN doc : \A p \in paths : ~IsPrefix(p, q)})

(* Objects are merged key by key, anything else replaces what was there.   *)
(* An empty object laid over an object changes nothing.                    *)
DeepMergeInto(dst, src) ==
    LET Transparent(p) == src[p] = Empty /\ \E q \in DOMAIN dst : IsStrictPrefix(p, q)
        laid == {p \in DOMAIN src : ~Transparent(p)}
        kept == {q \in DOMAIN dst :
                   \A p \in DOMAIN src : /\ ~IsStrictPrefix(q, p)
                                         /\ IsPrefix(p, q) => Transparent(p) /\ p # q}
    IN [q \in kept \cup laid |-> IF q \in laid THEN src[q] ELSE dst[q]]

SetPath(doc, path, leaf) == DeepMergeInto(doc, [p \in {path} |-> leaf])
=============================================================================
