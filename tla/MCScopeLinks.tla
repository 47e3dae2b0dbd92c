----------------------------- MODULE MCScopeLinks -----------------------------
(***************************************************************************)
(* ScopeLinks from the import of a workspace with at most one link, so     *)
(* that the two halves of the list cannot differ by their order alone.     *)
(***************************************************************************)
EXTENDS ScopeLinks

ImportInit == Init /\ managed = {} /\ Cardinality(linked) <= 1

ImportSpec == ImportInit /\ [][Next]_vars
=============================================================================
