---------------------------- MODULE MCSingleIntent ----------------------------
(***************************************************************************)
(* SingleIntentUpdate with interchangeable values.  The first attribute is *)
(* sent as native_host's are (it has an update path of its own too), the   *)
(* others as msk_kafka's.                                                  *)
(***************************************************************************)
EXTENDS SingleIntentUpdate, TLC

Symmetry == Permutations(Values)
=============================================================================
