---------------------------- MODULE MCAIRequests ----------------------------
(***************************************************************************)
(* Three requests and one provider of each kind with a single place, so    *)
(* that two holders of a slot may want the same place.                     *)
(***************************************************************************)
EXTENDS AIRequests

OnePlace == [p \in Provider |-> 1]
=============================================================================
