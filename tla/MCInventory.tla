----------------------------- MODULE MCInventory -----------------------------
(***************************************************************************)
(* Instances of Inventory for TLC: two queues, two device URIs and one     *)
(* printer the user adds.                                                  *)
(***************************************************************************)
EXTENDS Inventory

\* Two queues on one device, and a second queue yet to be added.
SharedOrAbsent == {<<"u1", "u1">>, <<"u1", "none">>}

=============================================================================
