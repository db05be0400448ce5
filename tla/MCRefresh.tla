----------------------------- MODULE MCRefresh -----------------------------
(* Refresh with an account and a split as the entities.                     *)
EXTENDS Refresh

EntityTypes == [acc |-> "Account", split |-> "Split"]
=============================================================================
