------------------------------ MODULE MCSaveAs ------------------------------
(* SaveAs with sessions that differ in their names only.                    *)
EXTENDS SaveAs, TLC

Names == Permutations(Sessions)
=============================================================================
