---------------------------- MODULE MCSxInstances ----------------------------
(* Definitions for TLC.                                                    *)
EXTENDS SxInstances, TLC

Symmetry == Permutations(Dialogs)
=============================================================================
