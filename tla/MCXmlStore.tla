----------------------------- MODULE MCXmlStore -----------------------------
(* XmlStore on small instances.  The processes are interchangeable.         *)
EXTENDS XmlStore, TLC

Symmetry == Permutations(Procs)

\* Every mode; every mode but the one that breaks locks; ...
AllModes == {"NORMAL_OPEN", "NEW_STORE", "NEW_OVERWRITE", "READ_ONLY",
             "BREAK_LOCK"}
CreateAndOpen == {"NORMAL_OPEN", "NEW_STORE", "BREAK_LOCK"}
=============================================================================
