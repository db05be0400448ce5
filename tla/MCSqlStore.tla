----------------------------- MODULE MCSqlStore -----------------------------
(* SqlStore on small instances.  The processes are interchangeable, and so  *)
(* are the tables.                                                          *)
EXTENDS SqlStore, TLC

Symmetry == Permutations(Procs) \cup Permutations(Tables)

\* Sessions that write; and one beside them that was opened read-only.
WriteModes == {"NORMAL_OPEN", "BREAK_LOCK"}
ReadAndWrite == {"NORMAL_OPEN", "READ_ONLY"}

\* A behaviour is followed up to the first slip after which nothing is claimed
\* of the data, and that state is checked too.
Claimed == NoSlip(DataSlips)
=============================================================================
