----------------------------- MODULE MCRunLogs ------------------------------
(***************************************************************************)
(* Archives of up to three entries against limits that fall before, inside *)
(* and after headers and contents.                                         *)
(***************************************************************************)
EXTENDS RunLogs, SequencesExt

Folder   == [dir |-> TRUE,  opens |-> TRUE,  header |-> 2, readable |-> 0, whole |-> TRUE]
Locked   == [dir |-> FALSE, opens |-> FALSE, header |-> 2, readable |-> 2, whole |-> TRUE]
File(n)  == [dir |-> FALSE, opens |-> TRUE,  header |-> 2, readable |-> n, whole |-> TRUE]
Damaged  == [dir |-> FALSE, opens |-> TRUE,  header |-> 2, readable |-> 1, whole |-> FALSE]

MCEntries == {Folder, Locked, File(0), File(1), File(3), Damaged}

MCBodies ==
  [zip : {FALSE}, length : {0, 1, 5}, files : {<<>>}]
    \cup [zip : {TRUE}, length : {1}, files : BoundedSeq(MCEntries, 3)]

MCConfigLimits == {1, 2, 3, 5, 8, 20}
MCAskedLimits  == {-1, 0, 4, 7, 30}
=============================================================================
