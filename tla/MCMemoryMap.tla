---------------------------- MODULE MCMemoryMap ----------------------------
(***************************************************************************)
(* Instances of MemoryMap for TLC: the start infos and the rows of a       *)
(* record_multimap.                                                        *)
(***************************************************************************)
EXTENDS MemoryMap

CONSTANTS lookup, rows

\* add_to_list holds the accessor of a start info while it inserts a row.
LookupThenRows == {<<lookup, rows>>}
=============================================================================
