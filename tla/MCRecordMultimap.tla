-------------------------- MODULE MCRecordMultimap --------------------------
(***************************************************************************)
(* TLC instances of RecordMultimap: a writer that adds and deletes, a      *)
(* second one that adds, to one of the keys at the same time, and a        *)
(* reader; or two threads that add.                                        *)
(***************************************************************************)
EXTENDS RecordMultimap, TLC

CONSTANTS writer, second, reader, k1, k2

WriterCalls ==
    writer :> {"add", "delete"} @@ second :> {"add"} @@ reader :> {"lookup"}

AddCalls == writer :> {"add"} @@ second :> {"add"}
=============================================================================
