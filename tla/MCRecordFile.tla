---------------------------- MODULE MCRecordFile ----------------------------
(***************************************************************************)
(* RecordFile for TLC: two values of a record, four records.               *)
(***************************************************************************)
EXTENDS RecordFile

=============================================================================
