----------------------------- MODULE RecordFile -----------------------------
(***************************************************************************)
(* RecordFile.cpp: a file of fixed-size records whose header counts them.  *)
(* Data reaches the file through QFile's buffer, in pieces, before the new *)
(* count does; the process may be killed between any two writes.           *)
(*                                                                         *)
(* recs is the file as the process sees it: recs[1 .. flushed] and perhaps *)
(* a part of the next record are on disk, the rest is in QFile's buffer.   *)
(* nrecs is Len(recs).  rwlock is held exclusively while an operation is   *)
(* under way (Locked).                                                     *)
(***************************************************************************)
EXTENDS Integers, Sequences

CONSTANTS
    Records,   \* the values of a record
    MaxRecs    \* bound: records in the file, including unwritten ones

ASSUME MaxRecsAssumption == MaxRecs \in Nat

VARIABLES
    status,   \* "open", "closed", or "refused": the constructor has thrown
    op,       \* "idle", "append", "flushed", "resized" or "failed"
    recs,
    flushed,
    part,     \* 1 if a part of record flushed + 1 is on disk, else 0
    hdr       \* the number of records in the header on disk

vars == <<status, op, recs, flushed, part, hdr>>

\* The constructor creates the file with an empty header.
Init == /\ status = "open"
        /\ op = "idle"
        /\ recs = <<>>
        /\ flushed = 0
        /\ part = 0
        /\ hdr = 0

\* The size of the file is that of nrecs records (and everything is flushed,
\* since QFile::size() flushes).
SizeMatches(nrecs) == nrecs = flushed /\ part = 0

\* beginBatchAppend: the constructor of the context checks the size.
BeginBatchAppend ==
    /\ status = "open" /\ op = "idle"
    /\ SizeMatches(Len(recs))
    /\ op' = "append"
    /\ UNCHANGED <<status, recs, flushed, part, hdr>>

\* BatchAppendContext::append, into QFile's buffer
Append1(r) ==
    /\ status = "open" /\ op = "append"
    /\ Len(recs) < MaxRecs
    /\ recs' = Append(recs, r)
    /\ UNCHANGED <<status, op, flushed, part, hdr>>

\* appendRecord(r, true), up to its write
AppendRecord(r) ==
    /\ status = "open" /\ op = "idle"
    /\ Len(recs) < MaxRecs
    /\ recs' = Append(recs, r)
    /\ op' = "append"
    /\ UNCHANGED <<status, flushed, part, hdr>>

\* QFile writes a part of its buffer (external).
Spill ==
    /\ status = "open" /\ op = "append"
    /\ \E k \in flushed .. Len(recs) :
          /\ flushed' = k
          /\ part' \in IF k < Len(recs) THEN {0, 1} ELSE {0}
    /\ UNCHANGED <<status, op, recs, hdr>>

\* writeNewSizeToHeader, the seek to the header, which flushes the records
FlushRecords ==
    /\ status = "open" /\ op = "append"
    /\ flushed' = Len(recs)
    /\ part' = 0
    /\ op' = "flushed"
    /\ UNCHANGED <<status, recs, hdr>>

\* The flush fails, the disk being full: appendRecord returns no value, the
\* destructor of a batch is Fatal.  The lock is released with nrecs counted up;
\* what the program still does before it quits is not modelled.
FlushFails ==
    /\ status = "open" /\ op = "append"
    /\ flushed < Len(recs)
    /\ op' = "failed"
    /\ UNCHANGED <<status, recs, flushed, part, hdr>>

\* A mutant for Truncate: the lock is released with the old count on disk.
TruncateNoHeader(n) ==
    /\ status = "open" /\ op = "idle"
    /\ n < Len(recs)
    /\ recs' = SubSeq(recs, 1, n)
    /\ flushed' = n
    /\ UNCHANGED <<status, op, part, hdr>>

\* truncate(n): the file is cut first, the header comes later.  That resize and
\* the write of the header fail, with the disk not full, is not modelled.
Truncate(n) ==
    /\ status = "open" /\ op = "idle"
    /\ n < Len(recs)
    /\ recs' = SubSeq(recs, 1, n)
    /\ flushed' = n
    /\ op' = "resized"
    /\ UNCHANGED <<status, part, hdr>>

\* writeNewSizeToHeader, the write; its check of the size flushes it.
WriteHeader ==
    /\ status = "open" /\ op \in {"flushed", "resized"}
    /\ hdr' = Len(recs)
    /\ op' = IF SizeMatches(Len(recs)) THEN "idle" ELSE "failed"
    /\ UNCHANGED <<status, recs, flushed, part>>

\* The process is killed: what is in the buffer is gone.
Kill ==
    /\ status = "open"
    /\ status' = "closed"
    /\ op' = "idle"
    /\ recs' = SubSeq(recs, 1, flushed)
    /\ UNCHANGED <<flushed, part, hdr>>

\* The constructor's test: the size is what the header's count says.
Cromulent == SizeMatches(hdr)

\* A mutant for Open: the header is set right instead.
OpenRepairs ==
    /\ status = "closed"
    /\ status' = "open"
    /\ part' = 0
    /\ hdr' = flushed
    /\ UNCHANGED <<op, recs, flushed>>

\* The constructor on an existing file
Open ==
    /\ status = "closed"
    /\ status' = IF Cromulent THEN "open" ELSE "refused"
    /\ UNCHANGED <<op, recs, flushed, part, hdr>>

Next == \/ BeginBatchAppend
        \/ \E r \in Records : Append1(r) \/ AppendRecord(r)
        \/ Spill \/ FlushRecords \/ FlushFails
        \/ \E n \in 0 .. MaxRecs : Truncate(n)
        \/ WriteHeader \/ Kill \/ Open

Spec == Init /\ [][Next]_vars

-----------------------------------------------------------------------------

\* The variables have their types.
TypeOK ==
    /\ status \in {"open", "closed", "refused"}
    /\ op \in {"idle", "append", "flushed", "resized", "failed"}
    /\ recs \in Seq(Records)
    /\ flushed \in 0 .. Len(recs)
    /\ part \in {0, 1}
    /\ hdr \in Nat

(***************************************************************************)
(* readRecord, readRecords and readRandomRecords open the file anew under  *)
(* the shared lock and read records below nrecs: whenever the operations   *)
(* so far have succeeded and none holds the lock, all of them are on disk, *)
(* whole, and the header says so.                                          *)
(***************************************************************************)
ReadersFindRecords ==
    status = "open" /\ op = "idle" => SizeMatches(Len(recs)) /\ hdr = Len(recs)

\* The inductive invariant: how far each operation has come.
Inv ==
    /\ TypeOK
    /\ ReadersFindRecords
    /\ op \in {"append", "flushed", "failed"} => hdr <= flushed
    /\ op = "flushed" => SizeMatches(Len(recs))
    /\ op = "resized" => SizeMatches(Len(recs)) /\ hdr > Len(recs)
    /\ part # 0 => op \in {"append", "failed"} \/ status # "open"
    /\ status # "open" => flushed = Len(recs) /\ op = "idle"

(***************************************************************************)
(* The file is the RecordStore that Storage relies on.  Its content is the *)
(* records that the header counts (after a resize, those that are left).   *)
(***************************************************************************)
Content == SubSeq(recs, 1, IF hdr < Len(recs) THEN hdr ELSE Len(recs))

Status == IF status = "open" THEN IF op = "idle" THEN "open" ELSE "busy"
                             ELSE IF Cromulent THEN "closed" ELSE "bad"

Store == INSTANCE RecordStore WITH content <- Content, status <- Status

\* However the process is killed, a file that is accepted afterwards holds
\* exactly the records of the completed operations.
RefinesRecordStore == Store!Spec

=============================================================================
