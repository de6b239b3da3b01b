---------------------------- MODULE RecordStore ----------------------------
(***************************************************************************)
(* What Storage takes a RecordFile to be (Storage.tla has two of them): an *)
(* array of records that is appended to and truncated in single steps.  If *)
(* the process is killed, the array is found again as it was, or the file  *)
(* is refused; the latter only if a change was under way.                  *)
(***************************************************************************)
EXTENDS Integers, Sequences

CONSTANT Records   \* the values of a record

VARIABLES
    content,  \* the array
    status    \* "open", "busy" (open, and a change is under way), "closed"
              \*   (it will be found again) or "bad" (it will be refused)

vars == <<content, status>>

Init == content = <<>> /\ status = "open"

\* A change begins; records will be appended when it ends.
Begin == /\ status = "open"
         /\ status' = "busy"
         /\ UNCHANGED content

\* The array is cut as the change begins.
Truncate == /\ status = "open"
            /\ \E n \in 0 .. Len(content) : content' = SubSeq(content, 1, n)
            /\ status' = "busy"

\* A change ends, perhaps with records appended.
Finish == /\ status = "busy"
          /\ content' \in Seq(Records)
          /\ Len(content) <= Len(content')
          /\ content = SubSeq(content', 1, Len(content))
          /\ status' = "open"

Kill == /\ \/ status = "open" /\ status' = "closed"
           \/ status = "busy" /\ status' \in {"closed", "bad"}
        /\ UNCHANGED content

Reopen == /\ status = "closed"
          /\ status' = "open"
          /\ UNCHANGED content

Next == Begin \/ Truncate \/ Finish \/ Kill \/ Reopen

Spec == Init /\ [][Next]_vars

=============================================================================
