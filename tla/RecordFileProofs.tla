-------------------------- MODULE RecordFileProofs --------------------------
(***************************************************************************)
(* RecordFile implements RecordStore, for any records and any number of    *)
(* them.                                                                   *)
(***************************************************************************)
EXTENDS RecordFile, TLAPS

\* What SubSeq from the first record has.
LEMMA Prefix ==
    ASSUME NEW s \in Seq(Records), NEW n \in 0 .. Len(s)
    PROVE  /\ SubSeq(s, 1, n) \in Seq(Records)
           /\ Len(SubSeq(s, 1, n)) = n
           /\ \A i \in 1 .. n : SubSeq(s, 1, n)[i] = s[i]
  OBVIOUS

\* Sequences of records are equal if they have the same records.
LEMMA SameRecords ==
    ASSUME NEW s \in Seq(Records), NEW t \in Seq(Records), Len(s) = Len(t),
           \A i \in 1 .. Len(s) : s[i] = t[i]
    PROVE  s = t
  OBVIOUS

\* A prefix of a prefix is a prefix.
LEMMA PrefixOfPrefix ==
    ASSUME NEW s \in Seq(Records), NEW n \in 0 .. Len(s), NEW k \in 0 .. n
    PROVE  SubSeq(SubSeq(s, 1, n), 1, k) = SubSeq(s, 1, k)
  <1>1. /\ SubSeq(s, 1, n) \in Seq(Records)
        /\ Len(SubSeq(s, 1, n)) = n
        /\ \A i \in 1 .. n : SubSeq(s, 1, n)[i] = s[i]
    BY Prefix
  <1>2. k \in 0 .. Len(SubSeq(s, 1, n)) /\ k \in 0 .. Len(s)
    BY <1>1
  <1>3. /\ SubSeq(SubSeq(s, 1, n), 1, k) \in Seq(Records)
        /\ Len(SubSeq(SubSeq(s, 1, n), 1, k)) = k
        /\ \A i \in 1 .. k :
              SubSeq(SubSeq(s, 1, n), 1, k)[i] = SubSeq(s, 1, n)[i]
    BY <1>1, <1>2, Prefix
  <1>4. /\ SubSeq(s, 1, k) \in Seq(Records)
        /\ Len(SubSeq(s, 1, k)) = k
        /\ \A i \in 1 .. k : SubSeq(s, 1, k)[i] = s[i]
    BY <1>2, Prefix
  <1> QED
    BY <1>1, <1>3, <1>4, SameRecords

\* The prefixes of a sequence are not changed by an append.
LEMMA PrefixOfAppend ==
    ASSUME NEW s \in Seq(Records), NEW r \in Records, NEW k \in 0 .. Len(s)
    PROVE  /\ Append(s, r) \in Seq(Records)
           /\ Len(Append(s, r)) = Len(s) + 1
           /\ SubSeq(Append(s, r), 1, k) = SubSeq(s, 1, k)
  <1>1. /\ Append(s, r) \in Seq(Records)
        /\ Len(Append(s, r)) = Len(s) + 1
        /\ \A i \in 1 .. Len(s) : Append(s, r)[i] = s[i]
    OBVIOUS
  <1>2. k \in 0 .. Len(Append(s, r))
    BY <1>1
  <1>3. /\ SubSeq(Append(s, r), 1, k) \in Seq(Records)
        /\ Len(SubSeq(Append(s, r), 1, k)) = k
        /\ \A i \in 1 .. k : SubSeq(Append(s, r), 1, k)[i] = Append(s, r)[i]
    BY <1>1, <1>2, Prefix
  <1>4. /\ SubSeq(s, 1, k) \in Seq(Records)
        /\ Len(SubSeq(s, 1, k)) = k
        /\ \A i \in 1 .. k : SubSeq(s, 1, k)[i] = s[i]
    BY Prefix
  <1> QED
    BY <1>1, <1>3, <1>4, SameRecords

\* A sequence is its longest prefix.
LEMMA WholePrefix ==
    ASSUME NEW s \in Seq(Records)
    PROVE  SubSeq(s, 1, Len(s)) = s
  <1>1. Len(s) \in 0 .. Len(s)
    OBVIOUS
  <1>2. /\ SubSeq(s, 1, Len(s)) \in Seq(Records)
        /\ Len(SubSeq(s, 1, Len(s))) = Len(s)
        /\ \A i \in 1 .. Len(s) : SubSeq(s, 1, Len(s))[i] = s[i]
    BY <1>1, Prefix
  <1> QED
    BY <1>2, SameRecords

-----------------------------------------------------------------------------

\* The constructor's new file satisfies the invariant.
LEMMA InitInv == Init => Inv
  BY DEF Init, Inv, TypeOK, ReadersFindRecords, SizeMatches

\* Every step of every operation, a kill and a start preserve it.
LEMMA NextInv == Inv /\ [Next]_vars => Inv'
  <1> SUFFICES ASSUME Inv, [Next]_vars PROVE Inv'
    OBVIOUS
  <1> USE DEF Inv, TypeOK, ReadersFindRecords, SizeMatches
  <1>1. CASE BeginBatchAppend
    BY <1>1 DEF BeginBatchAppend
  <1>2. ASSUME NEW r \in Records, Append1(r) PROVE Inv'
    <2>1. recs' \in Seq(Records) /\ Len(recs') = Len(recs) + 1
      BY <1>2 DEF Append1
    <2> QED
      BY <1>2, <2>1 DEF Append1
  <1>3. ASSUME NEW r \in Records, AppendRecord(r) PROVE Inv'
    <2>1. recs' \in Seq(Records) /\ Len(recs') = Len(recs) + 1
      BY <1>3 DEF AppendRecord
    <2> QED
      BY <1>3, <2>1 DEF AppendRecord
  <1>4. CASE Spill
    <2>1. part' \in {0, 1}
      BY <1>4 DEF Spill
    <2> QED
      BY <1>4, <2>1 DEF Spill
  <1>5. CASE FlushRecords
    BY <1>5 DEF FlushRecords
  <1>6. CASE FlushFails
    BY <1>6 DEF FlushFails
  <1>7. ASSUME NEW n \in 0 .. MaxRecs, Truncate(n) PROVE Inv'
    <2>1. n \in 0 .. Len(recs)
      BY <1>7, MaxRecsAssumption DEF Truncate
    <2>2. recs' \in Seq(Records) /\ Len(recs') = n
      BY <1>7, <2>1, Prefix DEF Truncate
    <2> QED
      BY <1>7, <2>1, <2>2 DEF Truncate
  <1>8. CASE WriteHeader
    BY <1>8 DEF WriteHeader
  <1>9. CASE Kill
    <2>1. recs' \in Seq(Records) /\ Len(recs') = flushed
      BY <1>9, Prefix DEF Kill
    <2> QED
      BY <1>9, <2>1 DEF Kill
  <1>10. CASE Open
    BY <1>10 DEF Open, Cromulent
  <1>11. CASE UNCHANGED vars
    BY <1>11 DEF vars
  <1> QED
    BY <1>1, <1>2, <1>3, <1>4, <1>5, <1>6, <1>7, <1>8, <1>9, <1>10, <1>11
       DEF Next

\* The invariant holds in every reachable state of RecordFile.
THEOREM Invariance == Spec => []Inv
  BY InitInv, NextInv, PTL DEF Spec

\* Readers under the shared lock find every record below nrecs on disk.
THEOREM ReadersCorrect == Spec => []ReadersFindRecords
  <1>1. Inv => ReadersFindRecords
    BY DEF Inv
  <1> QED
    BY <1>1, Invariance, PTL

-----------------------------------------------------------------------------

\* The number of records in Content.
Count == IF hdr < Len(recs) THEN hdr ELSE Len(recs)

\* A step that leaves the counted records alone leaves the content alone.
LEMMA SameContent ==
    ASSUME Inv, Inv', Count' = Count,
           SubSeq(recs', 1, Count) = SubSeq(recs, 1, Count)
    PROVE  Content' = Content
  BY DEF Content, Count

\* A new file is an empty array.
LEMMA InitRefines == Init => Store!Init
  <1> SUFFICES ASSUME Init PROVE Store!Init
    OBVIOUS
  <1>1. Content = <<>>
    BY DEF Init, Content
  <1>2. Status = "open"
    BY DEF Init, Status
  <1> QED
    BY <1>1, <1>2 DEF Store!Init

\* Every step of RecordFile is a step of RecordStore or leaves it alone.
LEMMA NextRefines ==
    ASSUME Inv, Inv', [Next]_vars
    PROVE  [Store!Next]_Store!vars
  <1> USE DEF Inv, TypeOK, ReadersFindRecords, SizeMatches
  <1>0. Count \in 0 .. Len(recs)
    BY DEF Count
  <1>1. CASE BeginBatchAppend
    <2>1. Content' = Content
      BY <1>1 DEF BeginBatchAppend, Content
    <2>2. Status = "open" /\ Status' = "busy"
      BY <1>1 DEF BeginBatchAppend, Status
    <2> QED
      BY <2>1, <2>2 DEF Store!Next, Store!Begin
  <1>2. ASSUME NEW r \in Records, Append1(r)
        PROVE  [Store!Next]_Store!vars
    <2>1. recs' = Append(recs, r) /\ hdr' = hdr /\ hdr <= Len(recs)
      BY <1>2 DEF Append1
    <2>2. hdr \in 0 .. Len(recs) /\ Len(recs') = Len(recs) + 1
      BY <2>1
    <2>3. SubSeq(recs', 1, hdr) = SubSeq(recs, 1, hdr)
      BY <2>1, <2>2, PrefixOfAppend
    <2>4. Content' = Content
      BY <2>1, <2>2, <2>3 DEF Content
    <2>5. Status' = Status
      BY <1>2 DEF Append1, Status
    <2> QED
      BY <2>4, <2>5 DEF Store!vars
  <1>3. ASSUME NEW r \in Records, AppendRecord(r)
        PROVE  [Store!Next]_Store!vars
    <2>1. recs' = Append(recs, r) /\ hdr' = hdr /\ hdr <= Len(recs)
      BY <1>3 DEF AppendRecord
    <2>2. hdr \in 0 .. Len(recs) /\ Len(recs') = Len(recs) + 1
      BY <2>1
    <2>3. SubSeq(recs', 1, hdr) = SubSeq(recs, 1, hdr)
      BY <2>1, <2>2, PrefixOfAppend
    <2>4. Content' = Content
      BY <2>1, <2>2, <2>3 DEF Content
    <2>5. Status = "open" /\ Status' = "busy"
      BY <1>3 DEF AppendRecord, Status
    <2> QED
      BY <2>4, <2>5 DEF Store!Next, Store!Begin
  <1>4. CASE Spill \/ FlushRecords \/ FlushFails
    <2>1. Content' = Content
      BY <1>4 DEF Spill, FlushRecords, FlushFails, Content
    <2>2. Status' = Status
      BY <1>4 DEF Spill, FlushRecords, FlushFails, Status
    <2> QED
      BY <2>1, <2>2 DEF Store!vars
  <1>5. ASSUME NEW n \in 0 .. MaxRecs, Truncate(n)
        PROVE  [Store!Next]_Store!vars
    <2>1. /\ n \in 0 .. Len(recs) /\ n < Len(recs)
          /\ hdr = Len(recs) /\ hdr' = hdr
          /\ recs' = SubSeq(recs, 1, n)
      BY <1>5, MaxRecsAssumption DEF Truncate
    <2>2. Content = recs
      BY <2>1, WholePrefix DEF Content
    <2>3. recs' \in Seq(Records) /\ Len(recs') = n
      BY <2>1, Prefix
    <2>4. Content' = recs'
      BY <2>1, <2>3, WholePrefix DEF Content
    <2>5. Status = "open" /\ Status' = "busy"
      BY <1>5 DEF Truncate, Status
    <2>6. Store!Truncate
      BY <2>1, <2>2, <2>4, <2>5 DEF Store!Truncate
    <2> QED
      BY <2>6 DEF Store!Next
  <1>6. CASE WriteHeader
    <2>1. /\ hdr' = Len(recs) /\ recs' = recs
          /\ op' = "idle" /\ status' = "open" /\ status = "open"
          /\ op \in {"flushed", "resized"}
      BY <1>6 DEF WriteHeader
    <2>2. Content' = recs
      BY <2>1, WholePrefix DEF Content
    <2>3. /\ Content \in Seq(Records) /\ Len(Content) = Count
          /\ Content = SubSeq(recs, 1, Count)
      BY <1>0, Prefix DEF Content, Count
    <2>4. Status = "busy" /\ Status' = "open"
      BY <2>1 DEF Status
    <2>5. Store!Finish
      BY <1>0, <2>2, <2>3, <2>4 DEF Store!Finish
    <2> QED
      BY <2>5 DEF Store!Next
  <1>7. CASE Kill
    <2>1. /\ recs' = SubSeq(recs, 1, flushed) /\ hdr' = hdr
          /\ flushed' = flushed /\ part' = part
          /\ status = "open" /\ status' = "closed" /\ op' = "idle"
      BY <1>7 DEF Kill
    <2>2. Len(recs') = flushed /\ recs' \in Seq(Records)
      BY <2>1, Prefix
    <2>3. Count \in 0 .. flushed /\ Count' = Count
      BY <2>1, <2>2 DEF Count
    <2>4. SubSeq(recs', 1, Count) = SubSeq(recs, 1, Count)
      BY <2>1, <2>3, PrefixOfPrefix
    <2>5. Content' = Content
      BY <2>3, <2>4, SameContent
    <2>6. CASE op = "idle"
      <3>1. Status = "open" /\ Status' = "closed"
        BY <2>1, <2>6 DEF Status, Cromulent
      <3> QED
        BY <2>5, <3>1 DEF Store!Next, Store!Kill
    <2>7. CASE op # "idle"
      <3>1. Status = "busy" /\ Status' \in {"closed", "bad"}
        BY <2>1, <2>7 DEF Status
      <3> QED
        BY <2>5, <3>1 DEF Store!Next, Store!Kill
    <2> QED
      BY <2>6, <2>7
  <1>8. CASE Open
    <2>1. Content' = Content
      BY <1>8 DEF Open, Content
    <2>2. CASE Cromulent
      <3>1. Status = "closed" /\ Status' = "open"
        BY <1>8, <2>2 DEF Open, Status
      <3> QED
        BY <2>1, <3>1 DEF Store!Next, Store!Reopen
    <2>3. CASE ~Cromulent
      <3>1. Status' = Status
        BY <1>8, <2>3 DEF Open, Status, Cromulent
      <3> QED
        BY <2>1, <3>1 DEF Store!vars
    <2> QED
      BY <2>2, <2>3
  <1>9. CASE UNCHANGED vars
    <2>1. Content' = Content /\ Status' = Status
      BY <1>9 DEF vars, Content, Status, Cromulent
    <2> QED
      BY <2>1 DEF Store!vars
  <1> QED
    BY <1>1, <1>2, <1>3, <1>4, <1>5, <1>6, <1>7, <1>8, <1>9 DEF Next

\* RecordFile implements RecordStore: however its buffered writes are cut
\* short by a kill, a file that the constructor accepts holds exactly the
\* records of the completed operations.
THEOREM Refinement == Spec => RefinesRecordStore
  BY InitRefines, NextRefines, Invariance, PTL
     DEF Spec, RefinesRecordStore, Store!Spec

=============================================================================
