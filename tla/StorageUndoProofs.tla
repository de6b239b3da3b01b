-------------------------- MODULE StorageUndoProofs ---------------------------
(***************************************************************************)
(* Each step of undoLatestBlock and of the worker preserves IInv.          *)
(***************************************************************************)
EXTENDS StorageLemmas

-----------------------------------------------------------------------------
(* undoLatestBlock                                                         *)

\* The start of undoLatestBlock preserves IInv: its sanity checks all pass, and
\* the tip becomes the block between two indexes.
LEMMA UndoLatestBlockStep == IInv /\ UndoLatestBlock => IInv'
<1> SUFFICES ASSUME IInv, UndoLatestBlock PROVE IInv'
  OBVIOUS
<1>0. /\ RestInv /\ pc = "idle" /\ ~ dirty /\ worker = "none" /\ TypeOK
      /\ verifier = Verified(headers) /\ txNumNext = Len(txNums)
  BY DEF UndoLatestBlock, IInv, AtRest, RestPcs, FlagInv, CounterInv, WorkerInv, TypeOK,
         ControlTyped, AddPcs, UndoPcs
<1>1. /\ UNCHANGED <<headers, txNums, blkinfo, utxoset, shunspent, shist, undo,
                     txhash2txnum, largestTxNumSeen, utxoCtDb, worker, saveUndo,
                     txNumNext, utxoCt, earliestUndoHeight, depth>>
  BY DEF UndoLatestBlock
<1>a. /\ headers \in Seq(Block) /\ txNums \in Seq(Tx) /\ Len(txNums) \in Nat
      /\ blkinfo \in Seq([txNum0 : Nat, nTx : Nat]) /\ UndoTyped
  BY <1>0 DEF TypeOK, TablesTyped
<1>k. PICK k \in Nat : k = Len(headers)
  BY <1>a
<1>b. verifier.n = k /\ Tip = k - 1 /\ Len(blkinfo) = k /\ UndoMatches
  BY <1>0, <1>k DEF Verified, Tip, RestInv
<1>2. CASE pc' = "noundo" /\ UNCHANGED <<dirty, cur, txNum0, info, verifier>>
  <2>1. TypeOK'
    BY <1>0, <1>1, <1>2, TypeFrames DEF TypeOK, ControlTyped, IdlePcs
  <2>2. FlagInv' /\ CounterInv' /\ WorkerInv'
    BY <1>0, <1>1, <1>2 DEF FlagInv, CounterInv, WorkerInv, Mid, RestPcs, AddPcs, UndoPcs,
                            Verified
  <2>3. TxHashInv' /\ CountInv'
    BY <1>0, <1>1, <1>2 DEF IInv, TxHashInv, TxHashesBelow, UndoPcs, AddPcs, Indexed, Claimed,
                            Truncating, CountInv, Mid
  <2>4. AtRest' /\ RestInv' /\ ~ Mid'
    BY <1>0, <1>1, <1>2, RestFrame DEF AtRest, RestPcs, Mid, AddPcs, UndoPcs
  <2> QED BY <2>1, <2>2, <2>3, <2>4 DEF IInv
<1>3. CASE Tip > 0 /\ Tip \in DOMAIN undo
  <2>1. k - 1 \in Nat /\ k - 1 > 0 /\ k \in 1..k /\ (k - 1) + 1 = k
    BY <1>b, <1>3
  <2> DEFINE rec == undo[k - 1]
  <2>2. RecordReverts(rec, headers[k], blkinfo[k]) /\ IsUndoInfo(rec)
    <3>1. RecordReverts(undo[k - 1], headers[(k - 1) + 1], blkinfo[(k - 1) + 1])
      BY <1>b, <1>3 DEF UndoMatches
    <3> QED BY <1>a, <1>b, <1>3, <2>1, <3>1 DEF UndoTyped
  <2>3. verifier.last = headers[k]
    <3>1. headers # <<>>
      BY <1>a, <1>k, <2>1, EmptyFile
    <3> QED BY <1>0, <1>k, <3>1 DEF Verified, LastHeader
  <2>4. UndoIsSane(undo[Tip])
    BY <1>b, <2>1, <2>2, <2>3 DEF UndoIsSane, RecordReverts
  <2>5. /\ cur' = headers[k] /\ info' = rec /\ txNum0' = rec.blkInfo.txNum0
        /\ verifier' = [n |-> k - 1, last |-> headers[k - 1]]
        /\ dirty' = TRUE /\ pc' = "u_header"
    BY <1>b, <1>3, <2>3, <2>4 DEF UndoLatestBlock
  <2> HIDE DEF rec
  <2>6. /\ headers[k] \in Block /\ headers[k - 1] \in Block
        /\ blkinfo[k] \in [txNum0 : Nat, nTx : Nat]
    <3>1. k \in 1..Len(headers) /\ k - 1 \in 1..Len(headers) /\ k \in 1..Len(blkinfo)
      BY <1>k, <1>b, <2>1
    <3> QED BY <1>a, <3>1, RecordOfFile, Zenon
  <2>7. BaseLen' = k - 1
    BY <1>1, <1>k, <2>5 DEF BaseLen
  <2>8. /\ Linked(k) /\ ChainValid(k) /\ Numbered(k) /\ Len(txNums) = TxTotal(k)
        /\ UtxosAre(UtxosOf(headers), Len(txNums)) /\ shunspent = ShunspentKeys(utxoset)
        /\ HistoriesBelow(Len(txNums))
    BY <1>0, <1>k DEF RestInv
  <2>9. /\ blkinfo[k].txNum0 = TxTotal(k - 1) /\ blkinfo[k].nTx = Len(Txs[headers[k]])
        /\ \A j \in 1..Len(Txs[headers[k]]) :
             txNums[blkinfo[k].txNum0 + j] = Txs[headers[k]][j]
    BY <2>1, <2>8, SMTT(30) DEF Numbered
  <2>10. /\ txNum0' = TxTotal(k - 1) /\ txNum0' \in Nat
         /\ Len(txNums) = txNum0' + Len(Txs[headers[k]])
         /\ blkinfo[k] = [txNum0 |-> txNum0', nTx |-> Len(Txs[headers[k]])]
    <3>1. rec.blkInfo = blkinfo[k]
      BY <2>2 DEF RecordReverts
    <3>2. txNum0' = blkinfo[k].txNum0
      BY <2>5, <3>1
    <3>3. TxTotal(k) = blkinfo[k].txNum0 + blkinfo[k].nTx
      BY <2>1 DEF TxTotal
    <3> QED BY <2>6, <2>8, <2>9, <3>2, <3>3
  <2>11. MidChain'
    <3>1. Numbered(k - 1)
      <4>1. 1..(k - 1) \subseteq 1..k /\ Len(blkinfo) >= k - 1
        BY <1>b, <2>1
      <4>2. ASSUME NEW m \in 1..TxTotal(k - 1)
            PROVE  \E i \in 1..(k - 1) :
                     blkinfo[i].txNum0 < m /\ m <= blkinfo[i].txNum0 + blkinfo[i].nTx
        <5>1. m \in 1..TxTotal(k) /\ ~ (blkinfo[k].txNum0 < m)
          <6>1. TxTotal(k) = TxTotal(k - 1) + blkinfo[k].nTx /\ TxTotal(k - 1) \in Nat
                /\ blkinfo[k].nTx \in Nat
            BY <2>1, <2>6, <2>9 DEF TxTotal
          <6> QED BY <2>9, <6>1
        <5>2. PICK i \in 1..k : blkinfo[i].txNum0 < m /\ m <= blkinfo[i].txNum0 + blkinfo[i].nTx
          BY <2>8, <5>1 DEF Numbered
        <5>3. i # k
          BY <5>1, <5>2
        <5>4. i \in 1..(k - 1)
          BY <2>1, <5>3
        <5> QED BY <5>2, <5>4
      <4> QED BY <2>8, <4>1, <4>2, Zenon DEF Numbered
    <3>2. Numbered(k - 1)' /\ TxTotal(k - 1)' = TxTotal(k - 1)
      <4>1. \A i : TxTotal(i)' = TxTotal(i)
        BY <1>1 DEF TxTotal
      <4> QED BY <1>1, <3>1, <4>1 DEF Numbered
    <3>3. ChainValid(k - 1)' /\ ValidAbove(headers[k], headers, k - 1)
      BY <1>1, <2>1, <2>8 DEF ChainValid
    <3>4. Linked(k)' /\ Prev[headers[k]] = headers[k - 1]
      BY <1>1, <2>1, <2>8 DEF Linked
    <3> QED BY <1>1, <1>k, <2>1, <2>5, <2>6, <2>7, <2>10, <3>2, <3>3, <3>4 DEF MidChain
  <2>12. MidTxNums' /\ MidBlkInfo'
    BY <1>1, <1>b, <2>1, <2>5, <2>7, <2>9, <2>10 DEF MidTxNums, Segment, MidBlkInfo, CurInfo
  <2>13. FullUtxos' = UtxosOf(headers)
    <3>1. UtxosUpTo(headers, (k - 1) + 1) =
            (UtxosUpTo(headers, k - 1) \ SpentBy(headers[(k - 1) + 1]))
              \cup CreatedBy(headers[(k - 1) + 1])
      <4>1. \A i \in 1..(k - 1) : ValidAbove(headers[i], headers, i - 1)
        BY <2>1, <2>8 DEF ChainValid
      <4>2. ValidAbove(headers[(k - 1) + 1], headers, k - 1)
        BY <2>1, <2>8 DEF ChainValid
      <4>3. headers[(k - 1) + 1] \in Block
        BY <2>1, <2>6
      <4> QED BY <2>1, <4>1, <4>2, <4>3, UtxosStep
    <3> QED BY <1>1, <1>k, <2>1, <2>5, <2>7, <3>1 DEF UtxosOf, FullUtxos, BaseUtxos
  <2>14. MidUtxoSet' /\ MidShunspent' /\ MidShist'
    BY <1>1, <2>5, <2>8, <2>10, <2>13 DEF MidUtxoSet, UtxosAre, MidShunspent, MidShist,
                                         HistoriesBelow
  <2>15. MidInfo'
    <3>1. rec.blkInfo.txNum0 = txNum0' /\ blkinfo[k].txNum0 = txNum0'
      BY <2>5, <2>9, <2>10
    <3> QED BY <1>1, <2>2, <2>5, <3>1 DEF MidInfo, RecordReverts
  <2>16. MidUndo'
    <3>1. \A r, b, bi : RecordReverts(r, b, bi) => RecordReverts(r, b, bi)'
      BY <1>1, RecordKept, Zenon
    <3>2. ASSUME NEW h \in DOMAIN undo
          PROVE  \/ h < k - 1 /\ RecordReverts(undo[h], headers[h + 1], blkinfo[h + 1])
                 \/ h = k - 1 /\ RecordReverts(undo[h], headers[k], blkinfo[k])
      <4>1. h \in Nat /\ h < k
        BY <1>a, <1>b, <1>k DEF UndoTyped, UndoMatches
      <4> QED BY <1>b, <2>2, <4>1 DEF UndoMatches, rec
    <3>3. blkinfo[k] = CurInfo'
      BY <2>5, <2>10 DEF CurInfo
    <3> QED BY <1>1, <2>5, <2>7, <3>1, <3>2, <3>3 DEF MidUndo, UndoPcs
  <2>17. TypeOK'
    <3>1. LocalsTyped'
      BY <1>0, <1>1, <2>2, <2>5, <2>6, <2>10 DEF TypeOK, LocalsTyped
    <3>2. CountersTyped'
      BY <1>0, <1>1, <2>1, <2>5, <2>6 DEF TypeOK, CountersTyped
    <3> QED BY <1>0, <1>1, <2>5, <3>1, <3>2, TypeFrames DEF TypeOK, MetaTyped, ControlTyped, UndoPcs
  <2>18. FlagInv' /\ CounterInv' /\ WorkerInv'
    BY <1>0, <1>1, <2>1, <2>5, <2>7 DEF FlagInv, CounterInv, WorkerInv, Mid, RestPcs, AddPcs,
                                        UndoPcs
  <2>19. Mid' /\ ~ AtRest'
    BY <2>5 DEF Mid, AtRest, UndoPcs, RestPcs
  <2>20. TxHashInv'
    BY <1>0, <1>1, <2>5 DEF IInv, TxHashInv, TxHashesBelow, UndoPcs, Indexed, Claimed, Truncating
  <2>21. CountInv'
    BY <1>0, <1>1, <2>5, <2>8, <2>13 DEF IInv, CountInv, UtxosAre
  <2> QED BY <2>11, <2>12, <2>14, <2>15, <2>16, <2>17, <2>18, <2>19, <2>20, <2>21
          DEF IInv, MidInv
<1> QED BY <1>2, <1>3 DEF UndoLatestBlock

\* The truncation of the headers file preserves IInv.
LEMMA UndoHeaderStep == IInv /\ UndoHeader => IInv'
<1> SUFFICES ASSUME IInv, UndoHeader PROVE IInv'
  OBVIOUS
<1>0. Mid /\ pc = "u_header"
  BY DEF UndoHeader, Mid, UndoPcs
<1> USE MidFacts, <1>0
<1>1. /\ UNCHANGED <<txNums, blkinfo, utxoset, shunspent, shist, undo, txhash2txnum,
                 largestTxNumSeen, utxoCtDb, dirty, worker, cur, saveUndo, txNum0,
                 info, verifier, txNumNext, utxoCt, earliestUndoHeight, depth>>
      /\ pc' = "u_blkinfo" /\ headers' = SubSeq(headers, 1, verifier.n)
  BY DEF UndoHeader
<1>k. PICK k \in Nat : k = BaseLen
  OBVIOUS
<1>2. /\ Len(headers) = k + 1 /\ k > 0
      /\ verifier = [n |-> k, last |-> headers[k]] /\ txNumNext = Len(txNums)
  BY <1>k DEF BaseLen, IInv, CounterInv, UndoPcs, Mid
<1>3. /\ headers' \in Seq(Block) /\ Len(headers') = k
      /\ \A i \in 1..k : headers'[i] = headers[i]
  <2>1. headers' = SubSeq(headers, 1, k)
    BY <1>1, <1>2
  <2>2. 1 \in 1..(Len(headers) + 1) /\ k \in 0..Len(headers) /\ 1 <= k + 1
        /\ k - 1 + 1 = k
    BY <1>2
  <2> QED BY <2>1, <2>2, Prefix
<1>4. BaseLen' = k
  BY <1>1, <1>3 DEF BaseLen
<1>5. /\ Linked(k + 1) /\ ChainValid(k) /\ Numbered(k) /\ ValidAbove(cur, headers, k)
      /\ Prev[cur] = headers[k] /\ txNum0 = TxTotal(k)
  BY <1>k, <1>2 DEF MidInv, MidChain
<1>6. MidChain'
  <2>1. Numbered(k)' /\ TxTotal(k)' = TxTotal(k)
    <3>1. \A i : TxTotal(i)' = TxTotal(i)
      BY <1>1 DEF TxTotal
    <3>2. ASSUME NEW i \in 1..k
          PROVE  /\ blkinfo[i].txNum0 = TxTotal(i - 1)'
                 /\ blkinfo[i].nTx = Len(Txs[headers'[i]])
                 /\ \A j \in 1..Len(Txs[headers'[i]]) :
                      txNums[blkinfo[i].txNum0 + j] = Txs[headers'[i]][j]
      <4>1. headers'[i] = headers[i]
        BY <1>3
      <4>2. /\ blkinfo[i].txNum0 = TxTotal(i - 1) /\ blkinfo[i].nTx = Len(Txs[headers[i]])
            /\ \A j \in 1..Len(Txs[headers[i]]) :
                 txNums[blkinfo[i].txNum0 + j] = Txs[headers[i]][j]
        BY <1>5, Zenon DEF Numbered
      <4> QED BY <3>1, <4>1, <4>2, Zenon
    <3>3. /\ \A i, j \in 1..k : i < j => blkinfo[i].txNum0 + blkinfo[i].nTx <= blkinfo[j].txNum0
          /\ \A m \in 1..TxTotal(k) :
               \E i \in 1..k : blkinfo[i].txNum0 < m /\ m <= blkinfo[i].txNum0 + blkinfo[i].nTx
          /\ Len(blkinfo) >= k
      BY <1>5 DEF Numbered
    <3> QED BY <1>1, <3>1, <3>2, <3>3, Zenon DEF Numbered
  <2>2. Linked(k)'
    <3>1. ASSUME NEW i \in 1..k
          PROVE  Prev[headers'[i]] = IF i = 1 THEN NoBlock ELSE headers'[i - 1]
      <4>1. i \in 1..(k + 1) /\ (i = 1 \/ i - 1 \in 1..k)
        OBVIOUS
      <4>2. Prev[headers[i]] = IF i = 1 THEN NoBlock ELSE headers[i - 1]
        BY <1>5, <4>1, Zenon DEF Linked
      <4>3. headers'[i] = headers[i] /\ (i = 1 \/ headers'[i - 1] = headers[i - 1])
        BY <1>3, <4>1, Zenon
      <4> QED BY <4>2, <4>3, Zenon
    <3> QED BY <3>1, Zenon DEF Linked
  <2>3. ChainValid(k)'
    <3>1. ASSUME NEW i \in 1..k PROVE ValidAbove(headers'[i], headers', i - 1)
      <4>1. ValidAbove(headers[i], headers, i - 1) /\ i - 1 \in Nat /\ 1..(i - 1) \subseteq 1..k
        BY <1>5 DEF ChainValid
      <4>2. \A j \in 1..(i - 1) : headers[j] = headers'[j]
        BY <1>3, <4>1
      <4> QED BY <1>3, <4>1, <4>2, PrefixChain, Zenon
    <3> QED BY <3>1 DEF ChainValid
  <2>4. ValidAbove(cur, headers', k)
    BY <1>3, <1>5, PrefixChain, Zenon
  <2>5. k >= 0 /\ k # 0 /\ headers'[k] = headers[k]
    BY <1>2, <1>3
  <2> QED BY <1>1, <1>3, <1>4, <1>5, <2>1, <2>2, <2>3, <2>4, <2>5, Zenon DEF MidChain
<1>7. FullUtxos' = FullUtxos /\ BaseUtxos' = BaseUtxos
  <2>1. UtxosUpTo(headers', k) = UtxosUpTo(headers, k)
    BY <1>3, PrefixChain, ZenonT(30)
  <2> QED BY <1>1, <1>k, <1>4, <2>1 DEF FullUtxos, BaseUtxos
<1>8. MidTxNums' /\ MidBlkInfo'
  BY <1>1, <1>k, <1>4, Zenon DEF MidInv, MidTxNums, Segment, MidBlkInfo, CurInfo
<1>9. MidUtxoSet' /\ MidShunspent'
  BY <1>1, <1>7, Zenon DEF MidInv, MidUtxoSet, UtxosAre, MidShunspent
<1>10. MidInfo' /\ MidShist'
  <2>1. MidInfo'
    BY <1>1, Zenon DEF MidInv, MidInfo, UndoPcs
  <2>2. MidShist'
    BY <1>1, Zenon DEF MidInv, MidShist, HistoriesBelow
  <2> QED BY <2>1, <2>2
<1>11. MidUndo'
  <2>1. \A r, b, bi : RecordReverts(r, b, bi) => RecordReverts(r, b, bi)'
    BY <1>1, RecordKept, Zenon
  <2>2. ASSUME NEW h \in DOMAIN undo
        PROVE  \/ h < k /\ RecordReverts(undo[h], headers'[h + 1], blkinfo[h + 1])
               \/ h = k /\ RecordReverts(undo[h], cur, CurInfo)
    <3>1. h \in Nat
      BY DEF UndoTyped
    <3>2. CASE h < k /\ RecordReverts(undo[h], headers[h + 1], blkinfo[h + 1])
      <4>1. h + 1 \in 1..k
        BY <3>1, <3>2, SMTT(30)
      <4> QED BY <1>3, <3>2, <4>1
    <3>3. CASE h = k /\ RecordReverts(undo[h], cur, CurInfo)
      BY <3>3
    <3> QED BY <1>k, <3>2, <3>3 DEF MidInv, MidUndo
  <2>3. CurInfo' = CurInfo
    BY <1>1 DEF CurInfo
  <2> QED BY <1>1, <1>4, <2>1, <2>2, <2>3, Zenon DEF MidUndo, UndoPcs
<1>12. TypeOK'
  <2>1. TablesTyped'
    BY <1>1, <1>3 DEF TablesTyped
  <2> QED BY <1>1, <2>1, TypeFrames DEF IInv, TypeOK, ControlTyped, UndoPcs
<1>13. FlagInv' /\ WorkerInv'
  BY <1>1 DEF IInv, FlagInv, WorkerInv, Mid, RestPcs, AddPcs, UndoPcs, Segment
<1>14. CounterInv'
  <2>1. pc' \notin AddPcs /\ pc' \notin RestPcs \cup {"utxoct", "clean"} /\ pc' \in UndoPcs
    BY <1>1 DEF RestPcs, AddPcs, UndoPcs
  <2>2. verifier' = [n |-> k, last |-> headers'[k]] /\ txNumNext' = Len(txNums')
    <3>1. k \in 1..k
      BY <1>2
    <3> QED BY <1>1, <1>2, <1>3, <3>1, Zenon
  <2> QED BY <1>2, <1>4, <2>1, <2>2, Zenon DEF CounterInv
<1>15. TxHashInv'
  BY <1>1 DEF IInv, WorkerInv, TypeOK, ControlTyped, TxHashInv, TxHashesBelow, AddPcs, UndoPcs,
              Indexed, Claimed, Truncating
<1>16. CountInv'
  BY <1>1, <1>7 DEF IInv, CountInv
<1>17. Mid' /\ ~ AtRest'
  BY <1>1 DEF Mid, AtRest, UndoPcs, RestPcs
<1> QED BY <1>6, <1>8, <1>9, <1>10, <1>11, <1>12, <1>13, <1>14, <1>15, <1>16, <1>17
        DEF IInv, MidInv

\* The removal of the last blkInfo preserves IInv.
LEMMA UndoBlkInfoStep == IInv /\ UndoBlkInfo => IInv'
<1> SUFFICES ASSUME IInv, UndoBlkInfo PROVE IInv'
  OBVIOUS
<1>0. Mid /\ pc = "u_blkinfo"
  BY DEF UndoBlkInfo, Mid, UndoPcs
<1> USE MidFacts, <1>0
<1>1. /\ UNCHANGED <<headers, txNums, utxoset, shunspent, shist, undo, txhash2txnum,
                 largestTxNumSeen, utxoCtDb, dirty, cur, saveUndo, txNum0,
                 info, verifier, txNumNext, utxoCt, earliestUndoHeight, depth>>
      /\ pc' = "u_shist" /\ worker' = "truncate"
      /\ blkinfo' = SubSeq(blkinfo, 1, Len(blkinfo) - 1)
  BY DEF UndoBlkInfo
<1>2. BaseLen = Len(headers) /\ BaseLen' = BaseLen /\ Len(blkinfo) = BaseLen + 1
  BY <1>1 DEF BaseLen, MidInv, MidBlkInfo
<1>3. /\ blkinfo' \in Seq([txNum0 : Nat, nTx : Nat]) /\ Len(blkinfo') = BaseLen
      /\ \A i \in 1..BaseLen : blkinfo'[i] = blkinfo[i]
  <2>0. PICK k \in Nat : k = BaseLen
    OBVIOUS
  <2>1. blkinfo' = SubSeq(blkinfo, 1, k)
    BY <1>1, <1>2, <2>0
  <2>2. 1 \in 1..(Len(blkinfo) + 1) /\ k \in 0..Len(blkinfo) /\ 1 <= k + 1 /\ k - 1 + 1 = k
    BY <1>2, <2>0
  <2>3. /\ blkinfo' \in Seq([txNum0 : Nat, nTx : Nat]) /\ Len(blkinfo') = k
        /\ \A i \in 1..k : blkinfo'[i] = blkinfo[i]
    BY <2>1, <2>2, Prefix, ZenonT(30)
  <2> QED BY <2>0, <2>3, Zenon
<1>4. worker = "none"
  BY DEF IInv, WorkerInv, TypeOK, ControlTyped, AddPcs, UndoPcs
<1>5. TypeOK'
  <2>2. TablesTyped'
    BY <1>1, <1>3 DEF TablesTyped
  <2> QED BY <1>1, <2>2, TypeFrames DEF IInv, TypeOK, ControlTyped, UndoPcs
<1>8. FlagInv' /\ CounterInv' /\ WorkerInv'
  BY <1>1, <1>2 DEF IInv, FlagInv, CounterInv, WorkerInv, Mid, RestPcs, AddPcs, UndoPcs, Segment
<1>9. TxHashInv' /\ CountInv'
  BY <1>1, <1>2, <1>4, Zenon DEF IInv, TxHashInv, TxHashesBelow, UndoPcs, Indexed, Claimed, Truncating,
                    CountInv, FullUtxos, BaseUtxos
<1>10. MidChain' /\ MidTxNums' /\ MidBlkInfo'
  <2>0. BaseLen >= BaseLen
    OBVIOUS
  <2>1. MidChain'
    BY <1>1, <1>2, <1>3, <2>0, MidChainFrame, Zenon DEF MidInv
  <2> QED BY <1>1, <1>2, <1>3, <2>1 DEF MidInv, MidTxNums, Segment, MidBlkInfo
<1>11. MidUtxoSet' /\ MidShunspent'
  BY <1>1, <1>2, Zenon DEF MidInv, MidUtxoSet, FullUtxos, BaseUtxos, UtxosAre, MidShunspent
<1>14. MidInfo' /\ MidShist'
  <2>1. MidInfo'
    BY <1>1, MidInfoFrame, Zenon DEF MidInv, UndoPcs
  <2>2. MidShist'
    BY <1>1, Zenon DEF MidInv, MidShist, HistoriesBelow
  <2> QED BY <2>1, <2>2
<1>12. MidUndo'
  <2>1. \A r, b, bi : RecordReverts(r, b, bi) => RecordReverts(r, b, bi)'
    BY <1>1, RecordKept, Zenon
  <2>2. ASSUME NEW h \in DOMAIN undo, h < BaseLen,
               RecordReverts(undo[h], headers[h + 1], blkinfo[h + 1])
        PROVE  RecordReverts(undo[h], headers[h + 1], blkinfo[h + 1])'
    BY <1>1, <1>2, <1>3, <2>2, BaseRecordsFrame, Zenon DEF MidInv
  <2>3. CurInfo' = CurInfo
    BY <1>1 DEF CurInfo
  <2> QED BY <1>1, <1>2, <2>1, <2>2, <2>3, Zenon DEF MidInv, MidUndo, UndoPcs
<1>13. Mid' /\ ~ AtRest'
  BY <1>1 DEF Mid, AtRest, UndoPcs, RestPcs
<1> QED BY <1>5, <1>8, <1>9, <1>10, <1>11, <1>12, <1>13, <1>14 DEF IInv, MidInv

\* The truncation of the histories preserves IInv, and finds each of them.
LEMMA UndoShistStep == IInv /\ UndoShist => IInv'
<1> SUFFICES ASSUME IInv, UndoShist PROVE IInv'
  OBVIOUS
<1>0. Mid /\ pc = "u_shist"
  BY DEF UndoShist, Mid, UndoPcs
<1> USE MidFacts, <1>0
<1>1. UNCHANGED <<headers, txNums, blkinfo, utxoset, shunspent, undo, txhash2txnum,
                 largestTxNumSeen, utxoCtDb, dirty, worker, cur, saveUndo, txNum0,
                 info, verifier, txNumNext, utxoCt, earliestUndoHeight, depth>>
  BY DEF UndoShist
<1>2. /\ info.scriptHashes = HashXsOf(cur) /\ Segment
      /\ HistoriesBelow(txNum0 + Len(Txs[cur]))
  BY DEF MidInv, MidInfo, MidTxNums, MidShist, UndoPcs
<1>3. ASSUME NEW hx \in HashX, hx \in HashXsOf(cur) PROVE shist[hx] # {}
  <2>1. PICK j \in 1..Len(Txs[cur]) : Touches(Txs[cur][j], hx)
    BY <1>3 DEF HashXsOf, TxSet
  <2>2. txNums[txNum0 + j] = Txs[cur][j]
    BY <1>2 DEF Segment
  <2>3. PICK m \in Nat : m = txNum0 + j - 1
    OBVIOUS
  <2>4. m \in 0..(txNum0 + Len(Txs[cur])) - 1 /\ m + 1 = txNum0 + j
    BY <2>3, SMTT(30)
  <2>5. m \in shist[hx]
    BY <1>2, <2>1, <2>2, <2>4, Zenon DEF HistoriesBelow
  <2> QED BY <2>5
<1>4. /\ pc' = "u_utxoset"
      /\ shist' = [hx \in HashX |-> IF hx \in HashXsOf(cur)
                                      THEN {n \in shist[hx] : n < txNum0} ELSE shist[hx]]
  <2>1. \A hx \in info.scriptHashes : shist[hx] # {}
    BY <1>2, <1>3, SMTT(30) DEF HashXsOf
  <2> QED BY <1>2, <2>1, Zenon DEF UndoShist
<1>5. ASSUME NEW hx \in HashX
      PROVE  shist'[hx] = {m \in 0..txNum0 - 1 : Touches(txNums[m + 1], hx)}
  <2>1. shist[hx] = {m \in 0..(txNum0 + Len(Txs[cur])) - 1 : Touches(txNums[m + 1], hx)}
    BY <1>2 DEF HistoriesBelow
  <2>2. 0..txNum0 - 1 = {m \in 0..(txNum0 + Len(Txs[cur])) - 1 : m < txNum0}
    OBVIOUS
  <2>3. CASE hx \in HashXsOf(cur)
    BY <1>4, <2>1, <2>2, <2>3
  <2>4. CASE hx \notin HashXsOf(cur)
    <3>1. ASSUME NEW m \in 0..(txNum0 + Len(Txs[cur])) - 1, ~ (m < txNum0)
          PROVE  ~ Touches(txNums[m + 1], hx)
      <4>1. PICK j \in Nat : j = m - txNum0 + 1
        BY <3>1
      <4>2. j \in 1..Len(Txs[cur]) /\ txNum0 + j = m + 1
        BY <3>1, <4>1, SMTT(30)
      <4>3. txNums[m + 1] = Txs[cur][j]
        BY <1>2, <4>2, SMTT(30) DEF Segment
      <4> QED BY <2>4, <4>2, <4>3, Zenon DEF HashXsOf, TxSet
    <3> QED BY <1>4, <2>1, <2>2, <2>4, <3>1
  <2> QED BY <2>3, <2>4
<1>6. MidShist'
  BY <1>1, <1>4, <1>5 DEF MidShist, HistoriesBelow
<1>7. BaseLen = Len(headers) /\ BaseLen' = BaseLen
  BY <1>1, <1>4 DEF BaseLen
<1>8. TypeOK'
  <2>1. shist' \in [HashX -> SUBSET Nat]
    BY <1>4
  <2>2. TablesTyped'
    BY <1>1, <2>1 DEF TablesTyped
  <2> QED BY <1>1, <1>4, <2>2, TypeFrames DEF IInv, TypeOK, ControlTyped, UndoPcs
<1>9. FlagInv' /\ CounterInv' /\ WorkerInv'
  BY <1>1, <1>4, <1>7, Zenon DEF IInv, FlagInv, CounterInv, WorkerInv, Mid, RestPcs, AddPcs, UndoPcs, Segment
<1>10. TxHashInv' /\ CountInv'
  BY <1>1, <1>4, <1>7, Zenon DEF IInv, TxHashInv, TxHashesBelow, UndoPcs, Indexed, Claimed, Truncating,
                    CountInv, FullUtxos, BaseUtxos
<1>11. MidChain' /\ MidTxNums' /\ MidBlkInfo'
  <2>1. MidChain'
    BY <1>1, <1>4, <1>7, MidChainFrame DEF MidInv
  <2> QED BY <1>1, <1>4, <1>7, <2>1 DEF MidInv, MidTxNums, Segment, MidBlkInfo
<1>12. MidUtxoSet' /\ MidShunspent'
  BY <1>1, <1>4, <1>7, Zenon DEF MidInv, MidUtxoSet, FullUtxos, BaseUtxos, UtxosAre, MidShunspent
<1>13. MidInfo' /\ MidUndo'
  <2>1. MidInfo'
    BY <1>1, <1>4, Zenon DEF MidInv, MidInfo, UndoPcs
  <2>2. \A r, b, bi : RecordReverts(r, b, bi) => RecordReverts(r, b, bi)'
    BY <1>1, RecordKept, Zenon
  <2>3. CurInfo' = CurInfo
    BY <1>1 DEF CurInfo
  <2>4. MidUndo'
    BY <1>1, <1>4, <1>7, <2>2, <2>3, Zenon DEF MidInv, MidUndo, UndoPcs
  <2> QED BY <2>1, <2>4
<1>14. Mid' /\ ~ AtRest'
  BY <1>4 DEF Mid, AtRest, UndoPcs, RestPcs
<1> QED BY <1>6, <1>8, <1>9, <1>10, <1>11, <1>12, <1>13, <1>14 DEF IInv, MidInv

\* The utxoset batch of undoLatestBlock preserves IInv: it restores the base set.
LEMMA UndoUtxoSetStep == IInv /\ UndoUtxoSet => IInv'
<1> SUFFICES ASSUME IInv, UndoUtxoSet PROVE IInv'
  OBVIOUS
<1>0. Mid /\ pc = "u_utxoset"
  BY DEF UndoUtxoSet, Mid, UndoPcs
<1> USE MidFacts, <1>0
<1>1. /\ UNCHANGED <<headers, txNums, blkinfo, shunspent, shist, undo, txhash2txnum,
                 largestTxNumSeen, utxoCtDb, dirty, worker, cur, saveUndo, txNum0,
                 info, verifier, txNumNext, utxoCt, earliestUndoHeight, depth>>
      /\ pc' = "u_shunspent"
  BY DEF UndoUtxoSet
<1>2. BaseLen = Len(headers) /\ BaseLen' = BaseLen
  BY <1>1 DEF BaseLen
<1>3. MidChain /\ Segment /\ UtxosAre(FullUtxos, txNum0 + Len(Txs[cur]))
  BY DEF MidInv, MidTxNums, MidUtxoSet
<1>4. /\ DOMAIN info.addUndos = CreatedBy(cur) /\ DOMAIN info.delUndos = SpentBy(cur)
      /\ \A o \in CreatedBy(cur) : info.addUndos[o] = TxNumIn(cur, txNum0, TxOf[o])
      /\ \A o \in SpentBy(cur) : /\ info.delUndos[o] < txNum0
                                 /\ txNums[info.delUndos[o] + 1] = TxOf[o]
                                 /\ info.delUndos[o] \in Nat
  BY DEF MidInv, MidInfo, IsUndoInfo, TxNumMap
<1>5. /\ SpentBy(cur) \subseteq BaseUtxos /\ CreatedBy(cur) \cap BaseUtxos = {}
      /\ CreatedBy(cur) \cap SpentBy(cur) = {} /\ BaseUtxos \subseteq TXO
  <2>1. ValidAbove(cur, headers, BaseLen)
    BY <1>3 DEF MidChain
  <2>2. BaseUtxos \subseteq TXO
    BY DEF BaseUtxos, UtxosUpTo
  <2> QED BY <2>1, <2>2, SpentAndCreated DEF BaseUtxos
<1>6. /\ utxoset' = [o \in (DOMAIN utxoset \cup SpentBy(cur)) \ CreatedBy(cur) |->
                       IF o \in SpentBy(cur) THEN info.delUndos[o] ELSE utxoset[o]]
      /\ DOMAIN utxoset = FullUtxos
  BY <1>3, <1>4, Zenon DEF UndoUtxoSet, UtxosAre
<1>7. DOMAIN utxoset' = BaseUtxos
  BY <1>5, <1>6 DEF FullUtxos
<1>8. \A o \in CreatedBy(cur) : utxoset[o] = info.addUndos[o] /\ o \in DOMAIN utxoset
  BY <1>3, <1>4, OnePlace, Zenon DEF UtxosAre, FullUtxos, TxNumMap
<1>9. ASSUME NEW o \in BaseUtxos
      PROVE  utxoset'[o] \in Nat /\ utxoset'[o] < txNum0 /\ txNums[utxoset'[o] + 1] = TxOf[o]
  <2>1. CASE o \in SpentBy(cur)
    BY <1>4, <1>6, <1>7, <2>1
  <2>2. CASE o \notin SpentBy(cur)
    <3>1. utxoset'[o] = utxoset[o] /\ o \in FullUtxos
      BY <1>6, <1>7, <2>2 DEF FullUtxos
    <3>2. PICK m \in Nat : m = utxoset[o]
      BY <1>6, <3>1 DEF TxNumMap
    <3>3. m < txNum0 + Len(Txs[cur]) /\ txNums[m + 1] = TxOf[o]
      BY <1>3, <3>1, <3>2 DEF UtxosAre
    <3>4. ASSUME ~ (m < txNum0) PROVE FALSE
      <4>1. PICK j \in Nat : j = m - txNum0 + 1
        BY <3>4
      <4>2. j \in 1..Len(Txs[cur]) /\ txNum0 + j = m + 1
        BY <3>3, <3>4, <4>1, SMTT(30)
      <4>3. TxOf[o] \in TxSet(cur)
        BY <1>3, <3>3, <4>2, ZenonT(30) DEF Segment, TxSet
      <4>4. \E i \in 1..BaseLen : TxOf[o] \in TxSet(headers[i])
        BY DEF BaseUtxos, UtxosUpTo
      <4>5. ValidAbove(cur, headers, BaseLen)
        BY <1>3 DEF MidChain
      <4>6. PICK i \in 1..BaseLen : TxOf[o] \in TxSet(headers[i])
        BY <4>4, Zenon
      <4>7. TxSet(cur) \cap TxSet(headers[i]) = {}
        BY <4>5, Zenon DEF ValidAbove
      <4> QED BY <4>3, <4>6, <4>7, Zenon
    <3> QED BY <3>1, <3>2, <3>3, <3>4
  <2> QED BY <2>1, <2>2
<1>10. MidUtxoSet'
  <2>1. BaseUtxos' = BaseUtxos
    BY <1>1, <1>2 DEF BaseUtxos
  <2> QED BY <1>1, <1>7, <1>9, <2>1 DEF MidUtxoSet, UtxosAre
<1>11. MidShunspent'
  <2>1. shunspent = ShunspentKeys(utxoset)
    BY DEF MidInv, MidShunspent
  <2>2. ShunspentKeys(utxoset) =
          (ShunspentKeys(utxoset') \cup ShunspentKeys(info.addUndos)) \ ShunspentKeys(info.delUndos)
    <3>1. /\ \A o \in DOMAIN utxoset \ CreatedBy(cur) : o \in DOMAIN utxoset' /\ utxoset'[o] = utxoset[o]
          /\ \A o \in DOMAIN utxoset : o \notin SpentBy(cur)
          /\ \A o \in DOMAIN utxoset' : \/ o \in SpentBy(cur) /\ utxoset'[o] = info.delUndos[o]
                                        \/ o \in DOMAIN utxoset /\ utxoset'[o] = utxoset[o]
      BY <1>5, <1>6 DEF FullUtxos
    <3>2. ShunspentKeys(info.addUndos) \subseteq ShunspentKeys(utxoset)
      BY <1>4, <1>8, Zenon DEF ShunspentKeys
    <3>3. ShunspentKeys(info.delUndos) \cap ShunspentKeys(utxoset) = {}
      BY <1>4, <3>1, DisjointKeys, Zenon
    <3>4. ShunspentKeys(utxoset) \subseteq ShunspentKeys(utxoset') \cup ShunspentKeys(info.addUndos)
      <4>1. ASSUME NEW o \in DOMAIN utxoset
            PROVE  \/ o \in DOMAIN utxoset' /\ utxoset'[o] = utxoset[o]
                   \/ o \in DOMAIN info.addUndos /\ info.addUndos[o] = utxoset[o]
        BY <1>4, <1>8, <3>1, Zenon
      <4> QED BY <4>1, CoveredKeys, Zenon
    <3>5. ShunspentKeys(utxoset') \subseteq ShunspentKeys(utxoset) \cup ShunspentKeys(info.delUndos)
      <4>1. ASSUME NEW o \in DOMAIN utxoset'
            PROVE  \/ o \in DOMAIN utxoset /\ utxoset[o] = utxoset'[o]
                   \/ o \in DOMAIN info.delUndos /\ info.delUndos[o] = utxoset'[o]
        BY <1>4, <3>1, Zenon
      <4> QED BY <4>1, CoveredKeys, Zenon
    <3> QED BY <3>2, <3>3, <3>4, <3>5
  <2> QED BY <1>1, <2>1, <2>2 DEF MidShunspent
<1>12. MidInfo'
  <2>1. \A o \in SpentBy(cur) : utxoset'[o] = info.delUndos[o]
    BY <1>5, <1>6, <1>7, Zenon
  <2> QED BY <1>1, <2>1, Zenon DEF MidInv, MidInfo, UndoPcs
<1>13. TypeOK'
  <2>1. TxNumMap(utxoset')
    BY <1>5, <1>6, <1>7, <1>9, Zenon DEF TxNumMap
  <2>2. TablesTyped'
    BY <1>1, <2>1 DEF TablesTyped
  <2> QED BY <1>1, <2>2, TypeFrames DEF IInv, TypeOK, ControlTyped, UndoPcs
<1>14. FlagInv' /\ CounterInv' /\ WorkerInv'
  BY <1>1, <1>2, Zenon DEF IInv, FlagInv, CounterInv, WorkerInv, Mid, RestPcs, AddPcs, UndoPcs, Segment
<1>15. TxHashInv' /\ CountInv'
  BY <1>1, <1>2, Zenon DEF IInv, TxHashInv, TxHashesBelow, UndoPcs, Indexed, Claimed, Truncating,
                    CountInv, FullUtxos, BaseUtxos
<1>16. MidChain' /\ MidTxNums' /\ MidBlkInfo'
  <2>1. MidChain'
    BY <1>1, <1>2, MidChainFrame DEF MidInv
  <2> QED BY <1>1, <1>2, <2>1, Zenon DEF MidInv, MidTxNums, Segment, MidBlkInfo
<1>17. MidShist' /\ MidUndo'
  <2>1. \A r, b, bi : RecordReverts(r, b, bi) => RecordReverts(r, b, bi)'
    BY <1>1, RecordKept, Zenon
  <2>2. CurInfo' = CurInfo
    BY <1>1, Zenon DEF CurInfo
  <2>3. MidUndo'
    BY <1>1, <1>2, <2>1, <2>2, Zenon DEF MidInv, MidUndo, UndoPcs
  <2> QED BY <1>1, <2>3 DEF MidInv, MidShist, HistoriesBelow
<1>18. Mid' /\ ~ AtRest'
  BY <1>1 DEF Mid, AtRest, UndoPcs, RestPcs
<1> QED BY <1>10, <1>11, <1>12, <1>13, <1>14, <1>15, <1>16, <1>17, <1>18 DEF IInv, MidInv

\* The scripthash_unspent batch of undoLatestBlock preserves IInv.
LEMMA UndoShunspentStep == IInv /\ (Mid => CountsAdd) /\ UndoShunspent => IInv'
<1> SUFFICES ASSUME IInv, Mid => CountsAdd, UndoShunspent PROVE IInv'
  OBVIOUS
<1>0. Mid /\ pc = "u_shunspent"
  BY DEF UndoShunspent, Mid, UndoPcs
<1> USE MidFacts, <1>0
<1>1. /\ UNCHANGED <<headers, txNums, blkinfo, utxoset, shist, undo, txhash2txnum,
                 largestTxNumSeen, utxoCtDb, dirty, worker, cur, saveUndo, txNum0,
                 info, verifier, txNumNext, earliestUndoHeight, depth>>
      /\ pc' = "u_undo"
  BY Zenon DEF UndoShunspent
<1>2. BaseLen = Len(headers) /\ BaseLen' = BaseLen
  BY <1>1 DEF BaseLen
<1>3. MidChain /\ DOMAIN utxoset = BaseUtxos
  BY Zenon DEF MidInv, MidUtxoSet, UtxosAre
<1>4. /\ DOMAIN info.addUndos = CreatedBy(cur) /\ DOMAIN info.delUndos = SpentBy(cur)
      /\ \A o \in SpentBy(cur) : utxoset[o] = info.delUndos[o]
  BY DEF MidInv, MidInfo
<1>5. utxoCt' = Cardinality(BaseUtxos) /\ utxoCt' \in Int
  <2>1. utxoCt = Cardinality(FullUtxos)
    BY DEF IInv, CountInv
  <2>2. utxoCt' = utxoCt + Cardinality(SpentBy(cur)) - Cardinality(CreatedBy(cur))
    BY <1>4, Zenon DEF UndoShunspent
  <2> QED BY <2>1, <2>2 DEF CountsAdd
<1>6. shunspent' = ShunspentKeys(utxoset)
  <2>1. SpentBy(cur) \subseteq BaseUtxos /\ CreatedBy(cur) \cap BaseUtxos = {}
    BY <1>3, SpentAndCreated DEF MidChain, BaseUtxos
  <2>2. shunspent = (ShunspentKeys(utxoset) \cup ShunspentKeys(info.addUndos))
                       \ ShunspentKeys(info.delUndos)
    BY Zenon DEF MidInv, MidShunspent
  <2>3. shunspent' = (shunspent \cup ShunspentKeys(info.delUndos)) \ ShunspentKeys(info.addUndos)
    BY DEF UndoShunspent
  <2>4. ShunspentKeys(info.delUndos) \subseteq ShunspentKeys(utxoset)
    BY <1>3, <1>4, <2>1, CoveredKeys, Zenon
  <2>5. ShunspentKeys(info.addUndos) \cap ShunspentKeys(utxoset) = {}
    <3>1. \A o \in CreatedBy(cur) : o \notin BaseUtxos
      BY <2>1, Zenon
    <3> QED BY <1>3, <1>4, <3>1, DisjointKeys, Zenon
  <2> QED BY <2>2, <2>3, <2>4, <2>5
<1>7. TypeOK'
  <2>1. shunspent' \subseteq HashX \X Nat \X TXO
    BY <1>6, ConstantsAssumption DEF ShunspentKeys, TxNumMap
  <2>2. TablesTyped'
    BY <1>1, <2>1 DEF TablesTyped
  <2>3. CountersTyped'
    BY <1>1, <1>5 DEF IInv, TypeOK, CountersTyped
  <2> QED BY <1>1, <2>2, <2>3, TypeFrames DEF IInv, TypeOK, ControlTyped, UndoPcs
<1>8. FlagInv' /\ CounterInv' /\ WorkerInv'
  BY <1>1, <1>2, Zenon DEF IInv, FlagInv, CounterInv, WorkerInv, Mid, RestPcs, AddPcs, UndoPcs, Segment
<1>9. TxHashInv'
  BY <1>1, Zenon DEF IInv, TxHashInv, TxHashesBelow, UndoPcs, Indexed, Claimed, Truncating
<1>10. MidChain' /\ MidTxNums' /\ MidBlkInfo'
  <2>1. MidChain'
    BY <1>1, <1>2, MidChainFrame DEF MidInv
  <2> QED BY <1>1, <1>2, <2>1, Zenon DEF MidInv, MidTxNums, Segment, MidBlkInfo
<1>11. MidUtxoSet' /\ MidShist' /\ MidInfo'
  <2>1. MidUtxoSet'
    BY <1>1, <1>2, Zenon DEF MidInv, MidUtxoSet, FullUtxos, BaseUtxos, UtxosAre
  <2>2. MidShist'
    BY <1>1, Zenon DEF MidInv, MidShist, HistoriesBelow
  <2>3. MidInfo'
    BY <1>1, MidInfoFrame, Zenon DEF MidInv, UndoPcs
  <2> QED BY <2>1, <2>2, <2>3
<1>12. MidUndo'
  <2>1. \A r, b, bi : RecordReverts(r, b, bi) => RecordReverts(r, b, bi)'
    BY <1>1, RecordKept, Zenon
  <2>2. CurInfo' = CurInfo
    BY <1>1, Zenon DEF CurInfo
  <2> QED BY <1>1, <1>2, <2>1, <2>2, Zenon DEF MidInv, MidUndo, UndoPcs
<1>13. MidShunspent'
  BY <1>1, <1>6, Zenon DEF MidShunspent
<1>14. CountInv'
  BY <1>1, <1>2, <1>5 DEF CountInv, FullUtxos, BaseUtxos
<1>15. Mid' /\ ~ AtRest'
  BY <1>1 DEF Mid, AtRest, UndoPcs, RestPcs
<1> QED BY <1>7, <1>8, <1>9, <1>10, <1>11, <1>12, <1>13, <1>14, <1>15 DEF IInv, MidInv

\* The deletion of the applied UndoInfo preserves IInv.
LEMMA DeleteUndoStep == IInv /\ DeleteUndo => IInv'
<1> SUFFICES ASSUME IInv, DeleteUndo PROVE IInv'
  OBVIOUS
<1>0. Mid /\ pc = "u_undo"
  BY DEF DeleteUndo, Mid, UndoPcs
<1> USE MidFacts, <1>0
<1>1. /\ UNCHANGED <<headers, txNums, blkinfo, utxoset, shunspent, shist, txhash2txnum,
                 largestTxNumSeen, utxoCtDb, dirty, worker, cur, saveUndo, txNum0,
                 info, verifier, txNumNext, utxoCt, depth>>
      /\ pc' = "u_txnums"
      /\ undo' = [h \in DOMAIN undo \ {Len(headers)} |-> undo[h]]
  BY DEF DeleteUndo, Restricted
<1>2. BaseLen = Len(headers) /\ BaseLen' = BaseLen
  BY <1>1 DEF BaseLen
<1>3. earliestUndoHeight' \in Nat
  BY ConstantsAssumption DEF DeleteUndo, IInv, TypeOK, CountersTyped
<1>6. UndoTyped'
  BY <1>1 DEF UndoTyped
<1>7. MidUndo'
  <2>1. \A r, b, bi : RecordReverts(r, b, bi) => RecordReverts(r, b, bi)'
    BY <1>1, RecordKept, Zenon
  <2>2. ASSUME NEW h \in DOMAIN undo' PROVE h \in DOMAIN undo /\ h # BaseLen /\ undo'[h] = undo[h]
    BY <1>1, <1>2
  <2> QED BY <1>1, <1>2, <2>1, <2>2, ZenonT(30) DEF MidInv, MidUndo
<1>8. TypeOK'
  <2>1. CountersTyped'
    BY <1>1, <1>3 DEF IInv, TypeOK, CountersTyped
  <2> QED BY <1>1, <1>6, <2>1, TypeFrames DEF IInv, TypeOK, ControlTyped, UndoPcs
<1>9. FlagInv' /\ CounterInv' /\ WorkerInv'
  BY <1>1, <1>2, Zenon DEF IInv, FlagInv, CounterInv, WorkerInv, Mid, RestPcs, AddPcs, UndoPcs, Segment
<1>10. TxHashInv' /\ CountInv'
  BY <1>1, <1>2, Zenon DEF IInv, TxHashInv, TxHashesBelow, UndoPcs, Indexed, Claimed, Truncating,
                    CountInv, FullUtxos, BaseUtxos
<1>11. MidChain' /\ MidTxNums' /\ MidBlkInfo'
  <2>1. MidChain'
    BY <1>1, <1>2, MidChainFrame DEF MidInv
  <2> QED BY <1>1, <1>2, <2>1 DEF MidInv, MidTxNums, Segment, MidBlkInfo
<1>12. MidUtxoSet' /\ MidShunspent'
  BY <1>1, <1>2, Zenon DEF MidInv, MidUtxoSet, FullUtxos, BaseUtxos, UtxosAre, MidShunspent
<1>13. MidInfo' /\ MidShist'
  <2>1. MidInfo'
    BY <1>1, MidInfoFrame, Zenon DEF MidInv, UndoPcs
  <2>2. MidShist'
    BY <1>1, Zenon DEF MidInv, MidShist, HistoriesBelow
  <2> QED BY <2>1, <2>2
<1>14. Mid' /\ ~ AtRest'
  BY <1>1 DEF Mid, AtRest, UndoPcs, RestPcs
<1> QED BY <1>7, <1>8, <1>9, <1>10, <1>11, <1>12, <1>13, <1>14 DEF IInv, MidInv

\* The truncation of the txNums record file preserves IInv: it ends the undo with
\* the index of the shorter chain.
LEMMA TruncateTxNumsStep == IInv /\ TruncateTxNums => IInv'
<1> SUFFICES ASSUME IInv, TruncateTxNums PROVE IInv'
  OBVIOUS
<1>0. Mid /\ pc = "u_txnums" /\ worker = "none"
  BY DEF TruncateTxNums, Mid, UndoPcs
<1> USE MidFacts, <1>0
<1>1. /\ UNCHANGED <<headers, blkinfo, utxoset, shunspent, shist, undo, txhash2txnum,
                 largestTxNumSeen, utxoCtDb, dirty, worker, cur, saveUndo, txNum0,
                 info, verifier, utxoCt, earliestUndoHeight, depth>>
      /\ pc' = "utxoct" /\ txNumNext' = txNum0 /\ txNums' = SubSeq(txNums, 1, txNum0)
  BY DEF TruncateTxNums
<1>2. BaseLen = Len(headers) /\ BaseLen' = BaseLen
  BY <1>1 DEF BaseLen
<1>3. /\ txNums' \in Seq(Tx) /\ Len(txNums') = txNum0
      /\ \A i \in 1..txNum0 : txNums'[i] = txNums[i]
  <2>1. txNum0 \in 0..Len(txNums)
    OBVIOUS
  <2> QED BY <1>1, <2>1, Prefix
<1>4. /\ MidChain /\ Len(blkinfo) = BaseLen /\ UtxosAre(BaseUtxos, txNum0)
      /\ shunspent = ShunspentKeys(utxoset) /\ HistoriesBelow(txNum0) /\ MidUndo
  BY DEF MidInv, MidBlkInfo, MidUtxoSet, MidShunspent, MidShist
<1>5. MidChain'
  BY <1>1, <1>2, <1>3, <1>4, MidChainFrame, Zenon
<1>6. UtxosAre(BaseUtxos, txNum0)' /\ BaseUtxos' = BaseUtxos
  <2>1. BaseUtxos' = BaseUtxos
    BY <1>1, <1>2 DEF BaseUtxos
  <2> QED BY <1>1, <1>3, <1>4, <2>1, UtxosFrame
<1>7. HistoriesBelow(txNum0)'
  BY <1>1, <1>3, <1>4, HistoriesFrame
<1>8. UndoMatches'
  <2>1. ASSUME NEW h \in DOMAIN undo
        PROVE  h < BaseLen /\ RecordReverts(undo[h], headers[h + 1], blkinfo[h + 1])
    BY <1>4, Zenon DEF MidUndo
  <2>2. ASSUME NEW h \in DOMAIN undo
        PROVE  RecordReverts(undo[h], headers[h + 1], blkinfo[h + 1])'
    BY <1>1, <1>3, <1>4, <2>1, BaseRecordsFrame, Zenon
  <2> QED BY <1>1, <1>2, <2>1, <2>2 DEF UndoMatches
<1>9. RestInv'
  <2>1. /\ Linked(Len(headers))' /\ ChainValid(Len(headers))' /\ Numbered(Len(headers))'
        /\ (Len(txNums) = TxTotal(Len(headers)))'
    BY <1>1, <1>2, <1>3, <1>5, Zenon DEF MidChain
  <2>2. UtxosAre(UtxosOf(headers), Len(txNums))' /\ HistoriesBelow(Len(txNums))'
    BY <1>1, <1>2, <1>3, <1>6, <1>7, ZenonT(30) DEF UtxosOf, BaseUtxos, UtxosAre, HistoriesBelow
  <2> QED BY <1>1, <1>2, <1>4, <1>8, <2>1, <2>2 DEF RestInv
<1>10. TypeOK'
  <2>1. TablesTyped'
    BY <1>1, <1>3, Zenon DEF TablesTyped
  <2>2. CountersTyped'
    BY <1>1 DEF IInv, TypeOK, CountersTyped
  <2> QED BY <1>1, <2>1, <2>2, TypeFrames DEF IInv, TypeOK, ControlTyped
<1>11. FlagInv' /\ WorkerInv'
  BY <1>1 DEF IInv, FlagInv, WorkerInv, Mid, RestPcs, AddPcs, UndoPcs
<1>12. CounterInv'
  <2>1. verifier = Verified(headers)
    <3>1. verifier = [n |-> BaseLen, last |-> headers[BaseLen]] /\ BaseLen > 0
      BY DEF IInv, CounterInv, UndoPcs
    <3>2. headers # <<>>
      BY <1>2, <3>1, EmptyFile
    <3> QED BY <1>2, <3>1, <3>2 DEF Verified, LastHeader
  <2> QED BY <1>1, <1>3, <2>1, Zenon DEF CounterInv, Verified, AddPcs, UndoPcs, RestPcs, Mid
<1>13. TxHashInv'
  <2>1. txhash2txnum = TxHashesBelow(txNum0) /\ largestTxNumSeen + 1 = txNum0
    BY DEF IInv, TxHashInv, Indexed, Claimed, Truncating, UndoPcs
  <2>2. Indexed' = txNum0 /\ Claimed' = txNum0
    BY <1>1, <1>3 DEF Indexed, Claimed, Truncating, UndoPcs
  <2>3. TxHashesBelow(txNum0)' = TxHashesBelow(txNum0)
    BY <1>1, <1>3, TxHashesFrame
  <2> QED BY <1>1, <2>1, <2>2, <2>3 DEF TxHashInv
<1>14. CountInv'
  BY <1>1, <1>4, Zenon DEF IInv, CountInv, UtxosAre, Mid, AddPcs, UndoPcs
<1>15. AtRest' /\ ~ Mid'
  BY <1>1 DEF Mid, AtRest, AddPcs, UndoPcs
<1> QED BY <1>9, <1>10, <1>11, <1>12, <1>13, <1>14, <1>15 DEF IInv

-----------------------------------------------------------------------------
(* The worker                                                              *)

\* The batch of insertForBlock or truncateForUndo preserves IInv, whatever the
\* other thread is writing meanwhile.
LEMMA WorkerBatchStep == IInv /\ WorkerBatch => IInv'
<1> SUFFICES ASSUME IInv, WorkerBatch PROVE IInv'
  OBVIOUS
<1>0. /\ UNCHANGED <<headers, txNums, blkinfo, utxoset, shunspent, shist, undo,
                     largestTxNumSeen, utxoCtDb, dirty, pc, cur, saveUndo, txNum0, info,
                     verifier, txNumNext, utxoCt, earliestUndoHeight, depth>>
      /\ worker \in {"insert", "truncate"}
      /\ worker' = IF worker = "insert" THEN "insertsave" ELSE "truncatesave"
  BY DEF WorkerBatch
<1>a. txNums \in Seq(Tx) /\ txNum0 \in Nat
  BY DEF IInv, TypeOK, TablesTyped, LocalsTyped
<1>2. FlagInv' /\ CounterInv' /\ WorkerInv'
  BY <1>0, Zenon DEF IInv, FlagInv, CounterInv, WorkerInv, Mid, RestPcs, AddPcs, UndoPcs, Segment,
              BaseLen, Verified
<1>b. pc \notin {"down", "refused", "rebuild", "reindex"}
  BY <1>0 DEF IInv, WorkerInv, AddPcs, UndoPcs
<1>3. /\ txhash2txnum' = TxHashesBelow(IF worker = "insert" THEN Len(txNums) ELSE txNum0)
      /\ txNum0 <= Len(txNums)
  <2>1. CASE worker = "insert"
    <3>1. txhash2txnum = TxHashesBelow(txNum0)
      BY <1>b, <2>1 DEF IInv, TxHashInv, Indexed
    <3>2. cur \in Block /\ Segment
      BY <2>1 DEF IInv, WorkerInv
    <3>3. Len(Txs[cur]) \in Nat
      BY <3>2, BlockOutputs
    <3>4. BlockEntries = {<<KeyOf[txNums[i]], i - 1>> : i \in txNum0 + 1 .. Len(txNums)}
      <4>1. /\ Len(txNums) = txNum0 + Len(Txs[cur])
            /\ \A j \in 1..Len(Txs[cur]) : txNums[txNum0 + j] = Txs[cur][j]
        BY <3>2, Zenon DEF Segment
      <4>2. EntriesByPlace(Txs[cur], txNum0, Len(Txs[cur])) =
              EntriesByNumber(txNums, txNum0, txNum0 + Len(Txs[cur]))
        BY <1>a, <3>3, <4>1, BatchEntries, Zenon
      <4>3. BlockEntries = EntriesByPlace(Txs[cur], txNum0, Len(Txs[cur]))
        BY DEF BlockEntries, EntriesByPlace
      <4>4. BlockEntries = EntriesByNumber(txNums, txNum0, Len(txNums))
        BY <4>1, <4>2, <4>3, Zenon
      <4> QED BY <4>4 DEF EntriesByNumber
    <3>5. txhash2txnum' = txhash2txnum \cup BlockEntries
      BY <2>1 DEF WorkerBatch
    <3>6. 1..Len(txNums) = 1..txNum0 \cup (txNum0 + 1 .. Len(txNums)) /\ txNum0 <= Len(txNums)
      BY <1>a, <3>2, <3>3 DEF Segment
    <3> QED BY <2>1, <3>1, <3>4, <3>5, <3>6 DEF TxHashesBelow
  <2>2. CASE worker = "truncate"
    <3>1. txhash2txnum = TxHashesBelow(Len(txNums))
      BY <1>b, <2>2 DEF IInv, TxHashInv, Indexed
    <3>2. txNum0 <= Len(txNums)
      <4>1. pc \in UndoPcs /\ Mid
        BY <2>2 DEF IInv, WorkerInv, Mid
      <4>2. cur \in Block /\ Segment
        BY <4>1 DEF IInv, MidInv, MidTxNums, MidChain, UndoPcs
      <4>3. Len(txNums) = txNum0 + Len(Txs[cur])
        BY <4>2, Zenon DEF Segment
      <4>4. Len(Txs[cur]) \in Nat
        BY <4>2, BlockOutputs, Zenon
      <4> QED BY <1>a, <4>3, <4>4
    <3>3. txhash2txnum' = {e \in txhash2txnum :
             ~ (e[1] \in {KeyOf[txNums[i]] : i \in txNum0 + 1 .. Len(txNums)} /\ e[2] >= txNum0)}
      BY <2>2 DEF WorkerBatch
    <3>4. ASSUME NEW i \in 1..Len(txNums)
          PROVE  <<KeyOf[txNums[i]], i - 1>> \in txhash2txnum' <=> i \in 1..txNum0
      <4> DEFINE e == <<KeyOf[txNums[i]], i - 1>>
      <4>1. e \in txhash2txnum /\ e[1] = KeyOf[txNums[i]] /\ e[2] = i - 1
        BY <3>1 DEF TxHashesBelow
      <4>2. CASE i <= txNum0
        BY <1>a, <3>3, <4>1, <4>2
      <4>3. CASE i > txNum0
        <5>1. i \in txNum0 + 1 .. Len(txNums) /\ i - 1 >= txNum0
          BY <1>a, <4>3
        <5>2. i \notin 1..txNum0
          BY <1>a, <4>3
        <5>3. e[2] >= txNum0
          BY <4>1, <5>1
        <5>4. e[1] \in {KeyOf[txNums[j]] : j \in txNum0 + 1 .. Len(txNums)}
          BY <4>1, <5>1
        <5> HIDE DEF e
        <5>5. e \notin txhash2txnum'
          BY <3>3, <5>3, <5>4, Zenon
        <5> QED BY <5>2, <5>5 DEF e
      <4> QED BY <1>a, <4>2, <4>3
    <3>5. txhash2txnum' \subseteq TxHashesBelow(Len(txNums))
      BY <3>1, <3>3
    <3>6. 1..txNum0 \subseteq 1..Len(txNums)
      BY <1>a, <3>2
    <3> QED BY <2>2, <3>2, <3>4, <3>5, <3>6 DEF TxHashesBelow
  <2> QED BY <1>0, <2>1, <2>2
<1>4. TxHashInv'
  <2>1. /\ Indexed' = IF worker = "insert" THEN Len(txNums) ELSE txNum0
        /\ Claimed' = Claimed
    BY <1>0, <1>b DEF Indexed, Claimed, Truncating
  <2>2. largestTxNumSeen + 1 = Claimed
    BY <1>b DEF IInv, TxHashInv
  <2> QED BY <1>0, <1>3, <1>b, <2>1, <2>2 DEF TxHashInv, TxHashesBelow
<1>5. TypeOK'
  <2>1. txhash2txnum' \subseteq TxKey \X Nat
    BY <1>3, <1>a, TxHashTypes
  <2>2. MetaTyped'
    BY <1>0, <2>1 DEF IInv, TypeOK, MetaTyped
  <2> QED BY <1>0, <2>2, TypeFrames DEF IInv, TypeOK, ControlTyped
<1>6. (AtRest => RestInv)'
  BY <1>0, RestFrame DEF IInv, AtRest
<1>7. (Mid => MidInv)'
  BY <1>0, MidFrame DEF IInv, Mid
<1>c. CountInv'
  BY <1>0 DEF IInv, CountInv, Mid, BaseUtxos, FullUtxos, BaseLen
<1> QED BY <1>c, <1>2, <1>4, <1>5, <1>6, <1>7 DEF IInv

\* The write of largestTxNumSeen by the worker preserves IInv.
LEMMA WorkerSaveStep == IInv /\ WorkerSave => IInv'
<1> SUFFICES ASSUME IInv, WorkerSave PROVE IInv'
  OBVIOUS
<1>0. /\ UNCHANGED <<headers, txNums, blkinfo, utxoset, shunspent, shist, undo,
                     txhash2txnum, utxoCtDb, dirty, pc, cur, saveUndo, txNum0, info,
                     verifier, txNumNext, utxoCt, earliestUndoHeight, depth>>
      /\ worker \in {"insertsave", "truncatesave"}
      /\ worker' = "none"
  BY DEF WorkerSave
<1>a. txNums \in Seq(Tx) /\ txNum0 \in Nat
  BY DEF IInv, TypeOK, TablesTyped, LocalsTyped
<1>1. /\ largestTxNumSeen' =
           IF worker = "insertsave" THEN Len(txNums) - 1 ELSE txNum0 - 1
      /\ largestTxNumSeen' \in Nat \cup {-1}
  <2>1. CASE worker = "insertsave"
    <3>1. cur \in Block /\ Segment /\ largestTxNumSeen' = txNum0 + Len(Txs[cur]) - 1
      BY <2>1 DEF IInv, WorkerInv, WorkerSave
    <3>2. Len(Txs[cur]) \in Nat
      BY <3>1, BlockOutputs, Zenon
    <3>3. Len(txNums) = txNum0 + Len(Txs[cur])
      BY <3>1, Zenon DEF Segment
    <3>4. txNum0 + Len(Txs[cur]) - 1 \in Nat \cup {-1}
      BY <1>a, <3>2
    <3>5. Len(txNums) - 1 = txNum0 + Len(Txs[cur]) - 1
      BY <1>a, <3>2, <3>3
    <3> QED BY <2>1, <3>1, <3>4, <3>5, Zenon
  <2>2. CASE worker = "truncatesave"
    <3>1. largestTxNumSeen' = txNum0 - 1 /\ worker # "insertsave"
      BY <2>2 DEF WorkerSave
    <3>2. txNum0 - 1 \in Nat \cup {-1}
      BY <1>a, LastNumber, Zenon
    <3> QED BY <3>1, <3>2, Zenon
  <2> QED BY <1>0, <2>1, <2>2
<1>2. FlagInv' /\ CounterInv' /\ WorkerInv'
  BY <1>0, Zenon DEF IInv, FlagInv, CounterInv, WorkerInv, Mid, RestPcs, AddPcs, UndoPcs, Segment,
              BaseLen, Verified
<1>4. TxHashInv'
  <2>0. pc \notin {"down", "refused", "rebuild", "reindex"}
    BY <1>0 DEF IInv, WorkerInv, AddPcs, UndoPcs
  <2>1. CASE worker = "insertsave"
    <3>1. ~ Truncating'
      BY <1>0, <2>1 DEF IInv, WorkerInv, Truncating, AddPcs, UndoPcs
    <3>2. Indexed' = Len(txNums) /\ Claimed' = Len(txNums) /\ Indexed = Len(txNums)
      BY <1>0, <2>0, <2>1, <3>1 DEF Indexed, Claimed, Truncating
    <3>3. txhash2txnum = TxHashesBelow(Len(txNums))
      BY <2>0, <3>2, Zenon DEF IInv, TxHashInv
    <3>4. largestTxNumSeen' + 1 = Len(txNums)
      BY <1>a, <1>1, <2>1
    <3> QED BY <1>0, <2>0, <3>2, <3>3, <3>4, Zenon DEF TxHashInv, TxHashesBelow
  <2>2. CASE worker = "truncatesave"
    <3>1. Truncating'
      BY <1>0, <2>2 DEF IInv, WorkerInv, Truncating
    <3>2. Indexed' = txNum0 /\ Claimed' = txNum0 /\ Indexed = txNum0
      BY <1>0, <2>0, <2>2, <3>1 DEF Indexed, Claimed
    <3>3. txhash2txnum = TxHashesBelow(txNum0)
      BY <2>0, <3>2, Zenon DEF IInv, TxHashInv
    <3>4. largestTxNumSeen' + 1 = txNum0
      BY <1>a, <1>1, <2>2
    <3> QED BY <1>0, <2>0, <3>2, <3>3, <3>4, Zenon DEF TxHashInv, TxHashesBelow
  <2> QED BY <1>0, <2>1, <2>2
<1>5. TypeOK'
  <2>2. MetaTyped'
    BY <1>0, <1>1 DEF IInv, TypeOK, MetaTyped
  <2> QED BY <1>0, <2>2, TypeFrames DEF IInv, TypeOK, ControlTyped
<1>6. (AtRest => RestInv)'
  BY <1>0, RestFrame DEF IInv, AtRest
<1>7. (Mid => MidInv)'
  BY <1>0, MidFrame DEF IInv, Mid
<1>c. CountInv'
  BY <1>0 DEF IInv, CountInv, Mid, BaseUtxos, FullUtxos, BaseLen
<1> QED BY <1>c, <1>2, <1>4, <1>5, <1>6, <1>7 DEF IInv
=============================================================================
