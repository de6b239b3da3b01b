--------------------------- MODULE StorageAddProofs ---------------------------
(***************************************************************************)
(* Each step of addBlock preserves IInv.                                   *)
(***************************************************************************)
EXTENDS StorageLemmas

-----------------------------------------------------------------------------
(* addBlock                                                                *)

\* The start of addBlock, header verification and setDirty(true), preserves IInv.
LEMMA AddBlockStep ==
  IInv /\ (\E b \in Block, save \in BOOLEAN : AddBlock(b, save)) => IInv'
<1> SUFFICES ASSUME IInv, NEW b \in Block, NEW save \in BOOLEAN, AddBlock(b, save) PROVE IInv'
  OBVIOUS
<1>0. /\ RestInv /\ pc = "idle" /\ ~ dirty /\ worker = "none"
      /\ verifier = Verified(headers) /\ txNumNext = Len(txNums)
  BY DEF AddBlock, IInv, AtRest, RestPcs, FlagInv, CounterInv, WorkerInv, TypeOK, ControlTyped,
         AddPcs, UndoPcs
<1>a. /\ headers \in Seq(Block) /\ Len(headers) \in Nat /\ txNums \in Seq(Tx)
      /\ Len(txNums) \in Nat
  BY DEF IInv, TypeOK, TablesTyped
<1> USE DEF AddBlock
<1>b. /\ BaseLen' = Len(headers)
      /\ pc' = "txnums" /\ txNum0' = Len(txNums) /\ cur' = b
      /\ UNCHANGED <<headers, txNums, blkinfo, utxoset, shunspent, shist, undo>>
  BY <1>0 DEF BaseLen
<1>1. TypeOK'
  <2>1. LocalsTyped'
    BY <1>a, <1>b DEF IInv, TypeOK, LocalsTyped
  <2>2. CountersTyped'
    <3>1. verifier.n \in Nat
      BY DEF IInv, TypeOK, CountersTyped
    <3>2. verifier' \in [n : Nat, last : Block \cup {NoBlock}]
      BY <3>1
    <3> QED BY <3>2 DEF IInv, TypeOK, CountersTyped
  <2> QED BY <2>1, <2>2, TypeFrames DEF IInv, TypeOK, MetaTyped, ControlTyped, AddPcs
<1>2. FlagInv' /\ CounterInv' /\ WorkerInv'
  BY <1>0, <1>a, <1>b DEF IInv, FlagInv, CounterInv, WorkerInv, Mid, RestPcs, AddPcs, UndoPcs,
                    Verified
<1>3. TxHashInv'
  BY <1>0 DEF IInv, TxHashInv, TxHashesBelow, UndoPcs, Indexed, Claimed, Truncating
<1>4. MidChain'
  <2>1. Prev[b] = IF Len(headers) = 0 THEN NoBlock ELSE headers[Len(headers)]
    <3>1. headers = <<>> <=> Len(headers) = 0
      BY <1>a, EmptyFile
    <3> QED BY <1>0, <3>1 DEF Verified, LastHeader
  <2>2. Linked(Len(headers))' /\ ChainValid(Len(headers))' /\ Numbered(Len(headers))'
    <3>1. Linked(Len(headers))' /\ ChainValid(Len(headers))'
      BY <1>0, <1>b DEF RestInv, Linked, ChainValid
    <3>2. Numbered(Len(headers))'
      BY <1>0, <1>b DEF RestInv, Numbered, TxTotal
    <3> QED BY <3>1, <3>2
  <2>3. TxTotal(Len(headers))' = Len(txNums)
    BY <1>0, <1>b DEF RestInv, TxTotal
  <2>4. ValidAbove(b, headers, Len(headers))
    OBVIOUS
  <2> QED BY <1>a, <1>b, <2>1, <2>2, <2>3, <2>4 DEF MidChain
<1>5. MidTxNums' /\ MidBlkInfo' /\ MidUtxoSet' /\ MidShunspent' /\ MidShist' /\ MidInfo'
  BY <1>0, <1>b DEF RestInv, MidTxNums, MidBlkInfo, MidUtxoSet, MidShunspent, MidShist, MidInfo,
                    BaseUtxos, UtxosOf, UtxosAre, HistoriesBelow
<1>6. MidUndo'
  BY <1>0, <1>b, RecordKept, Zenon DEF RestInv, MidUndo, UndoMatches
<1>7. Mid' /\ ~ AtRest'
  BY <1>b DEF Mid, AtRest, AddPcs, RestPcs
<1>c. CountInv'
  BY <1>0, <1>b DEF IInv, CountInv, RestInv, UtxosAre, UtxosOf, BaseUtxos, Mid
<1> QED BY <1>c, <1>1, <1>2, <1>3, <1>4, <1>5, <1>6, <1>7 DEF IInv, MidInv

\* The append to the txNums record file and the start of the worker preserve IInv.
LEMMA AppendTxNumsStep == IInv /\ AppendTxNums => IInv'
<1> SUFFICES ASSUME IInv, AppendTxNums PROVE IInv'
  OBVIOUS
<1>0. Mid /\ pc = "txnums"
  BY DEF AppendTxNums, Mid, AddPcs
<1> USE MidFacts, <1>0
<1>1. /\ Len(txNums) = txNum0 /\ txNumNext = txNum0 /\ worker = "none"
  BY DEF MidInv, MidTxNums, IInv, CounterInv, WorkerInv, TypeOK, ControlTyped, AddPcs, UndoPcs
<1>2. /\ txNums' = txNums \o Txs[cur] /\ txNums' \in Seq(Tx)
      /\ Len(txNums') = txNum0 + Len(Txs[cur])
      /\ \A i \in 1..txNum0 : txNums'[i] = txNums[i]
      /\ \A j \in 1..Len(Txs[cur]) : txNums'[txNum0 + j] = Txs[cur][j]
  <2>1. txNums' = txNums \o Txs[cur]
    BY DEF AppendTxNums
  <2>2. /\ txNums \o Txs[cur] \in Seq(Tx)
        /\ Len(txNums \o Txs[cur]) = Len(txNums) + Len(Txs[cur])
        /\ \A i \in 1..Len(txNums) : (txNums \o Txs[cur])[i] = txNums[i]
        /\ \A j \in 1..Len(Txs[cur]) : (txNums \o Txs[cur])[Len(txNums) + j] = Txs[cur][j]
    BY AppendBatch
  <2> QED BY <1>1, <2>1, <2>2, Zenon
<1>3. /\ pc' = "utxoset" /\ worker' = "insert" /\ txNumNext' = Len(txNums')
      /\ UNCHANGED <<headers, blkinfo, utxoset, shunspent, shist, undo,
                 txhash2txnum, largestTxNumSeen, utxoCtDb, dirty, cur, saveUndo,
                 txNum0, info, verifier, utxoCt, earliestUndoHeight, depth>>
  BY <1>1, <1>2 DEF AppendTxNums
<1>4. BaseLen = Len(headers) /\ BaseLen' = BaseLen
  BY <1>3 DEF BaseLen
<1>5. TypeOK'
  <2>1. TablesTyped'
    BY <1>2, <1>3 DEF TablesTyped
  <2>2. CountersTyped'
    <3>1. CountersTyped /\ txNumNext' \in Nat
      BY <1>2, <1>3 DEF IInv, TypeOK
    <3> QED BY <1>3, <3>1 DEF CountersTyped
  <2> QED BY <1>3, <2>1, <2>2, TypeFrames DEF IInv, TypeOK, ControlTyped, AddPcs
<1>6. FlagInv' /\ CounterInv'
  BY <1>3, <1>4 DEF IInv, FlagInv, CounterInv, Mid, RestPcs, AddPcs, UndoPcs
<1>7. WorkerInv' /\ MidTxNums'
  BY <1>2, <1>3, Zenon DEF WorkerInv, MidTxNums, Segment, AddPcs
<1>8. TxHashInv'
  <2>1. txhash2txnum = TxHashesBelow(txNum0) /\ largestTxNumSeen + 1 = txNum0
    BY <1>1 DEF IInv, TxHashInv, Indexed, Claimed, Truncating, UndoPcs
  <2>2. Indexed' = txNum0 /\ Claimed' = txNum0
    BY <1>3 DEF Indexed, Claimed
  <2>3. TxHashesBelow(txNum0)' = TxHashesBelow(txNum0)
    BY <1>2, <1>3, TxHashesFrame
  <2> QED BY <1>3, <2>1, <2>2, <2>3 DEF TxHashInv
<1>9. MidChain'
  BY <1>2, <1>3, <1>4, MidChainFrame DEF MidInv
<1>10. MidBlkInfo' /\ MidShunspent' /\ MidInfo'
  BY <1>3, <1>4 DEF MidInv, MidBlkInfo, MidShunspent, MidInfo
<1>11. MidUtxoSet'
  <2>1. UtxosAre(BaseUtxos, txNum0) /\ BaseUtxos' = BaseUtxos
    BY <1>3, <1>4 DEF MidInv, MidUtxoSet, BaseUtxos
  <2>2. UtxosAre(BaseUtxos, txNum0)'
    BY <1>2, <1>3, <2>1, UtxosFrame
  <2> QED BY <1>3, <2>2 DEF MidUtxoSet
<1>12. MidShist'
  BY <1>2, <1>3, HistoriesFrame DEF MidInv, MidShist
<1>13. MidUndo'
  BY <1>2, <1>3, <1>4, BaseRecordsFrame DEF MidInv, MidUndo, UndoPcs
<1>14. Mid' /\ ~ AtRest'
  BY <1>3 DEF Mid, AtRest, AddPcs, RestPcs
<1>c. CountInv'
  BY <1>3, <1>4 DEF IInv, CountInv, Mid, BaseUtxos, AddPcs
<1> QED
  BY <1>c, <1>5, <1>6, <1>7, <1>8, <1>9, <1>10, <1>11, <1>12, <1>13, <1>14 DEF IInv, MidInv

\* The utxoset batch of addBlock preserves IInv, and finds all it has to spend.
LEMMA WriteUtxoSetStep == IInv /\ WriteUtxoSet => IInv'
<1> SUFFICES ASSUME IInv, WriteUtxoSet PROVE IInv'
  OBVIOUS
<1>0. Mid /\ pc = "utxoset"
  BY DEF WriteUtxoSet, Mid, AddPcs
<1> USE MidFacts, <1>0
<1>1. /\ UNCHANGED <<headers, txNums, blkinfo, shunspent, shist, undo, txhash2txnum,
                 largestTxNumSeen, utxoCtDb, dirty, worker, cur, saveUndo, txNum0,
                 verifier, txNumNext, utxoCt, earliestUndoHeight, depth>>
  BY DEF WriteUtxoSet
<1>2. /\ UtxosAre(BaseUtxos, txNum0) /\ ValidAbove(cur, headers, BaseLen)
      /\ SpentBy(cur) \subseteq BaseUtxos /\ CreatedBy(cur) \cap BaseUtxos = {}
      /\ CreatedBy(cur) \cap SpentBy(cur) = {}
  <2>1. UtxosAre(BaseUtxos, txNum0) /\ ValidAbove(cur, headers, BaseLen)
    BY DEF MidInv, MidUtxoSet, MidChain
  <2> QED BY <2>1, SpentAndCreated DEF BaseUtxos
<1> DEFINE add == [o \in CreatedBy(cur) |-> TxNumIn(cur, txNum0, TxOf[o])]
           del == [o \in SpentBy(cur) |-> utxoset[o]]
<1>3. /\ pc' = "shunspent"
      /\ info' = [info EXCEPT !.addUndos = add, !.delUndos = del]
      /\ utxoset' = [o \in (DOMAIN utxoset \cup CreatedBy(cur)) \ SpentBy(cur) |->
                       IF o \in CreatedBy(cur) THEN TxNumIn(cur, txNum0, TxOf[o])
                                               ELSE utxoset[o]]
  BY <1>2 DEF WriteUtxoSet, Restricted, UtxosAre
<1>4. /\ info'.addUndos = add /\ info'.delUndos = del
      /\ info' = [hash |-> info.hash, blkInfo |-> info.blkInfo,
                  scriptHashes |-> info.scriptHashes, addUndos |-> add, delUndos |-> del]
  BY <1>3, Zenon DEF IsUndoInfo
<1>5. /\ DOMAIN utxoset' = FullUtxos
      /\ \A o \in FullUtxos : utxoset'[o] \in Nat /\ utxoset'[o] < txNum0 + Len(Txs[cur])
                              /\ txNums[utxoset'[o] + 1] = TxOf[o]
  <2>1. DOMAIN utxoset' = FullUtxos
    BY <1>2, <1>3 DEF UtxosAre, FullUtxos
  <2>2. ASSUME NEW o \in CreatedBy(cur)
        PROVE  /\ utxoset'[o] \in Nat /\ utxoset'[o] < txNum0 + Len(Txs[cur])
               /\ txNums[utxoset'[o] + 1] = TxOf[o]
    <3> DEFINE n == TxNumIn(cur, txNum0, TxOf[o])
    <3>1. utxoset'[o] = n
      BY <1>2, <1>3
    <3>2. /\ n \in Nat /\ n >= txNum0 /\ n < txNum0 + Len(Txs[cur])
          /\ Txs[cur][n - txNum0 + 1] = TxOf[o]
      BY CreatedTxNums, Zenon
    <3> HIDE DEF n
    <3>3. Segment
      BY DEF MidInv, MidTxNums
    <3>4. n - txNum0 + 1 \in 1..Len(Txs[cur]) /\ txNum0 + (n - txNum0 + 1) = n + 1
      BY <3>2, SMTT(30)
    <3>5. txNums[txNum0 + (n - txNum0 + 1)] = Txs[cur][n - txNum0 + 1]
      BY <3>3, <3>4 DEF Segment
    <3>6. txNums[n + 1] = TxOf[o]
      BY <3>2, <3>4, <3>5
    <3> QED BY <3>1, <3>2, <3>6
  <2>3. ASSUME NEW o \in BaseUtxos \ SpentBy(cur)
        PROVE  /\ utxoset'[o] \in Nat /\ utxoset'[o] < txNum0 + Len(Txs[cur])
               /\ txNums[utxoset'[o] + 1] = TxOf[o]
    <3>1. utxoset'[o] = utxoset[o]
      BY <1>2, <1>3 DEF UtxosAre
    <3>2. utxoset[o] \in Nat /\ utxoset[o] < txNum0 /\ txNums[utxoset[o] + 1] = TxOf[o]
      BY <1>2 DEF UtxosAre, TxNumMap
    <3> QED BY <3>1, <3>2
  <2> QED BY <2>1, <2>2, <2>3 DEF FullUtxos
<1>6. TypeOK'
  <2>1. CreatedBy(cur) \subseteq TXO /\ SpentBy(cur) \subseteq TXO
    BY BlockOutputs
  <2>2. TxNumMap(utxoset')
    <3>1. DOMAIN utxoset' \subseteq TXO
      BY <1>2, <1>3, <2>1 DEF TxNumMap, UtxosAre
    <3>2. utxoset' \in [DOMAIN utxoset' -> Nat]
      BY <1>3, <1>5, Zenon
    <3> QED BY <3>1, <3>2 DEF TxNumMap
  <2>3. TxNumMap(add)
    BY <2>1, CreatedTxNums DEF TxNumMap
  <2>4. TxNumMap(del)
    BY <1>2, <2>1 DEF TxNumMap, UtxosAre
  <2> HIDE DEF add, del
  <2>5. IsUndoInfo(info')
    BY <1>4, <2>3, <2>4 DEF IsUndoInfo
  <2>6. TablesTyped' /\ LocalsTyped'
    BY <1>1, <2>2, <2>5 DEF IInv, TypeOK, TablesTyped, LocalsTyped
  <2> QED BY <1>1, <1>3, <2>6, TypeFrames DEF IInv, TypeOK, ControlTyped, AddPcs
<1>7. BaseLen = Len(headers) /\ BaseLen' = BaseLen
  BY <1>1, <1>3 DEF BaseLen
<1>8. FlagInv' /\ CounterInv' /\ WorkerInv'
  BY <1>1, <1>3, <1>7 DEF IInv, FlagInv, CounterInv, WorkerInv, Mid, RestPcs, AddPcs, UndoPcs,
                          Segment
<1>9. TxHashInv'
  BY <1>1, <1>3, SMTT(30) DEF IInv, TxHashInv, TxHashesBelow, UndoPcs, Indexed, Claimed, Truncating
<1>10. MidChain' /\ MidTxNums' /\ MidBlkInfo'
  <2>1. MidChain'
    BY <1>1, <1>3, <1>7, MidChainFrame DEF MidInv
  <2> QED BY <1>1, <1>3, <1>7, <2>1 DEF MidInv, MidTxNums, Segment, MidBlkInfo
<1>11. MidUtxoSet'
  <2>1. FullUtxos' = FullUtxos
    BY <1>1, <1>7 DEF FullUtxos, BaseUtxos
  <2> QED BY <1>1, <1>3, <1>5, <2>1, Zenon DEF MidUtxoSet, UtxosAre
<1>12. MidShunspent'
  <2>1. shunspent = ShunspentKeys(utxoset)
    BY DEF MidInv, MidShunspent
  <2>2. ShunspentKeys(utxoset) =
          (ShunspentKeys(utxoset') \cup ShunspentKeys(del)) \ ShunspentKeys(add)
    <3>1. /\ \A o \in DOMAIN utxoset \ SpentBy(cur) : o \in DOMAIN utxoset' /\ utxoset'[o] = utxoset[o]
          /\ \A o \in SpentBy(cur) : o \in DOMAIN utxoset /\ del[o] = utxoset[o]
          /\ DOMAIN del = SpentBy(cur) /\ DOMAIN add = CreatedBy(cur)
          /\ \A o \in DOMAIN utxoset : o \notin CreatedBy(cur)
          /\ \A o \in DOMAIN utxoset' : \/ o \in CreatedBy(cur) /\ utxoset'[o] = add[o]
                                        \/ o \in DOMAIN utxoset /\ utxoset'[o] = utxoset[o]
      BY <1>2, <1>3 DEF UtxosAre
    <3> HIDE DEF add, del
    <3> QED BY <3>1 DEF ShunspentKeys
  <2> QED BY <1>1, <1>3, <1>4, <2>1, <2>2, Zenon DEF MidShunspent
<1>13. MidShist'
  BY <1>1, <1>3 DEF MidInv, MidShist, HistoriesBelow
<1>14. MidInfo'
  BY <1>1, <1>2, <1>3, <1>4, ZenonT(30) DEF MidInfo, UtxosAre, UndoPcs
<1>15. MidUndo'
  BY <1>1, <1>3, <1>7 DEF MidInv, MidUndo, RecordReverts, UndoPcs
<1>16. Mid' /\ ~ AtRest'
  BY <1>3 DEF Mid, AtRest, AddPcs, RestPcs
<1>c. CountInv'
  BY <1>1, <1>3, <1>7 DEF IInv, CountInv, Mid, BaseUtxos, AddPcs
<1> QED
  BY <1>c, <1>6, <1>8, <1>9, <1>10, <1>11, <1>12, <1>13, <1>14, <1>15, <1>16 DEF IInv, MidInv

\* The scripthash_unspent batch of addBlock preserves IInv.
LEMMA WriteShunspentStep == IInv /\ (Mid => CountsAdd) /\ WriteShunspent => IInv'
<1> SUFFICES ASSUME IInv, Mid => CountsAdd, WriteShunspent PROVE IInv'
  OBVIOUS
<1>0. Mid /\ pc = "shunspent"
  BY DEF WriteShunspent, Mid, AddPcs
<1> USE MidFacts, <1>0
<1>1. /\ UNCHANGED <<headers, txNums, blkinfo, utxoset, shist, undo, txhash2txnum,
                 largestTxNumSeen, utxoCtDb, dirty, worker, cur, saveUndo, txNum0,
                 info, verifier, txNumNext, earliestUndoHeight, depth>>
      /\ pc' = "shist"
  BY DEF WriteShunspent
<1>2. BaseLen = Len(headers) /\ BaseLen' = BaseLen
  BY <1>1 DEF BaseLen
<1>3. MidChain /\ Segment /\ UtxosAre(FullUtxos, txNum0 + Len(Txs[cur]))
  BY DEF MidInv, MidTxNums, MidUtxoSet
<1>4. /\ DOMAIN info.addUndos = CreatedBy(cur) /\ DOMAIN info.delUndos = SpentBy(cur)
      /\ \A o \in CreatedBy(cur) : info.addUndos[o] = TxNumIn(cur, txNum0, TxOf[o])
  BY DEF MidInv, MidInfo
<1>5. utxoCt' = Cardinality(FullUtxos) /\ utxoCt' \in Int
  <2>1. utxoCt = Cardinality(BaseUtxos)
    BY DEF IInv, CountInv
  <2>2. utxoCt' = utxoCt + Cardinality(CreatedBy(cur)) - Cardinality(SpentBy(cur))
    BY <1>4 DEF WriteShunspent
  <2> QED BY <2>1, <2>2 DEF CountsAdd
<1>6. MidShunspent'
  <2>1. \A o \in CreatedBy(cur) : utxoset[o] = info.addUndos[o] /\ o \in DOMAIN utxoset
    BY <1>3, <1>4, OnePlace, Zenon DEF UtxosAre, FullUtxos, TxNumMap
  <2>2. \A o \in SpentBy(cur) : o \notin DOMAIN utxoset /\ o \notin CreatedBy(cur)
    BY <1>3, SpentAndCreated, Zenon DEF MidChain, UtxosAre, FullUtxos
  <2>3. shunspent = (ShunspentKeys(utxoset) \cup ShunspentKeys(info.delUndos))
                       \ ShunspentKeys(info.addUndos)
    BY DEF MidInv, MidShunspent
  <2>4. shunspent' = (shunspent \cup ShunspentKeys(info.addUndos)) \ ShunspentKeys(info.delUndos)
    BY Zenon DEF WriteShunspent
  <2>5. ShunspentKeys(info.addUndos) \subseteq ShunspentKeys(utxoset)
    BY <1>4, <2>1, Zenon DEF ShunspentKeys
  <2>6. ShunspentKeys(info.delUndos) \cap ShunspentKeys(utxoset) = {}
    BY <1>4, <2>2, DisjointKeys, Zenon
  <2>7. shunspent' = ShunspentKeys(utxoset)
    BY <2>3, <2>4, <2>5, <2>6
  <2> QED BY <1>1, <2>7 DEF MidShunspent
<1>7. TypeOK'
  <2>1. shunspent' \subseteq HashX \X Nat \X TXO
    <3>1. shunspent' = ShunspentKeys(utxoset)
      BY <1>1, <1>6 DEF MidShunspent
    <3> QED BY <3>1, ConstantsAssumption DEF ShunspentKeys, TxNumMap
  <2>2. TablesTyped'
    BY <1>1, <2>1 DEF TablesTyped
  <2>3. CountersTyped'
    BY <1>1, <1>5 DEF IInv, TypeOK, CountersTyped
  <2> QED BY <1>1, <2>2, <2>3, TypeFrames DEF IInv, TypeOK, ControlTyped, AddPcs
<1>8. FlagInv' /\ CounterInv' /\ WorkerInv'
  BY <1>1, <1>2 DEF IInv, FlagInv, CounterInv, WorkerInv, Mid, RestPcs, AddPcs, UndoPcs, Segment
<1>9. TxHashInv'
  BY <1>1, ZenonT(30) DEF IInv, TxHashInv, TxHashesBelow, UndoPcs, Indexed, Claimed, Truncating
<1>10. MidChain' /\ MidTxNums' /\ MidBlkInfo'
  <2>1. MidChain'
    BY <1>1, <1>2, MidChainFrame DEF MidInv
  <2> QED BY <1>1, <1>2, <2>1, Zenon DEF MidInv, MidTxNums, Segment, MidBlkInfo
<1>11. MidUtxoSet' /\ MidShist' /\ MidInfo' /\ MidUndo'
  <2>1. MidUtxoSet'
    BY <1>1, <1>2, Zenon DEF MidInv, MidUtxoSet, FullUtxos, BaseUtxos, UtxosAre
  <2>2. MidShist'
    BY <1>1, Zenon DEF MidInv, MidShist, HistoriesBelow
  <2>3. MidInfo'
    BY <1>1, MidInfoFrame, Zenon DEF MidInv, UndoPcs
  <2>4. MidUndo'
    <3>1. \A r, b, bi : RecordReverts(r, b, bi) => RecordReverts(r, b, bi)'
      BY <1>1, RecordKept, Zenon
    <3> QED BY <1>1, <1>2, <3>1, Zenon DEF MidInv, MidUndo, UndoPcs
  <2> QED BY <2>1, <2>2, <2>3, <2>4
<1>12. CountInv'
  BY <1>1, <1>2, <1>5 DEF CountInv, FullUtxos, BaseUtxos
<1>13. Mid' /\ ~ AtRest'
  BY <1>1 DEF Mid, AtRest, AddPcs, RestPcs
<1> QED BY <1>6, <1>7, <1>8, <1>9, <1>10, <1>11, <1>12, <1>13 DEF IInv, MidInv

\* The merge into the script hash histories preserves IInv.
LEMMA MergeShistStep == IInv /\ MergeShist => IInv'
<1> SUFFICES ASSUME IInv, MergeShist PROVE IInv'
  OBVIOUS
<1>0. Mid /\ pc = "shist"
  BY DEF MergeShist, Mid, AddPcs
<1> USE MidFacts, <1>0
<1>1. /\ UNCHANGED <<headers, txNums, blkinfo, utxoset, shunspent, undo, txhash2txnum,
                 largestTxNumSeen, utxoCtDb, dirty, worker, cur, saveUndo, txNum0,
                 info, verifier, txNumNext, utxoCt, earliestUndoHeight, depth>>
      /\ pc' = "blkinfo"
  BY DEF MergeShist
<1>2. BaseLen = Len(headers) /\ BaseLen' = BaseLen
  BY <1>1 DEF BaseLen
<1>3. ASSUME NEW hx \in HashX
      PROVE  shist'[hx] = {m \in 0..(txNum0 + Len(Txs[cur])) - 1 : Touches(txNums[m + 1], hx)}
  <2>1. shist[hx] = {m \in 0..txNum0 - 1 : Touches(txNums[m + 1], hx)}
    BY DEF MidInv, MidShist, HistoriesBelow
  <2>2. shist'[hx] = shist[hx] \cup {n \in txNum0 .. txNum0 + Len(Txs[cur]) - 1 :
                                       Touches(Txs[cur][n - txNum0 + 1], hx)}
    BY DEF MergeShist
  <2>3. ASSUME NEW n \in txNum0 .. txNum0 + Len(Txs[cur]) - 1
        PROVE  txNums[n + 1] = Txs[cur][n - txNum0 + 1]
    <3>1. n - txNum0 + 1 \in 1..Len(Txs[cur]) /\ txNum0 + (n - txNum0 + 1) = n + 1
      OBVIOUS
    <3>2. txNums[txNum0 + (n - txNum0 + 1)] = Txs[cur][n - txNum0 + 1]
      BY <3>1, Zenon DEF MidInv, MidTxNums, Segment
    <3> QED BY <3>1, <3>2
  <2>4. 0..(txNum0 + Len(Txs[cur])) - 1 = 0..txNum0 - 1 \cup (txNum0 .. txNum0 + Len(Txs[cur]) - 1)
    BY SMTT(30)
  <2> QED BY <2>1, <2>2, <2>3, <2>4, Zenon
<1>4. MidShist'
  BY <1>1, <1>3 DEF MidShist, HistoriesBelow
<1>5. TypeOK'
  <2>1. shist' \in [HashX -> SUBSET Nat]
    BY DEF MergeShist
  <2>2. TablesTyped'
    BY <1>1, <2>1 DEF TablesTyped
  <2> QED BY <1>1, <2>2, TypeFrames DEF IInv, TypeOK, ControlTyped, AddPcs
<1>8. FlagInv' /\ CounterInv' /\ WorkerInv'
  BY <1>1, <1>2 DEF IInv, FlagInv, CounterInv, WorkerInv, Mid, RestPcs, AddPcs, UndoPcs, Segment
<1>9. TxHashInv' /\ CountInv'
  BY <1>1, <1>2, Zenon DEF IInv, TxHashInv, TxHashesBelow, UndoPcs, Indexed, Claimed, Truncating,
                    CountInv, FullUtxos, BaseUtxos
<1>10. MidChain' /\ MidTxNums' /\ MidBlkInfo'
  <2>1. MidChain'
    BY <1>1, <1>2, MidChainFrame DEF MidInv
  <2> QED BY <1>1, <1>2, <2>1 DEF MidInv, MidTxNums, Segment, MidBlkInfo
<1>11. MidUtxoSet' /\ MidShunspent'
  BY <1>1, <1>2, Zenon DEF MidInv, MidUtxoSet, FullUtxos, BaseUtxos, UtxosAre, MidShunspent
<1>12. MidInfo' /\ MidUndo'
  <2>1. MidInfo'
    BY <1>1, MidInfoFrame, Zenon DEF MidInv, UndoPcs
  <2>2. MidUndo'
    <3>1. \A r, b, bi : RecordReverts(r, b, bi) => RecordReverts(r, b, bi)'
      BY <1>1, RecordKept, Zenon
    <3> QED BY <1>1, <1>2, <3>1, Zenon DEF MidInv, MidUndo, UndoPcs
  <2> QED BY <2>1, <2>2
<1>13. Mid' /\ ~ AtRest'
  BY <1>1 DEF Mid, AtRest, AddPcs, RestPcs
<1> QED BY <1>4, <1>5, <1>8, <1>9, <1>10, <1>11, <1>12, <1>13 DEF IInv, MidInv

\* The append of the blkInfo preserves IInv.
LEMMA AppendBlkInfoStep == IInv /\ AppendBlkInfo => IInv'
<1> SUFFICES ASSUME IInv, AppendBlkInfo PROVE IInv'
  OBVIOUS
<1>0. Mid /\ pc = "blkinfo"
  BY DEF AppendBlkInfo, Mid, AddPcs
<1>1. /\ UNCHANGED <<headers, txNums, utxoset, shunspent, shist, undo, txhash2txnum,
                 largestTxNumSeen, utxoCtDb, dirty, worker, cur, saveUndo, txNum0,
                 info, verifier, txNumNext, utxoCt, earliestUndoHeight, depth>>
      /\ pc' = "saveundo" /\ blkinfo' = Append(blkinfo, CurInfo)
  BY DEF AppendBlkInfo, CurInfo
<1>2. BaseLen = Len(headers) /\ BaseLen' = BaseLen /\ Len(blkinfo) = BaseLen
  BY MidFacts, <1>0, <1>1 DEF BaseLen, MidInv, MidBlkInfo
<1>3. /\ CurInfo \in [txNum0 : Nat, nTx : Nat] /\ blkinfo' \in Seq([txNum0 : Nat, nTx : Nat])
      /\ Len(blkinfo') = BaseLen + 1 /\ blkinfo'[BaseLen + 1] = CurInfo
      /\ \A i \in 1..BaseLen : blkinfo'[i] = blkinfo[i]
  <2> DEFINE S == [txNum0 : Nat, nTx : Nat]
  <2>1. CurInfo \in S
    BY MidFacts, <1>0 DEF CurInfo
  <2>2. blkinfo \in Seq(S)
    BY MidFacts, <1>0
  <2> HIDE DEF S
  <2>3. /\ Append(blkinfo, CurInfo) \in Seq(S)
        /\ Len(Append(blkinfo, CurInfo)) = Len(blkinfo) + 1
        /\ \A i \in 1..Len(blkinfo) : Append(blkinfo, CurInfo)[i] = blkinfo[i]
        /\ Append(blkinfo, CurInfo)[Len(blkinfo) + 1] = CurInfo
    BY <2>1, <2>2
  <2>4. blkinfo' \in Seq(S)
    BY <1>1, <2>3, Zenon
  <2>5. /\ Len(blkinfo') = BaseLen + 1 /\ blkinfo'[BaseLen + 1] = CurInfo
        /\ \A i \in 1..BaseLen : blkinfo'[i] = blkinfo[i]
    BY <1>1, <1>2, <2>3, Zenon
  <2> QED BY <2>1, <2>4, <2>5 DEF S
<1> USE MidFacts, <1>0
<1>5. TypeOK'
  <2>2. TablesTyped'
    BY <1>1, <1>3 DEF TablesTyped
  <2> QED BY <1>1, <2>2, TypeFrames DEF IInv, TypeOK, ControlTyped, AddPcs
<1>8. FlagInv' /\ CounterInv' /\ WorkerInv'
  BY <1>1, <1>2, Zenon DEF IInv, FlagInv, CounterInv, WorkerInv, Mid, RestPcs, AddPcs, UndoPcs, Segment
<1>9. TxHashInv' /\ CountInv'
  BY <1>1, <1>2, Zenon DEF IInv, TxHashInv, TxHashesBelow, UndoPcs, Indexed, Claimed, Truncating,
                    CountInv, FullUtxos, BaseUtxos
<1>10. MidChain' /\ MidTxNums' /\ MidBlkInfo'
  <2>0. BaseLen + 1 >= BaseLen
    OBVIOUS
  <2>1. MidChain'
    BY <1>1, <1>2, <1>3, <2>0, MidChainFrame, Zenon DEF MidInv
  <2>2. CurInfo' = CurInfo
    BY <1>1 DEF CurInfo
  <2> QED BY <1>1, <1>2, <1>3, <2>1, <2>2 DEF MidInv, MidTxNums, Segment, MidBlkInfo
<1>11. MidUtxoSet' /\ MidShunspent'
  BY <1>1, <1>2, Zenon DEF MidInv, MidUtxoSet, FullUtxos, BaseUtxos, UtxosAre, MidShunspent
<1>14. MidInfo' /\ MidShist'
  <2>1. MidInfo'
    BY <1>1, MidInfoFrame, Zenon DEF MidInv, UndoPcs
  <2>2. MidShist'
    BY <1>1, Zenon DEF MidInv, MidShist, HistoriesBelow
  <2> QED BY <2>1, <2>2
<1>12. MidUndo'
  BY <1>1, <1>2, <1>3, BaseRecordsFrame, Zenon DEF MidInv, MidUndo, UndoPcs
<1>13. Mid' /\ ~ AtRest'
  BY <1>1 DEF Mid, AtRest, AddPcs, RestPcs
<1> QED BY <1>5, <1>8, <1>9, <1>10, <1>11, <1>12, <1>13, <1>14 DEF IInv, MidInv

\* The save of the UndoInfo preserves IInv: it is the record that reverts cur.
LEMMA SaveUndoStep == IInv /\ SaveUndo => IInv'
<1> SUFFICES ASSUME IInv, SaveUndo PROVE IInv'
  OBVIOUS
<1>0. Mid /\ pc = "saveundo"
  BY DEF SaveUndo, Mid, AddPcs
<1> USE MidFacts, <1>0
<1>1. /\ UNCHANGED <<headers, txNums, blkinfo, utxoset, shunspent, shist, txhash2txnum,
                 largestTxNumSeen, utxoCtDb, dirty, worker, cur, saveUndo, txNum0,
                 info, verifier, txNumNext, utxoCt, depth>>
      /\ pc' = "expire"
  BY DEF SaveUndo
<1>2. BaseLen = Len(headers) /\ BaseLen' = BaseLen /\ CurInfo' = CurInfo
  BY <1>1 DEF BaseLen, CurInfo
<1> DEFINE rec == [hash |-> cur, blkInfo |-> CurInfo, scriptHashes |-> HashXsOf(cur),
                   addUndos |-> info.addUndos, delUndos |-> info.delUndos]
<1>3. \/ UNCHANGED <<undo, earliestUndoHeight>>
      \/ /\ undo' = [k \in DOMAIN undo \cup {BaseLen} |-> IF k = BaseLen THEN rec ELSE undo[k]]
         /\ earliestUndoHeight' = IF BaseLen < earliestUndoHeight THEN BaseLen
                                                                  ELSE earliestUndoHeight
  BY <1>2 DEF SaveUndo, CurInfo
<1>4. RecordReverts(rec, cur, CurInfo)
  BY Zenon DEF RecordReverts, MidInv, MidInfo, CurInfo
<1>5. IsUndoInfo(rec)
  BY DEF IsUndoInfo, CurInfo, HashXsOf
<1> HIDE DEF rec
<1>6. UndoTyped'
  BY <1>3, <1>5, Zenon DEF UndoTyped
<1>7. MidUndo'
  <2>1. ASSUME NEW h \in DOMAIN undo
        PROVE  h < BaseLen /\ RecordReverts(undo[h], headers[h + 1], blkinfo[h + 1])
    BY DEF MidInv, MidUndo, UndoPcs
  <2>2. ASSUME NEW h \in DOMAIN undo'
        PROVE  \/ h \in DOMAIN undo /\ undo'[h] = undo[h]
               \/ h = BaseLen /\ undo'[h] = rec
    BY <1>3
  <2>3. \A r, b, bi : RecordReverts(r, b, bi) => RecordReverts(r, b, bi)'
    BY <1>1, RecordKept, Zenon
  <2> QED BY <1>1, <1>2, <1>4, <2>1, <2>2, <2>3 DEF MidUndo
<1>8. TypeOK'
  <2>1. CountersTyped'
    <3>1. CountersTyped /\ earliestUndoHeight \in Nat
      BY DEF IInv, TypeOK, CountersTyped
    <3>2. earliestUndoHeight' \in Nat
      BY <1>3, <3>1
    <3> QED BY <1>1, <3>1, <3>2 DEF CountersTyped
  <2> QED BY <1>1, <1>6, <2>1, TypeFrames DEF IInv, TypeOK, ControlTyped, AddPcs
<1>9. FlagInv' /\ CounterInv' /\ WorkerInv'
  BY <1>1, <1>2, Zenon DEF IInv, FlagInv, CounterInv, WorkerInv, Mid, RestPcs, AddPcs, UndoPcs, Segment
<1>10. TxHashInv' /\ CountInv'
  BY <1>1, <1>2, Zenon DEF IInv, TxHashInv, TxHashesBelow, UndoPcs, Indexed, Claimed, Truncating,
                    CountInv, FullUtxos, BaseUtxos
<1>11. MidChain' /\ MidTxNums' /\ MidBlkInfo'
  <2>1. MidChain'
    BY <1>1, <1>2, MidChainFrame DEF MidInv
  <2> QED BY <1>1, <1>2, <2>1, Zenon DEF MidInv, MidTxNums, Segment, MidBlkInfo
<1>12. MidUtxoSet' /\ MidShunspent'
  BY <1>1, <1>2, Zenon DEF MidInv, MidUtxoSet, FullUtxos, BaseUtxos, UtxosAre, MidShunspent
<1>13. MidInfo' /\ MidShist'
  <2>1. MidInfo'
    BY <1>1, <1>2, MidInfoFrame DEF MidInv, UndoPcs
  <2>2. MidShist'
    BY <1>1, <1>2, Zenon DEF MidInv, MidShist, HistoriesBelow
  <2> QED BY <2>1, <2>2
<1>14. Mid' /\ ~ AtRest'
  BY <1>1 DEF Mid, AtRest, AddPcs, RestPcs
<1> QED BY <1>7, <1>8, <1>9, <1>10, <1>11, <1>12, <1>13, <1>14 DEF IInv, MidInv

\* The deletion of the oldest UndoInfo preserves IInv.
LEMMA ExpireUndoStep == IInv /\ ExpireUndo => IInv'
<1> SUFFICES ASSUME IInv, ExpireUndo PROVE IInv'
  OBVIOUS
<1>0. Mid /\ pc = "expire"
  BY DEF ExpireUndo, Mid, AddPcs
<1> USE MidFacts, <1>0
<1>1. /\ UNCHANGED <<headers, txNums, blkinfo, utxoset, shunspent, shist, txhash2txnum,
                 largestTxNumSeen, utxoCtDb, dirty, worker, cur, saveUndo, txNum0,
                 info, verifier, txNumNext, utxoCt, depth>>
      /\ pc' = "header"
  BY DEF ExpireUndo
<1>2. BaseLen = Len(headers) /\ BaseLen' = BaseLen /\ CurInfo' = CurInfo
  BY <1>1 DEF BaseLen, CurInfo
<1>3. /\ DOMAIN undo' \subseteq DOMAIN undo /\ undo' = [h \in DOMAIN undo' |-> undo[h]]
      /\ earliestUndoHeight' \in Nat
  <2>1. undo = [h \in DOMAIN undo |-> undo[h]]
    BY DEF UndoTyped
  <2>2. depth \in Nat /\ earliestUndoHeight \in Nat
    BY ConstantsAssumption DEF IInv, TypeOK, CountersTyped
  <2> QED BY <2>1, <2>2 DEF ExpireUndo, Restricted
<1>6. UndoTyped'
  BY <1>3 DEF UndoTyped
<1>7. MidUndo'
  <2>1. \A r, b, bi : RecordReverts(r, b, bi) => RecordReverts(r, b, bi)'
    BY <1>1, RecordKept, Zenon
  <2>2. ASSUME NEW h \in DOMAIN undo' PROVE h \in DOMAIN undo /\ undo'[h] = undo[h]
    BY <1>3
  <2> QED BY <1>1, <1>2, <2>1, <2>2 DEF MidInv, MidUndo
<1>8. TypeOK'
  <2>1. CountersTyped'
    BY <1>1, <1>3 DEF IInv, TypeOK, CountersTyped
  <2> QED BY <1>1, <1>6, <2>1, TypeFrames DEF IInv, TypeOK, ControlTyped, AddPcs
<1>9. FlagInv' /\ CounterInv' /\ WorkerInv'
  BY <1>1, <1>2, Zenon DEF IInv, FlagInv, CounterInv, WorkerInv, Mid, RestPcs, AddPcs, UndoPcs, Segment
<1>10. TxHashInv' /\ CountInv'
  BY <1>1, <1>2, Zenon DEF IInv, TxHashInv, TxHashesBelow, UndoPcs, Indexed, Claimed, Truncating,
                    CountInv, FullUtxos, BaseUtxos
<1>11. MidChain' /\ MidTxNums' /\ MidBlkInfo'
  <2>1. MidChain'
    BY <1>1, <1>2, MidChainFrame DEF MidInv
  <2> QED BY <1>1, <1>2, <2>1, Zenon DEF MidInv, MidTxNums, Segment, MidBlkInfo
<1>12. MidUtxoSet' /\ MidShunspent'
  BY <1>1, <1>2, Zenon DEF MidInv, MidUtxoSet, FullUtxos, BaseUtxos, UtxosAre, MidShunspent
<1>13. MidInfo' /\ MidShist'
  <2>1. MidInfo'
    BY <1>1, <1>2, MidInfoFrame DEF MidInv, UndoPcs
  <2>2. MidShist'
    BY <1>1, <1>2, Zenon DEF MidInv, MidShist, HistoriesBelow
  <2> QED BY <2>1, <2>2
<1>14. Mid' /\ ~ AtRest'
  BY <1>1 DEF Mid, AtRest, AddPcs, RestPcs
<1> QED BY <1>7, <1>8, <1>9, <1>10, <1>11, <1>12, <1>13, <1>14 DEF IInv, MidInv

\* The append of the header preserves IInv: it turns the half-way state into the
\* index of the longer chain.
LEMMA AppendHeaderStep == IInv /\ AppendHeader => IInv'
<1> SUFFICES ASSUME IInv, AppendHeader PROVE IInv'
  OBVIOUS
<1>0. Mid /\ pc = "header"
  BY DEF AppendHeader, Mid, AddPcs
<1> USE MidFacts, <1>0
<1>1. /\ UNCHANGED <<txNums, blkinfo, utxoset, shunspent, shist, undo, txhash2txnum,
                 largestTxNumSeen, utxoCtDb, dirty, worker, cur, saveUndo, txNum0,
                 info, verifier, txNumNext, utxoCt, earliestUndoHeight, depth>>
      /\ pc' = "utxoct" /\ headers' = Append(headers, cur)
  BY DEF AppendHeader
<1>k. PICK k \in Nat : k = Len(headers)
  OBVIOUS
<1>2. BaseLen = k /\ k \in Nat
  BY <1>k DEF BaseLen
<1>3. /\ headers' \in Seq(Block) /\ Len(headers') = k + 1 /\ headers'[k + 1] = cur
      /\ \A i \in 1..k : headers'[i] = headers[i]
  BY <1>k, <1>1, AppendRecord
<1>4. /\ MidChain /\ Segment /\ Len(blkinfo) = k + 1 /\ blkinfo[k + 1] = CurInfo
      /\ UtxosAre(FullUtxos, Len(txNums)) /\ shunspent = ShunspentKeys(utxoset)
      /\ HistoriesBelow(Len(txNums)) /\ MidUndo
  <2>1. MidChain /\ MidUndo /\ Segment
    BY Zenon DEF MidInv, MidTxNums
  <2>2. Len(txNums) = txNum0 + Len(Txs[cur])
    BY <2>1, Zenon DEF Segment
  <2>3. Len(blkinfo) = k + 1 /\ blkinfo[k + 1] = CurInfo
    BY <1>2, Zenon DEF MidInv, MidBlkInfo
  <2>4. UtxosAre(FullUtxos, Len(txNums)) /\ shunspent = ShunspentKeys(utxoset)
    BY <2>2, Zenon DEF MidInv, MidUtxoSet, MidShunspent
  <2>5. HistoriesBelow(Len(txNums))
    BY <2>2, Zenon DEF MidInv, MidShist
  <2> QED BY <2>1, <2>3, <2>4, <2>5, Zenon
<1>5. /\ ChainValid(k) /\ ValidAbove(cur, headers, k) /\ Linked(k) /\ Numbered(k)
      /\ txNum0 = TxTotal(k) /\ Prev[cur] = IF k = 0 THEN NoBlock ELSE headers[k]
  BY <1>k, <1>2, <1>4, Zenon DEF MidChain
<1>6. 1..(k + 1) = 1..k \cup {k + 1} /\ k + 1 \in 1..(k + 1)
  BY <1>2
<1>7. ChainValid(k + 1)'
  <2>1. ASSUME NEW i \in 1..k PROVE ValidAbove(headers'[i], headers', i - 1)
    <3>1. ValidAbove(headers[i], headers, i - 1) /\ i - 1 \in Nat /\ 1..(i - 1) \subseteq 1..k
      BY <1>2, <1>5 DEF ChainValid
    <3>2. \A j \in 1..(i - 1) : headers[j] = headers'[j]
      BY <1>3, <3>1
    <3> QED BY <1>3, <3>1, <3>2, PrefixChain, Zenon
  <2>2. ValidAbove(cur, headers', k)
    BY <1>2, <1>3, <1>5, PrefixChain, Zenon
  <2>3. ASSUME NEW i \in 1..(k + 1) PROVE ValidAbove(headers'[i], headers', i - 1)
    <3>1. CASE i \in 1..k
      BY <2>1, <3>1
    <3>2. CASE i = k + 1
      BY <1>2, <1>3, <2>2, <3>2
    <3> QED BY <1>6, <3>1, <3>2
  <2> QED BY <2>3 DEF ChainValid
<1>8. UtxosOf(headers)' = FullUtxos
  <2>1. UtxosUpTo(headers', k + 1) =
          (UtxosUpTo(headers', k) \ SpentBy(cur)) \cup CreatedBy(cur)
    <3>1. \A i \in 1..k : ValidAbove(headers'[i], headers', i - 1)
      BY <1>6, <1>7 DEF ChainValid
    <3>2. ValidAbove(headers'[k + 1], headers', (k + 1) - 1) /\ (k + 1) - 1 = k
      BY <1>2, <1>6, <1>7 DEF ChainValid
    <3>3. headers'[k + 1] \in Block
      BY <1>3
    <3> QED BY <1>2, <1>3, <3>1, <3>2, <3>3, UtxosStep, ZenonT(30)
  <2>2. UtxosUpTo(headers', k) = UtxosUpTo(headers, k)
    BY <1>2, <1>3, PrefixChain
  <2> QED BY <1>2, <1>3, <2>1, <2>2 DEF UtxosOf, FullUtxos, BaseUtxos
<1>9. Linked(k + 1)'
  <2>1. ASSUME NEW i \in 1..(k + 1)
        PROVE  Prev[headers'[i]] = IF i = 1 THEN NoBlock ELSE headers'[i - 1]
    <3>1. CASE i \in 1..k
      <4>1. i = 1 \/ i - 1 \in 1..k
        BY <1>2, <3>1
      <4>2. Prev[headers[i]] = IF i = 1 THEN NoBlock ELSE headers[i - 1]
        BY <1>5, <3>1, Zenon DEF Linked
      <4>3. headers'[i] = headers[i] /\ (i = 1 \/ headers'[i - 1] = headers[i - 1])
        BY <1>3, <3>1, <4>1, Zenon
      <4> QED BY <4>2, <4>3, Zenon
    <3>2. CASE i = k + 1
      <4>1. CASE k = 0
        <5>1. i = 1
          BY <3>2, <4>1
        <5>2. headers'[i] = cur /\ Prev[cur] = NoBlock
          BY <1>3, <1>5, <3>2, <4>1, Zenon
        <5> QED BY <5>1, <5>2, Zenon
      <4>2. CASE k # 0
        <5>1. k + 1 # 1 /\ (k + 1) - 1 = k /\ k \in 1..k
          BY <1>2, <4>2
        <5> QED BY <1>3, <1>5, <3>2, <4>2, <5>1, Zenon
      <4> QED BY <4>1, <4>2
    <3> QED BY <1>6, <3>1, <3>2
  <2> QED BY <2>1 DEF Linked
<1>10. Numbered(k + 1)' /\ TxTotal(k + 1)' = Len(txNums)
  <2>0. \A i \in Nat : TxTotal(i)' = TxTotal(i)
    BY <1>1, Zenon DEF TxTotal
  <2>1. blkinfo[k + 1].txNum0 = txNum0 /\ blkinfo[k + 1].nTx = Len(Txs[cur])
    <3>1. CurInfo.txNum0 = txNum0 /\ CurInfo.nTx = Len(Txs[cur])
      BY DEF CurInfo
    <3> QED BY <1>4, <3>1, Zenon
  <2>2. TxTotal(k + 1)' = Len(txNums) /\ TxTotal(k + 1) = Len(txNums)
    <3>1. k + 1 # 0 /\ k + 1 \in Nat
      BY <1>2
    <3>2. TxTotal(k + 1) = blkinfo[k + 1].txNum0 + blkinfo[k + 1].nTx
      BY <3>1, Zenon DEF TxTotal
    <3>3. Len(txNums) = txNum0 + Len(Txs[cur])
      BY <1>4, Zenon DEF Segment
    <3> QED BY <2>0, <2>1, <3>1, <3>2, <3>3, Zenon
  <2>3. ASSUME NEW i \in 1..(k + 1)
        PROVE  /\ blkinfo[i].txNum0 = TxTotal(i - 1)'
               /\ blkinfo[i].nTx = Len(Txs[headers'[i]])
               /\ \A j \in 1..Len(Txs[headers'[i]]) :
                    txNums[blkinfo[i].txNum0 + j] = Txs[headers'[i]][j]
    <3>1. CASE i \in 1..k
      <4>1. i - 1 \in Nat /\ headers'[i] = headers[i]
        BY <1>3, <3>1
      <4>2. /\ blkinfo[i].txNum0 = TxTotal(i - 1) /\ blkinfo[i].nTx = Len(Txs[headers[i]])
            /\ \A j \in 1..Len(Txs[headers[i]]) :
                 txNums[blkinfo[i].txNum0 + j] = Txs[headers[i]][j]
        BY <1>5, <3>1, Zenon DEF Numbered
      <4> QED BY <2>0, <4>1, <4>2
    <3>2. CASE i = k + 1
      <4>1. (k + 1) - 1 = k
        BY <1>2
      <4>2. TxTotal(k)' = txNum0
        BY <1>2, <1>5, <2>0, Zenon
      <4>3. \A j \in 1..Len(Txs[cur]) : txNums[txNum0 + j] = Txs[cur][j]
        BY <1>4, Zenon DEF Segment
      <4> QED BY <1>3, <2>1, <3>2, <4>1, <4>2, <4>3, Zenon
    <3> QED BY <1>6, <3>1, <3>2
  <2>4. ASSUME NEW i \in 1..k
        PROVE  /\ blkinfo[i].txNum0 \in Nat /\ blkinfo[i].nTx \in Nat
               /\ blkinfo[i].txNum0 + blkinfo[i].nTx <= txNum0
    <3>1. /\ blkinfo[i] \in [txNum0 : Nat, nTx : Nat] /\ blkinfo[k] \in [txNum0 : Nat, nTx : Nat]
      <4>1. i \in 1..Len(blkinfo) /\ k \in 1..Len(blkinfo)
        BY <1>2, <1>4
      <4> QED BY <4>1, RecordOfFile, Zenon
    <3>2. txNum0 = blkinfo[k].txNum0 + blkinfo[k].nTx
      <4>1. k # 0
        BY <1>2
      <4> QED BY <1>5, <4>1, Zenon DEF TxTotal
    <3>3. CASE i = k
      BY <3>1, <3>2, <3>3
    <3>4. CASE i < k
      <4>1. blkinfo[i].txNum0 + blkinfo[i].nTx <= blkinfo[k].txNum0
        <5>1. k \in 1..k
          BY <1>2
        <5> QED BY <1>5, <3>4, <5>1, Zenon DEF Numbered
      <4>2. /\ blkinfo[i].txNum0 \in Nat /\ blkinfo[i].nTx \in Nat
            /\ blkinfo[k].txNum0 \in Nat /\ blkinfo[k].nTx \in Nat
        BY <3>1, Zenon
      <4>3. \A a, b, c, d \in Nat : a + b <= c => a + b <= c + d
        OBVIOUS
      <4>4. blkinfo[i].txNum0 + blkinfo[i].nTx <= blkinfo[k].txNum0 + blkinfo[k].nTx
        BY <4>1, <4>2, <4>3, Zenon
      <4> QED BY <3>2, <4>2, <4>4, SMTT(30)
    <3> QED BY <1>2, <3>3, <3>4
  <2>5. ASSUME NEW i \in 1..(k + 1), NEW j \in 1..(k + 1), i < j
        PROVE  blkinfo[i].txNum0 + blkinfo[i].nTx <= blkinfo[j].txNum0
    <3>1. CASE j \in 1..k
      <4>1. i \in 1..k
        BY <1>2, <2>5, <3>1
      <4> QED BY <1>5, <2>5, <3>1, <4>1 DEF Numbered
    <3>2. CASE j = k + 1
      <4>1. i \in 1..k
        BY <1>2, <2>5, <3>2
      <4> QED BY <2>1, <2>4, <3>2, <4>1, Zenon
    <3> QED BY <1>6, <3>1, <3>2
  <2>6. ASSUME NEW m \in 1..Len(txNums)
        PROVE  \E i \in 1..(k + 1) :
                 blkinfo[i].txNum0 < m /\ m <= blkinfo[i].txNum0 + blkinfo[i].nTx
    <3>1. CASE m <= txNum0
      <4>1. m \in 1..TxTotal(k)
        <5>1. m \in 1..txNum0
          BY <3>1
        <5> QED BY <1>5, <5>1, Zenon
      <4>2. PICK i \in 1..k : blkinfo[i].txNum0 < m /\ m <= blkinfo[i].txNum0 + blkinfo[i].nTx
        BY <1>5, <4>1 DEF Numbered
      <4> QED BY <1>6, <4>2, Zenon
    <3>2. CASE m > txNum0
      <4>1. Len(txNums) = txNum0 + Len(Txs[cur])
        BY <1>4, Zenon DEF Segment
      <4>2. txNum0 < m /\ m <= txNum0 + Len(Txs[cur])
        BY <3>2, <4>1
      <4> QED BY <1>6, <2>1, <4>2, Zenon
    <3> QED BY <3>1, <3>2
  <2>7. Len(blkinfo) >= k + 1
    BY <1>2, <1>4
  <2> QED BY <1>1, <2>2, <2>3, <2>5, <2>6, <2>7, Zenon DEF Numbered
<1>11. UndoMatches'
  <2>1. \A r, b, bi : RecordReverts(r, b, bi) => RecordReverts(r, b, bi)'
    BY <1>1, RecordKept, Zenon
  <2>2. ASSUME NEW h \in DOMAIN undo
        PROVE  h < k + 1 /\ RecordReverts(undo[h], headers'[h + 1], blkinfo[h + 1])
    <3>1. h \in Nat
      BY DEF UndoTyped
    <3>2. CASE h < BaseLen /\ RecordReverts(undo[h], headers[h + 1], blkinfo[h + 1])
      <4>1. h + 1 \in 1..k
        BY <1>2, <3>1, <3>2, SMTT(30)
      <4>2. h < k + 1
        BY <1>2, <3>1, <3>2
      <4> QED BY <1>3, <3>2, <4>1, <4>2, Zenon
    <3>3. CASE h = BaseLen /\ RecordReverts(undo[h], cur, CurInfo)
      <4>1. h < k + 1 /\ h + 1 = k + 1
        BY <1>2, <3>1, <3>3
      <4>2. headers'[k + 1] = cur /\ blkinfo[k + 1] = CurInfo
        BY <1>3, <1>4, <1>k, Zenon
      <4> QED BY <3>3, <4>1, <4>2, Zenon
    <3> QED BY <1>4, <3>2, <3>3, Zenon DEF MidUndo
  <2> QED BY <1>1, <1>3, <2>1, <2>2, Zenon DEF UndoMatches
<1>12. RestInv'
  <2>1. UtxosAre(UtxosOf(headers), Len(txNums))'
    BY <1>1, <1>4, <1>8, Zenon DEF UtxosAre
  <2>2. HistoriesBelow(Len(txNums))'
    BY <1>1, <1>4 DEF HistoriesBelow
  <2> QED BY <1>1, <1>3, <1>4, <1>7, <1>9, <1>10, <1>11, <2>1, <2>2, Zenon DEF RestInv
<1>13. TypeOK'
  <2>1. TablesTyped'
    BY <1>1, <1>3, Zenon DEF TablesTyped
  <2> QED BY <1>1, <2>1, TypeFrames DEF IInv, TypeOK, ControlTyped
<1>14. FlagInv' /\ WorkerInv'
  BY <1>1, Zenon DEF IInv, FlagInv, WorkerInv, Mid, RestPcs, AddPcs, UndoPcs, Segment
<1>15. CounterInv'
  <2>1. verifier' = Verified(headers)' /\ txNumNext' = Len(txNums')
    <3>1. verifier = [n |-> k + 1, last |-> cur] /\ txNumNext = Len(txNums)
      BY <1>k DEF IInv, CounterInv, AddPcs
    <3>2. headers' # <<>>
      BY <1>2, <1>3, EmptyFile
    <3> QED BY <1>1, <1>3, <3>1, <3>2, Zenon DEF Verified, LastHeader
  <2> QED BY <1>1, <2>1, Zenon DEF CounterInv, AddPcs, UndoPcs, RestPcs, Mid
<1>16. TxHashInv'
  BY <1>1 DEF IInv, TxHashInv, TxHashesBelow, UndoPcs, Indexed, Claimed, Truncating
<1>17. AtRest' /\ ~ Mid'
  BY <1>1 DEF Mid, AtRest, AddPcs, UndoPcs
<1>18. CountInv'
  <2>1. utxoCt = Cardinality(FullUtxos) /\ DOMAIN utxoset = FullUtxos /\ dirty
    BY <1>4 DEF IInv, CountInv, UtxosAre
  <2> QED BY <1>1, <1>17, <2>1 DEF CountInv
<1> QED BY <1>12, <1>13, <1>14, <1>15, <1>16, <1>17, <1>18 DEF IInv
=============================================================================
