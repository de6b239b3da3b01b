----------------------------- MODULE StorageInv -----------------------------
(***************************************************************************)
(* The inductive invariant behind CleanIndexMatchesChain.                  *)
(*                                                                         *)
(* While addBlock or undoLatestBlock runs, the database is between two     *)
(* indexes: that of the base chain (the chain without the block `cur`) and *)
(* that of the base chain with `cur` on top.  Every table holds its        *)
(* version for the one or for the other, and pc says which.  Both          *)
(* operations are described by the same invariant: addBlock walks from the *)
(* first to the second, undoLatestBlock back.                              *)
(***************************************************************************)
EXTENDS Storage

Mid == pc \in AddPcs \cup UndoPcs

\* The height of the base chain: undoLatestBlock truncates headers first.
BaseLen == IF pc = "u_header" THEN Len(headers) - 1 ELSE Len(headers)

CurInfo == [txNum0 |-> txNum0, nTx |-> Len(Txs[cur])]

TxTotal(k) == IF k = 0 THEN 0 ELSE blkinfo[k].txNum0 + blkinfo[k].nTx

-----------------------------------------------------------------------------
(* The chain of the first k headers.                                       *)

Linked(k) ==
  \A i \in 1..k : Prev[headers[i]] = IF i = 1 THEN NoBlock ELSE headers[i - 1]

ChainValid(k) == \A i \in 1..k : ValidAbove(headers[i], headers, i - 1)

Numbered(k) ==
  /\ Len(blkinfo) >= k
  /\ \A i \in 1..k :
       /\ blkinfo[i].txNum0 = TxTotal(i - 1)
       /\ blkinfo[i].nTx = Len(Txs[headers[i]])
       /\ \A j \in 1..Len(Txs[headers[i]]) :
            txNums[blkinfo[i].txNum0 + j] = Txs[headers[i]][j]
  /\ \A i, j \in 1..k : i < j => blkinfo[i].txNum0 + blkinfo[i].nTx <= blkinfo[j].txNum0
  /\ \A m \in 1..TxTotal(k) :
       \E i \in 1..k : blkinfo[i].txNum0 < m /\ m <= blkinfo[i].txNum0 + blkinfo[i].nTx

\* The tables against the first n transactions of the record file.
UtxosAre(S, n) ==
  /\ DOMAIN utxoset = S
  /\ \A o \in S : utxoset[o] < n /\ txNums[utxoset[o] + 1] = TxOf[o]

HistoriesBelow(n) ==
  \A hx \in HashX : shist[hx] = {m \in 0..n - 1 : Touches(txNums[m + 1], hx)}

TxHashesBelow(n) == {<<KeyOf[txNums[i]], i - 1>> : i \in 1..n}

-----------------------------------------------------------------------------
(* Between operations.                                                     *)

RestPcs == {"rebuild", "reindex", "loadundo", "idle", "noundo", "return"}

AtRest ==
  \/ pc \in RestPcs \cup {"utxoct", "clean"}
  \/ pc = "down" /\ ~ dirty

RestInv ==
  /\ Linked(Len(headers)) /\ ChainValid(Len(headers)) /\ Numbered(Len(headers))
  /\ Len(blkinfo) = Len(headers)
  /\ Len(txNums) = TxTotal(Len(headers))
  /\ UtxosAre(UtxosOf(headers), Len(txNums))
  /\ shunspent = ShunspentKeys(utxoset)
  /\ HistoriesBelow(Len(txNums))
  /\ UndoMatches

-----------------------------------------------------------------------------
(* During an operation.                                                    *)

\* The block is valid on top of the base chain and gets the next txNums.
MidChain ==
  /\ cur \in Block
  /\ Linked(Len(headers)) /\ ChainValid(BaseLen) /\ Numbered(BaseLen)
  /\ BaseLen >= 0
  /\ Prev[cur] = IF BaseLen = 0 THEN NoBlock ELSE headers[BaseLen]
  /\ ValidAbove(cur, headers, BaseLen)
  /\ txNum0 = TxTotal(BaseLen)
  /\ pc = "u_header" => headers[Len(headers)] = cur

Segment ==
  /\ Len(txNums) = txNum0 + Len(Txs[cur])
  /\ \A j \in 1..Len(Txs[cur]) : txNums[txNum0 + j] = Txs[cur][j]

MidTxNums ==
  IF pc = "txnums" THEN Len(txNums) = txNum0 ELSE Segment

MidBlkInfo ==
  IF pc \in {"saveundo", "expire", "header", "u_header", "u_blkinfo"}
    THEN Len(blkinfo) = BaseLen + 1 /\ blkinfo[BaseLen + 1] = CurInfo
    ELSE Len(blkinfo) = BaseLen

BaseUtxos == UtxosUpTo(headers, BaseLen)

FullUtxos == (BaseUtxos \ SpentBy(cur)) \cup CreatedBy(cur)

MidUtxoSet ==
  IF pc \in {"txnums", "utxoset", "u_shunspent", "u_undo", "u_txnums"}
    THEN UtxosAre(BaseUtxos, txNum0)
    ELSE UtxosAre(FullUtxos, txNum0 + Len(Txs[cur]))

\* scripthash_unspent is written one step after utxoset.
MidShunspent ==
  shunspent =
    IF pc = "shunspent"
      THEN (ShunspentKeys(utxoset) \cup ShunspentKeys(info.delUndos))
             \ ShunspentKeys(info.addUndos)
    ELSE IF pc = "u_shunspent"
      THEN (ShunspentKeys(utxoset) \cup ShunspentKeys(info.addUndos))
             \ ShunspentKeys(info.delUndos)
    ELSE ShunspentKeys(utxoset)

MidShist ==
  IF pc \in {"blkinfo", "saveundo", "expire", "header", "u_header", "u_blkinfo", "u_shist"}
    THEN HistoriesBelow(txNum0 + Len(Txs[cur]))
    ELSE HistoriesBelow(txNum0)

\* What the UndoInfo at hand says of cur, from the moment it is filled.
MidInfo ==
  pc \notin {"txnums", "utxoset"} =>
    /\ DOMAIN info.addUndos = CreatedBy(cur)
    /\ \A o \in CreatedBy(cur) : info.addUndos[o] = TxNumIn(cur, txNum0, TxOf[o])
    /\ DOMAIN info.delUndos = SpentBy(cur)
    /\ \A o \in SpentBy(cur) :
         info.delUndos[o] < txNum0 /\ txNums[info.delUndos[o] + 1] = TxOf[o]
    /\ pc \in UndoPcs => info.scriptHashes = HashXsOf(cur)
    /\ pc = "u_shunspent" => \A o \in SpentBy(cur) : utxoset[o] = info.delUndos[o]

MidUndo ==
  \A h \in DOMAIN undo :
    \/ h < BaseLen /\ RecordReverts(undo[h], headers[h + 1], blkinfo[h + 1])
    \/ /\ h = BaseLen /\ pc \in {"expire", "header"} \cup (UndoPcs \ {"u_txnums"})
       /\ RecordReverts(undo[h], cur, CurInfo)

MidInv ==
  /\ MidChain /\ MidTxNums /\ MidBlkInfo /\ MidUtxoSet /\ MidShunspent
  /\ MidShist /\ MidInfo /\ MidUndo

-----------------------------------------------------------------------------
(* The flag, the counters in memory and the txhash index.                  *)

FlagInv ==
  /\ pc \notin {"threw", "corrupt"}
  /\ Mid \/ pc \in {"utxoct", "clean", "refused"} => dirty
  /\ pc \in RestPcs => ~ dirty

CounterInv ==
  /\ Mid \/ pc \in RestPcs \cup {"utxoct", "clean"} => txNumNext = Len(txNums)
  /\ pc \in AddPcs => verifier = [n |-> Len(headers) + 1, last |-> cur]
  /\ pc \in UndoPcs => verifier = [n |-> BaseLen, last |-> headers[BaseLen]] /\ BaseLen > 0
  /\ pc \in RestPcs \cup {"utxoct", "clean"} => verifier = Verified(headers)

WorkerInv ==
  /\ worker \in {"insert", "insertsave"} =>
       pc \in (AddPcs \ {"txnums"}) \cup {"utxoct", "clean", "return"} /\ Segment /\ cur \in Block
  /\ worker \in {"truncate", "truncatesave"} => pc \in UndoPcs \ {"u_header", "u_blkinfo"}

\* undoLatestBlock, from the submission of the worker's task on.
Truncating == pc \in UndoPcs \ {"u_header", "u_blkinfo"}

\* How many transactions txhash2txnum holds, and how many it says it holds.
Indexed ==
  IF \/ worker \in {"insert", "truncatesave"}
     \/ worker = "none" /\ Truncating
    THEN txNum0 ELSE IF pc = "reindex" THEN 0 ELSE Len(txNums)

Claimed ==
  IF \/ worker \in {"insert", "insertsave"}
     \/ worker = "none" /\ Truncating
    THEN txNum0 ELSE IF pc = "reindex" THEN 0 ELSE Len(txNums)

\* Before startup has looked at the index, only the claim can be trusted.
TxHashInv ==
  IF pc \in {"down", "refused", "rebuild"}
    THEN ~ dirty /\ largestTxNumSeen + 1 = Len(txNums) =>
           txhash2txnum = TxHashesBelow(Len(txNums))
    ELSE txhash2txnum = TxHashesBelow(Indexed) /\ largestTxNumSeen + 1 = Claimed

\* issueUpdates changes utxoCt once both tables are written.
CountInv ==
  /\ pc \in {"idle", "noundo", "return", "utxoct", "clean"} =>
       utxoCt = Cardinality(DOMAIN utxoset)
  /\ ~ dirty \/ pc = "clean" => utxoCtDb = Cardinality(DOMAIN utxoset)
  /\ Mid => utxoCt = IF pc \in {"txnums", "utxoset", "shunspent", "u_undo", "u_txnums"}
                       THEN Cardinality(BaseUtxos) ELSE Cardinality(FullUtxos)

IInv ==
  /\ TypeOK /\ FlagInv /\ CounterInv /\ WorkerInv /\ TxHashInv /\ CountInv
  /\ AtRest => RestInv
  /\ Mid => MidInv
=============================================================================
