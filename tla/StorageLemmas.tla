---------------------------- MODULE StorageLemmas -----------------------------
(***************************************************************************)
(* Lemmas for the proofs about Storage: what blocks and chains are like, and*)
(* what the conjuncts of the invariant depend on.                          *)
(***************************************************************************)
EXTENDS StorageInv, TLAPS

-----------------------------------------------------------------------------
(* Record files as sequences                                               *)

\* A file without records, and one with some.
LEMMA EmptyFile ==
  ASSUME NEW S
  PROVE  /\ <<>> \in Seq(S) /\ Len(<<>>) = 0
         /\ \A f \in Seq(S) : f # <<>> => Len(f) \in Nat \ {0}
OBVIOUS

\* A record that was written is of the type of the file.
LEMMA RecordOfFile ==
  ASSUME NEW S, NEW f \in Seq(S), NEW n \in 1..Len(f)
  PROVE  f[n] \in S
OBVIOUS

\* The txhash2txnum entries of the n hashes of g, which follow k others ...
EntriesByPlace(g, k, n) == {<<KeyOf[g[j]], k + j - 1>> : j \in 1..n}

\* ... and of those after the k-th and up to the m-th of a record file f.
EntriesByNumber(f, k, m) == {<<KeyOf[f[i]], i - 1>> : i \in k + 1 .. m}

\* A block has the entries of the records it is appended as.
LEMMA BatchEntries ==
  ASSUME NEW k \in Nat, NEW n \in Nat, NEW f, NEW g, \A j \in 1..n : f[k + j] = g[j]
  PROVE  EntriesByPlace(g, k, n) = EntriesByNumber(f, k, k + n)
<1> DEFINE L == {<<KeyOf[g[j]], k + j - 1>> : j \in 1..n}
           R == {<<KeyOf[f[i]], i - 1>> : i \in k + 1 .. k + n}
<1>1. ASSUME NEW j \in 1..n PROVE <<KeyOf[g[j]], k + j - 1>> \in R
  <2>1. k + j \in k + 1 .. k + n /\ f[k + j] = g[j]
    OBVIOUS
  <2>2. <<KeyOf[f[k + j]], (k + j) - 1>> \in R
    BY <2>1
  <2> QED BY <2>1, <2>2
<1>2. ASSUME NEW i \in k + 1 .. k + n PROVE <<KeyOf[f[i]], i - 1>> \in L
  <2>1. i - k \in 1..n /\ k + (i - k) = i
    OBVIOUS
  <2>2. g[i - k] = f[i]
    BY <2>1
  <2>3. <<KeyOf[g[i - k]], k + (i - k) - 1>> \in L
    BY <2>1
  <2> QED BY <2>1, <2>2, <2>3
<1> QED BY <1>1, <1>2 DEF EntriesByPlace, EntriesByNumber

\* The number of the last record of a file of k + n records.
LEMMA LastNumber ==
  ASSUME NEW k \in Nat, NEW n \in Nat
  PROVE  k + n - 1 \in Nat \cup {-1} /\ k - 1 \in Nat \cup {-1}
OBVIOUS

\* RecordFile::appendRecord leaves the earlier records where they were.
LEMMA AppendRecord ==
  ASSUME NEW S, NEW f \in Seq(S), NEW r \in S
  PROVE  /\ Append(f, r) \in Seq(S) /\ Len(Append(f, r)) = Len(f) + 1
         /\ \A i \in 1..Len(f) : Append(f, r)[i] = f[i]
         /\ Append(f, r)[Len(f) + 1] = r
OBVIOUS

\* So does a batch append, and the batch follows them in its order.
LEMMA AppendBatch ==
  ASSUME NEW S, NEW f \in Seq(S), NEW b \in Seq(S)
  PROVE  /\ f \o b \in Seq(S) /\ Len(f \o b) = Len(f) + Len(b)
         /\ \A i \in 1..Len(f) : (f \o b)[i] = f[i]
         /\ \A j \in 1..Len(b) : (f \o b)[Len(f) + j] = b[j]
OBVIOUS

-----------------------------------------------------------------------------
(* Blocks and chains                                                       *)

\* A transaction of a block has a position in it.
LEMMA IndexInBlock ==
  ASSUME NEW b \in Block, NEW t \in TxSet(b)
  PROVE  IndexIn(b, t) \in 1..Len(Txs[b]) /\ Txs[b][IndexIn(b, t)] = t
BY DEF IndexIn, TxSet

\* What a block spends and creates are outputs, and disjoint.
LEMMA BlockOutputs ==
  ASSUME NEW b \in Block
  PROVE  /\ Txs[b] \in Seq(Tx) /\ Len(Txs[b]) \in Nat /\ Len(Txs[b]) > 0
         /\ TxSet(b) \subseteq Tx
         /\ InputsOf(b) \subseteq TXO
         /\ SpentBy(b) \subseteq TXO /\ CreatedBy(b) \subseteq TXO
         /\ SpentBy(b) \cap CreatedBy(b) = {}
         /\ \A o \in CreatedBy(b) : TxOf[o] \in TxSet(b)
<1>1. /\ Txs[b] \in Seq(Tx) /\ Len(Txs[b]) \in Nat /\ Len(Txs[b]) > 0
  BY ConstantsAssumption
<1>2. TxSet(b) \subseteq Tx
  BY <1>1 DEF TxSet
<1>3. InputsOf(b) \subseteq TXO
  BY <1>2, ConstantsAssumption DEF InputsOf
<1> QED
  BY <1>1, <1>2, <1>3 DEF SpentBy, CreatedBy

\* Only the first k blocks of a chain matter for the outputs unspent after k
\* blocks and for what is valid on top of them.
LEMMA PrefixChain ==
  ASSUME NEW c, NEW d, NEW k \in Nat, \A i \in 1..k : c[i] = d[i]
  PROVE  /\ UtxosUpTo(c, k) = UtxosUpTo(d, k)
         /\ \A b : ValidAbove(b, c, k) <=> ValidAbove(b, d, k)
<1>1. UtxosUpTo(c, k) = UtxosUpTo(d, k)
  BY DEF UtxosUpTo
<1> QED
  BY <1>1 DEF ValidAbove

\* Every input of a block of a valid chain was created in the chain.
LEMMA InputsCreated ==
  ASSUME NEW c, NEW k \in Nat, NEW i \in 1..k,
         ValidAbove(c[i], c, i - 1), NEW o \in InputsOf(c[i])
  PROVE  \E j \in 1..i : TxOf[o] \in TxSet(c[j])
<1>1. CASE TxOf[o] \in TxSet(c[i])
  BY <1>1
<1>2. CASE TxOf[o] \notin TxSet(c[i])
  <2>1. o \in UtxosUpTo(c, i - 1)
    BY <1>2 DEF SpentBy, ValidAbove
  <2>2. PICK j \in 1..(i - 1) : TxOf[o] \in TxSet(c[j])
    BY <2>1 DEF UtxosUpTo
  <2> QED BY <2>2
<1> QED BY <1>1, <1>2

\* The UTXO set after one more block: what addBlock computes incrementally is
\* what the definition over the whole chain says.
LEMMA UtxosStep ==
  ASSUME NEW c, NEW k \in Nat, c[k + 1] \in Block,
         \A i \in 1..k : ValidAbove(c[i], c, i - 1),
         ValidAbove(c[k + 1], c, k)
  PROVE  UtxosUpTo(c, k + 1) =
           (UtxosUpTo(c, k) \ SpentBy(c[k + 1])) \cup CreatedBy(c[k + 1])
<1> DEFINE b == c[k + 1]
<1>0. 1..(k + 1) = 1..k \cup {k + 1}
  OBVIOUS
<1>1. ASSUME NEW o \in UtxosUpTo(c, k + 1)
      PROVE  o \in (UtxosUpTo(c, k) \ SpentBy(b)) \cup CreatedBy(b)
  <2>1. o \in TXO /\ o \notin InputsOf(b) /\ \A i \in 1..k : o \notin InputsOf(c[i])
    BY <1>0, <1>1 DEF UtxosUpTo
  <2>2. CASE TxOf[o] \in TxSet(b)
    BY <2>1, <2>2 DEF CreatedBy
  <2>3. CASE TxOf[o] \notin TxSet(b)
    <3>1. \E i \in 1..k : TxOf[o] \in TxSet(c[i])
      BY <1>0, <1>1, <2>3 DEF UtxosUpTo
    <3> QED BY <2>1, <3>1 DEF UtxosUpTo, SpentBy
  <2> QED BY <2>2, <2>3
<1>2. ASSUME NEW o \in UtxosUpTo(c, k), o \notin SpentBy(b)
      PROVE  o \in UtxosUpTo(c, k + 1)
  <2>1. PICK i \in 1..k : TxOf[o] \in TxSet(c[i])
    BY DEF UtxosUpTo
  <2>2. TxOf[o] \notin TxSet(b)
    BY <2>1 DEF ValidAbove
  <2>3. o \notin InputsOf(b)
    BY <1>2, <2>2 DEF SpentBy
  <2> QED BY <1>0, <2>3 DEF UtxosUpTo
<1>3. ASSUME NEW o \in CreatedBy(b)
      PROVE  o \in UtxosUpTo(c, k + 1)
  <2>1. o \in TXO /\ TxOf[o] \in TxSet(b) /\ o \notin InputsOf(b)
    BY DEF CreatedBy
  <2>2. ASSUME NEW i \in 1..k, o \in InputsOf(c[i]) PROVE FALSE
    <3>1. PICK j \in 1..i : TxOf[o] \in TxSet(c[j])
      BY <2>2, InputsCreated
    <3>2. j \in 1..k
      BY <3>1
    <3> QED BY <2>1, <3>1, <3>2 DEF ValidAbove
  <2> QED BY <1>0, <2>1, <2>2 DEF UtxosUpTo
<1> QED BY <1>1, <1>2, <1>3

\* What a valid block spends is unspent before it; what it creates is not.
LEMMA SpentAndCreated ==
  ASSUME NEW c, NEW k \in Nat, NEW b \in Block, ValidAbove(b, c, k)
  PROVE  /\ SpentBy(b) \subseteq UtxosUpTo(c, k)
         /\ CreatedBy(b) \cap UtxosUpTo(c, k) = {}
         /\ CreatedBy(b) \cap SpentBy(b) = {}
BY BlockOutputs DEF ValidAbove, UtxosUpTo, CreatedBy

-----------------------------------------------------------------------------
(* Facts about the invariant                                               *)

\* The entries of the txhash index are pairs of a key and a txNum.
LEMMA TxHashTypes ==
  ASSUME NEW n \in Nat, txNums \in Seq(Tx), n <= Len(txNums)
  PROVE  TxHashesBelow(n) \subseteq TxKey \X Nat
<1>1. ASSUME NEW i \in 1..n PROVE KeyOf[txNums[i]] \in TxKey /\ i - 1 \in Nat
  <2>1. txNums[i] \in Tx
    BY RecordOfFile
  <2> QED BY <2>1, ConstantsAssumption
<1> QED BY <1>1 DEF TxHashesBelow

\* The memory of a process that has just started is typed.
LEMMA InitialMemory ==
  /\ IsUndoInfo(EmptyInfo)
  /\ Verified(<<>>) \in [n : Nat, last : Block \cup {NoBlock}]
<1>1. IsUndoInfo(EmptyInfo)
  BY DEF IsUndoInfo, EmptyInfo, TxNumMap
<1>2. Len(<<>>) = 0
  BY EmptyFile
<1> QED BY <1>1, <1>2 DEF Verified, LastHeader

\* An undo record reverts what it did as long as the tx hashes stay.
LEMMA RecordKept ==
  txNums' = txNums => \A r, b, bi : RecordReverts(r, b, bi) => RecordReverts(r, b, bi)'
BY DEF RecordReverts

\* The tables are unchanged: so is what is said of them at rest.
LEMMA RestFrame ==
  ASSUME RestInv,
         UNCHANGED <<headers, txNums, blkinfo, utxoset, shunspent, shist, undo>>
  PROVE  RestInv'
<1>1. /\ Linked(Len(headers))' /\ ChainValid(Len(headers))'
      /\ Len(blkinfo') = Len(headers') /\ Len(txNums') = TxTotal(Len(headers))'
  BY DEF RestInv, Linked, ChainValid, TxTotal
<1>2. Numbered(Len(headers))'
  BY DEF RestInv, Numbered, TxTotal
<1>3. UtxosAre(UtxosOf(headers), Len(txNums))' /\ (shunspent = ShunspentKeys(utxoset))'
  BY DEF RestInv, UtxosAre
<1>4. HistoriesBelow(Len(txNums))'
  BY DEF RestInv, HistoriesBelow
<1>5. UndoMatches'
  BY RecordKept, Zenon DEF RestInv, UndoMatches
<1> QED BY <1>1, <1>2, <1>3, <1>4, <1>5 DEF RestInv

\* A part of the state is unchanged: so is what is said of it.
LEMMA TypeFrames ==
  /\ TablesTyped /\ UNCHANGED <<headers, txNums, blkinfo, utxoset, shunspent, shist>>
       => TablesTyped'
  /\ UndoTyped /\ UNCHANGED undo => UndoTyped'
  /\ MetaTyped /\ UNCHANGED <<txhash2txnum, largestTxNumSeen, utxoCtDb, dirty>> => MetaTyped'
  /\ LocalsTyped /\ UNCHANGED <<cur, saveUndo, txNum0, info>> => LocalsTyped'
  /\ CountersTyped
       /\ UNCHANGED <<verifier, txNumNext, utxoCt, earliestUndoHeight, depth>>
       => CountersTyped'
BY DEF TablesTyped, UndoTyped, MetaTyped, LocalsTyped, CountersTyped

\* The tables and the locals are unchanged: so is what is said of them while an
\* operation runs.
LEMMA MidFrame ==
  ASSUME MidInv,
         UNCHANGED <<headers, txNums, blkinfo, utxoset, shunspent, shist, undo,
                     cur, txNum0, info, pc>>
  PROVE  MidInv'
<1>1. MidChain'
  BY Zenon DEF MidInv, MidChain, BaseLen, Linked, ChainValid, Numbered, TxTotal
<1>2. MidTxNums' /\ MidBlkInfo'
  BY Zenon DEF MidInv, MidTxNums, MidBlkInfo, BaseLen, Segment, CurInfo
<1>3. MidUtxoSet' /\ MidShunspent'
  BY Zenon DEF MidInv, MidUtxoSet, MidShunspent, BaseLen, UtxosAre, BaseUtxos, FullUtxos
<1>4. MidShist'
  BY Zenon DEF MidInv, MidShist, HistoriesBelow
<1>5. MidInfo'
  BY Zenon DEF MidInv, MidInfo
<1>6. MidUndo'
  BY RecordKept, Zenon DEF MidInv, MidUndo, BaseLen, CurInfo
<1> QED BY <1>1, <1>2, <1>3, <1>4, <1>5, <1>6 DEF MidInv

\* Arithmetic of the txNums of one block: offset to txNum and back.
LEMMA InSegment ==
  /\ \A a, m, j, n \in Nat : 1 <= j /\ j <= m /\ a + m <= n => a + j \in 1..n
  /\ \A a, m, n \in Nat : a < m + 1 /\ m + 1 <= a + n =>
       m + 1 - a \in 1..n /\ a + (m + 1 - a) = m + 1
OBVIOUS

\* The chain part of MidInv does not depend on pc once the headers file is at
\* its base height, nor on what is appended after the base.
LEMMA MidChainFrame ==
  ASSUME MidChain, headers' = headers, cur' = cur, txNum0' = txNum0,
         BaseLen' = BaseLen, pc' # "u_header",
         blkinfo \in Seq([txNum0 : Nat, nTx : Nat]), headers \in Seq(Block), txNum0 \in Nat,
         Len(blkinfo') >= BaseLen, \A i \in 1..BaseLen : blkinfo'[i] = blkinfo[i],
         \A i \in 1..txNum0 : txNums'[i] = txNums[i]
  PROVE  MidChain'
<1>1. Numbered(BaseLen) /\ BaseLen \in Nat /\ txNum0 = TxTotal(BaseLen) /\ BaseLen <= Len(blkinfo)
  <2>1. BaseLen \in Nat
    BY DEF MidChain, BaseLen
  <2>2. Numbered(BaseLen) /\ txNum0 = TxTotal(BaseLen)
    BY DEF MidChain
  <2> QED BY <2>1, <2>2, Zenon DEF Numbered
<1>2. ASSUME NEW i \in 1..BaseLen PROVE TxTotal(i)' = TxTotal(i) /\ TxTotal(i - 1)' = TxTotal(i - 1)
  <2>1. i - 1 = 0 \/ i - 1 \in 1..BaseLen
    BY <1>1
  <2> QED BY <1>1, <2>1, Zenon DEF TxTotal
<1>3. TxTotal(BaseLen)' = TxTotal(BaseLen)
  <2>1. CASE BaseLen = 0
    BY <2>1, Zenon DEF TxTotal
  <2>2. CASE BaseLen # 0
    <3>1. BaseLen \in 1..BaseLen
      BY <1>1, <2>2
    <3>2. blkinfo'[BaseLen] = blkinfo[BaseLen]
      BY <3>1
    <3> QED BY <2>2, <3>2, Zenon DEF TxTotal
  <2> QED BY <2>1, <2>2
<1>4. ASSUME NEW i \in 1..BaseLen, NEW j \in 1..Len(Txs[headers[i]])
      PROVE  txNums'[blkinfo[i].txNum0 + j] = Txs[headers[i]][j]
  <2>1. blkinfo[i] \in [txNum0 : Nat, nTx : Nat] /\ blkinfo[BaseLen] \in [txNum0 : Nat, nTx : Nat]
    <3>1. i \in 1..Len(blkinfo) /\ BaseLen \in 1..Len(blkinfo)
      BY <1>1
    <3> QED BY <3>1, RecordOfFile, Zenon
  <2>2. headers[i] \in Block
    BY RecordOfFile DEF BaseLen
  <2>3. Len(Txs[headers[i]]) \in Nat
    BY <2>2, BlockOutputs
  <2>4. blkinfo[i].nTx = Len(Txs[headers[i]])
    BY <1>1, Zenon DEF Numbered
  <2>5. blkinfo[i].txNum0 + blkinfo[i].nTx <= txNum0
    <3>1. txNum0 = blkinfo[BaseLen].txNum0 + blkinfo[BaseLen].nTx
      BY <1>1 DEF TxTotal
    <3>2. CASE i = BaseLen
      BY <2>1, <3>1, <3>2
    <3>3. CASE i < BaseLen
      <4>1. blkinfo[i].txNum0 + blkinfo[i].nTx <= blkinfo[BaseLen].txNum0
        BY <1>1, <3>3 DEF Numbered
      <4> QED BY <2>1, <3>1, <4>1, SMTT(30)
    <3> QED BY <1>1, <3>2, <3>3
  <2>6. blkinfo[i].txNum0 + j \in 1..txNum0
    <3>1. blkinfo[i].txNum0 \in Nat /\ j \in Nat /\ j >= 1 /\ j <= blkinfo[i].nTx
          /\ blkinfo[i].nTx \in Nat
      BY <2>1, <2>3, <2>4
    <3> QED BY <2>5, <3>1, InSegment, Zenon
  <2>7. txNums[blkinfo[i].txNum0 + j] = Txs[headers[i]][j]
    BY <1>1, Zenon DEF Numbered
  <2> QED BY <2>6, <2>7, Zenon
<1>5. Numbered(BaseLen)'
  <2>1. ASSUME NEW i \in 1..BaseLen
        PROVE  /\ blkinfo'[i].txNum0 = TxTotal(i - 1)'
               /\ blkinfo'[i].nTx = Len(Txs[headers'[i]])
               /\ \A j \in 1..Len(Txs[headers'[i]]) :
                    txNums'[blkinfo'[i].txNum0 + j] = Txs[headers'[i]][j]
    <3>1. blkinfo'[i] = blkinfo[i] /\ headers'[i] = headers[i]
      OBVIOUS
    <3>2. blkinfo[i].txNum0 = TxTotal(i - 1) /\ blkinfo[i].nTx = Len(Txs[headers[i]])
      BY <1>1 DEF Numbered
    <3> QED BY <1>2, <1>4, <3>1, <3>2, Zenon
  <2>2. ASSUME NEW i \in 1..BaseLen, NEW j \in 1..BaseLen, i < j
        PROVE  blkinfo'[i].txNum0 + blkinfo'[i].nTx <= blkinfo'[j].txNum0
    BY <1>1, <2>2, Zenon DEF Numbered
  <2>3. ASSUME NEW m \in 1..TxTotal(BaseLen)
        PROVE  \E i \in 1..BaseLen :
                 blkinfo'[i].txNum0 < m /\ m <= blkinfo'[i].txNum0 + blkinfo'[i].nTx
    BY <1>1, Zenon DEF Numbered
  <2> QED BY <1>3, <2>1, <2>2, <2>3, Zenon DEF Numbered
<1>6. Linked(Len(headers))' /\ ChainValid(BaseLen)' /\ ValidAbove(cur, headers, BaseLen)'
  BY DEF MidChain, Linked, ChainValid
<1> QED BY <1>1, <1>3, <1>5, <1>6 DEF MidChain

\* Nothing that is said of the first n transactions changes when the record file
\* is extended or truncated above them.
LEMMA UtxosFrame ==
  ASSUME NEW S, NEW n \in Nat, UtxosAre(S, n), TxNumMap(utxoset), utxoset' = utxoset,
         \A i \in 1..n : txNums'[i] = txNums[i]
  PROVE  UtxosAre(S, n)'
<1>1. ASSUME NEW o \in S PROVE utxoset[o] < n /\ txNums'[utxoset[o] + 1] = TxOf[o]
  <2>1. utxoset[o] < n /\ utxoset[o] \in Nat /\ txNums[utxoset[o] + 1] = TxOf[o]
    BY DEF UtxosAre, TxNumMap
  <2>2. utxoset[o] + 1 \in 1..n
    BY <2>1
  <2> QED BY <2>1, <2>2
<1> QED BY <1>1 DEF UtxosAre

\* The histories below n stay right when the record file changes above n.
LEMMA HistoriesFrame ==
  ASSUME NEW n \in Nat, HistoriesBelow(n), shist' = shist,
         \A i \in 1..n : txNums'[i] = txNums[i]
  PROVE  HistoriesBelow(n)'
<1>1. \A m \in 0..n - 1 : txNums'[m + 1] = txNums[m + 1]
  OBVIOUS
<1> QED BY <1>1 DEF HistoriesBelow

\* An undo record stays right when the record file changes above its block.
LEMMA RecordFrame ==
  ASSUME NEW rec, NEW b, NEW bi, NEW n \in Nat, RecordReverts(rec, b, bi), IsUndoInfo(rec),
         bi.txNum0 <= n, bi.txNum0 \in Nat, \A i \in 1..n : txNums'[i] = txNums[i]
  PROVE  RecordReverts(rec, b, bi)'
<1>1. ASSUME NEW o \in SpentBy(b)
      PROVE  rec.delUndos[o] < bi.txNum0 /\ txNums'[rec.delUndos[o] + 1] = TxOf[o]
  <2>1. /\ rec.delUndos[o] < bi.txNum0 /\ rec.delUndos[o] \in Nat
        /\ txNums[rec.delUndos[o] + 1] = TxOf[o]
    BY DEF RecordReverts, IsUndoInfo, TxNumMap
  <2>2. rec.delUndos[o] + 1 \in 1..n
    BY <2>1
  <2> QED BY <2>1, <2>2
<1> QED BY <1>1 DEF RecordReverts

\* The blkInfos of the base chain stay below txNum0.
LEMMA BaseBelow ==
  ASSUME MidChain, TablesTyped, NEW i \in 1..BaseLen
  PROVE  /\ blkinfo[i] \in [txNum0 : Nat, nTx : Nat]
         /\ blkinfo[i].txNum0 \in Nat
         /\ blkinfo[i].txNum0 <= txNum0
<1>1. Numbered(BaseLen) /\ BaseLen \in Nat /\ txNum0 = TxTotal(BaseLen) /\ BaseLen <= Len(blkinfo)
  <2>1. BaseLen \in Nat
    BY DEF MidChain, BaseLen, TablesTyped
  <2>2. Numbered(BaseLen) /\ txNum0 = TxTotal(BaseLen)
    BY DEF MidChain
  <2> QED BY <2>1, <2>2, Zenon DEF Numbered, TablesTyped
<1>2. i \in 1..Len(blkinfo) /\ BaseLen \in 1..Len(blkinfo)
  BY <1>1 DEF TablesTyped
<1>3. /\ blkinfo[i] \in [txNum0 : Nat, nTx : Nat] /\ blkinfo[BaseLen] \in [txNum0 : Nat, nTx : Nat]
  BY <1>2, RecordOfFile, Zenon DEF TablesTyped
<1>4. txNum0 = blkinfo[BaseLen].txNum0 + blkinfo[BaseLen].nTx
  BY <1>1 DEF TxTotal
<1>5. blkinfo[i].txNum0 <= txNum0
  <2>1. CASE i = BaseLen
    BY <1>3, <1>4, <2>1
  <2>2. CASE i < BaseLen
    <3>1. blkinfo[i].txNum0 + blkinfo[i].nTx <= blkinfo[BaseLen].txNum0
      BY <1>1, <2>2 DEF Numbered
    <3> QED BY <1>3, <1>4, <3>1
  <2> QED BY <1>1, <2>1, <2>2
<1> QED BY <1>3, <1>5

\* The txhash entries below n depend on the first n records only.
LEMMA TxHashesFrame ==
  ASSUME NEW n \in Nat, \A i \in 1..n : txNums'[i] = txNums[i]
  PROVE  TxHashesBelow(n)' = TxHashesBelow(n)
BY DEF TxHashesBelow

\* The records below the base height still match when blkinfo and the record
\* file keep what they hold for the base chain.
LEMMA BaseRecordsFrame ==
  ASSUME MidChain, TablesTyped, UndoTyped, txNum0 \in Nat, headers' = headers,
         undo' = undo, NEW h \in DOMAIN undo, h < BaseLen,
         RecordReverts(undo[h], headers[h + 1], blkinfo[h + 1]),
         \A i \in 1..BaseLen : blkinfo'[i] = blkinfo[i],
         \A i \in 1..txNum0 : txNums'[i] = txNums[i]
  PROVE  RecordReverts(undo[h], headers[h + 1], blkinfo[h + 1])'
<1>1. h \in Nat /\ IsUndoInfo(undo[h])
  BY DEF UndoTyped
<1>2. h + 1 \in 1..BaseLen
  BY <1>1 DEF BaseLen, TablesTyped
<1>3. blkinfo[h + 1].txNum0 \in Nat /\ blkinfo[h + 1].txNum0 <= txNum0
  BY <1>2, BaseBelow
<1>4. ASSUME NEW rec, NEW bi, NEW b, rec = undo[h], bi = blkinfo[h + 1], b = headers[h + 1]
      PROVE  RecordReverts(rec, b, bi)'
  BY <1>1, <1>3, <1>4, RecordFrame, Zenon
<1> QED BY <1>2, <1>4

\* The facts about an operation in progress that every step below needs.
LEMMA MidFacts ==
  ASSUME IInv, Mid
  PROVE  /\ MidInv /\ dirty
         /\ cur \in Block /\ Txs[cur] \in Seq(Tx) /\ Len(Txs[cur]) \in Nat /\ Len(Txs[cur]) > 0
         /\ headers \in Seq(Block) /\ Len(headers) \in Nat /\ BaseLen \in Nat
         /\ BaseLen <= Len(blkinfo)
         /\ txNums \in Seq(Tx) /\ Len(txNums) \in Nat
         /\ blkinfo \in Seq([txNum0 : Nat, nTx : Nat]) /\ Len(blkinfo) \in Nat
         /\ txNum0 \in Nat /\ txNum0 <= Len(txNums)
         /\ TablesTyped /\ UndoTyped /\ TxNumMap(utxoset) /\ IsUndoInfo(info)
         /\ shist \in [HashX -> SUBSET Nat]
<1>1. MidInv /\ dirty
  BY DEF IInv, FlagInv
<1>2. cur \in Block /\ Txs[cur] \in Seq(Tx) /\ Len(Txs[cur]) \in Nat /\ Len(Txs[cur]) > 0
  BY <1>1, BlockOutputs DEF MidInv, MidChain
<1>3. TablesTyped /\ UndoTyped /\ txNum0 \in Nat /\ IsUndoInfo(info)
  BY DEF IInv, TypeOK, LocalsTyped
<1>4. /\ headers \in Seq(Block) /\ Len(headers) \in Nat
      /\ txNums \in Seq(Tx) /\ Len(txNums) \in Nat
      /\ blkinfo \in Seq([txNum0 : Nat, nTx : Nat]) /\ Len(blkinfo) \in Nat
      /\ TxNumMap(utxoset) /\ shist \in [HashX -> SUBSET Nat]
  BY <1>3 DEF TablesTyped
<1>5. BaseLen \in Nat /\ BaseLen <= Len(blkinfo)
  BY <1>1, <1>4 DEF MidInv, MidChain, BaseLen, Numbered
<1>6. txNum0 <= Len(txNums)
  BY <1>1, <1>2, <1>3, <1>4 DEF MidInv, MidTxNums, Segment
<1> QED BY <1>1, <1>2, <1>3, <1>4, <1>5, <1>6

\* A transaction of cur has only one place in the record file.
LEMMA OnePlace ==
  ASSUME MidChain, Segment, TablesTyped, txNum0 \in Nat, NEW o \in CreatedBy(cur),
         NEW m \in Nat, m < txNum0 + Len(Txs[cur]), txNums[m + 1] = TxOf[o]
  PROVE  m = TxNumIn(cur, txNum0, TxOf[o])
<1>0. cur \in Block /\ ValidAbove(cur, headers, BaseLen) /\ Len(Txs[cur]) \in Nat
  BY BlockOutputs DEF MidChain
<1>1. TxOf[o] \in TxSet(cur)
  BY <1>0, BlockOutputs
<1>2. CASE m < txNum0
  <2>1. Numbered(BaseLen) /\ txNum0 = TxTotal(BaseLen) /\ BaseLen \in Nat /\ BaseLen <= Len(headers)
    BY DEF MidChain, BaseLen, TablesTyped
  <2>2. PICK i \in 1..BaseLen : /\ blkinfo[i].txNum0 < m + 1
                                /\ m + 1 <= blkinfo[i].txNum0 + blkinfo[i].nTx
    <3>1. m + 1 \in 1..TxTotal(BaseLen)
      BY <1>2, <2>1
    <3> QED BY <2>1, <3>1, SMTT(30) DEF Numbered
  <2>3. blkinfo[i] \in [txNum0 : Nat, nTx : Nat]
    BY BaseBelow
  <2>4. blkinfo[i].txNum0 \in Nat /\ blkinfo[i].nTx = Len(Txs[headers[i]]) /\ blkinfo[i].nTx \in Nat
    BY <2>1, <2>3 DEF Numbered
  <2> DEFINE j == m + 1 - blkinfo[i].txNum0
  <2>5. j \in 1..Len(Txs[headers[i]]) /\ blkinfo[i].txNum0 + j = m + 1
    BY <2>2, <2>4, InSegment, SMTT(30)
  <2>6. txNums[blkinfo[i].txNum0 + j] = Txs[headers[i]][j]
    BY <2>1, <2>5, Zenon DEF Numbered
  <2>7. TxOf[o] \in TxSet(headers[i])
    BY <2>5, <2>6 DEF TxSet
  <2> QED BY <1>0, <1>1, <2>7 DEF ValidAbove
<1>3. CASE m >= txNum0
  <2> DEFINE j == m - txNum0 + 1
             x == IndexIn(cur, TxOf[o])
  <2>1. j \in 1..Len(Txs[cur]) /\ txNum0 + j = m + 1
    BY <1>0, <1>3
  <2>2. txNums[txNum0 + j] = Txs[cur][j]
    BY <2>1 DEF Segment
  <2>3. x \in 1..Len(Txs[cur]) /\ Txs[cur][x] = TxOf[o]
    BY <1>0, <1>1, IndexInBlock
  <2>4. Txs[cur][j] = Txs[cur][x]
    BY <2>1, <2>2, <2>3
  <2> HIDE DEF x
  <2>5. j = x
    BY <1>0, <2>1, <2>3, <2>4, ConstantsAssumption
  <2> QED BY <1>0, <2>1, <2>3, <2>5 DEF x, TxNumIn
<1> QED BY <1>2, <1>3

\* What the UndoInfo fields of a block are while it is being processed.
LEMMA CreatedTxNums ==
  ASSUME NEW b \in Block, NEW n0 \in Nat, NEW o \in CreatedBy(b)
  PROVE  /\ o \in TXO
         /\ TxNumIn(b, n0, TxOf[o]) \in Nat
         /\ TxNumIn(b, n0, TxOf[o]) >= n0
         /\ TxNumIn(b, n0, TxOf[o]) < n0 + Len(Txs[b])
         /\ Txs[b][TxNumIn(b, n0, TxOf[o]) - n0 + 1] = TxOf[o]
<1>1. o \in TXO /\ TxOf[o] \in TxSet(b)
  BY BlockOutputs
<1>2. IndexIn(b, TxOf[o]) \in 1..Len(Txs[b]) /\ Txs[b][IndexIn(b, TxOf[o])] = TxOf[o]
  BY <1>1, IndexInBlock
<1>3. Len(Txs[b]) \in Nat
  BY BlockOutputs
<1> QED BY <1>1, <1>2, <1>3 DEF TxNumIn

\* Truncating a record file or blkinfo to its first n entries keeps them.
LEMMA Prefix ==
  ASSUME NEW S, NEW s \in Seq(S), NEW n \in 0..Len(s)
  PROVE  /\ SubSeq(s, 1, n) \in Seq(S) /\ Len(SubSeq(s, 1, n)) = n
         /\ \A i \in 1..n : SubSeq(s, 1, n)[i] = s[i]
OBVIOUS

\* Entries of scripthash_unspent for different outputs differ.
LEMMA DisjointKeys ==
  ASSUME NEW f, NEW g, \A o \in DOMAIN f : o \notin DOMAIN g
  PROVE  ShunspentKeys(f) \cap ShunspentKeys(g) = {}
BY DEF ShunspentKeys

\* Entries of scripthash_unspent for the same outputs with the same txNums are
\* the same.
LEMMA CoveredKeys ==
  ASSUME NEW f, NEW g, NEW h,
         \A o \in DOMAIN f : \/ o \in DOMAIN g /\ g[o] = f[o]
                             \/ o \in DOMAIN h /\ h[o] = f[o]
  PROVE  ShunspentKeys(f) \subseteq ShunspentKeys(g) \cup ShunspentKeys(h)
BY DEF ShunspentKeys

\* One more block changes the UTXO count by what it creates and spends
\* (CountStep of StorageProofs).
CountsAdd ==
  /\ Cardinality(CreatedBy(cur)) \in Nat /\ Cardinality(SpentBy(cur)) \in Nat
  /\ Cardinality(BaseUtxos) \in Nat
  /\ Cardinality(FullUtxos) =
       Cardinality(BaseUtxos) + Cardinality(CreatedBy(cur)) - Cardinality(SpentBy(cur))

\* A step that leaves the UndoInfo at hand and the tx hashes alone keeps what is
\* known of the UndoInfo.
LEMMA MidInfoFrame ==
  ASSUME MidInfo, cur' = cur, info' = info, txNum0' = txNum0, txNums' = txNums,
         pc \notin {"txnums", "utxoset"}, pc' # "u_shunspent",
         pc' \in UndoPcs => pc \in UndoPcs
  PROVE  MidInfo'
<1>1. /\ DOMAIN info.addUndos = CreatedBy(cur)
      /\ \A o \in CreatedBy(cur) : info.addUndos[o] = TxNumIn(cur, txNum0, TxOf[o])
      /\ DOMAIN info.delUndos = SpentBy(cur)
      /\ \A o \in SpentBy(cur) :
           info.delUndos[o] < txNum0 /\ txNums[info.delUndos[o] + 1] = TxOf[o]
      /\ pc \in UndoPcs => info.scriptHashes = HashXsOf(cur)
  BY Zenon DEF MidInfo
<1> QED BY <1>1, Zenon DEF MidInfo

=============================================================================
