------------------------------- MODULE Storage -------------------------------
(***************************************************************************)
(* The block index kept by class Storage (Storage.cpp): addBlock and       *)
(* undoLatestBlock as the sequence of writes they issue to the seven       *)
(* rocksdb databases and the two record files, the dirty flag that         *)
(* brackets them, the worker thread that maintains the txhash index, a     *)
(* process kill between any two writes, and the checks made by startup.    *)
(*                                                                         *)
(* A block, a transaction, an output and a script hash are model values.   *)
(* Heights count from 0 as in the code: headers[h + 1] is the header at    *)
(* height h and txNums[n + 1] the hash recorded for txNum n.  The UTXO     *)
(* cache (fast-sync) is off: it is a component of its own.                 *)
(***************************************************************************)
EXTENDS Integers, Sequences, FiniteSets

CONSTANTS
  Block, Tx, TXO, HashX, TxKey,
  NoBlock,            \* the null hash: the parent of the genesis block
  Prev,               \* [Block -> Block \cup {NoBlock}]: hashPrevBlock
  Txs,                \* [Block -> Seq(Tx)]: the block's transactions
  TxOf,               \* [TXO -> Tx]: the transaction that has this output
  ScriptOf,           \* [TXO -> HashX]: the script hash it pays to
  Spends,             \* [Tx -> SUBSET TXO]: the inputs (none for a coinbase)
  KeyOf,              \* [Tx -> TxKey]: the 6 hash bytes that key the txhash index
  BigBlock,           \* the blocks of more than 1000 transactions
  Depths,             \* the values max_reorg may be configured to
  InvalidUndoHeight   \* above every height

ASSUME ConstantsAssumption ==
  /\ NoBlock \notin Block /\ IsFiniteSet(TXO)
  /\ Prev \in [Block -> Block \cup {NoBlock}]
  /\ Txs \in [Block -> Seq(Tx)]
  /\ \A b \in Block : \A i, j \in 1..Len(Txs[b]) : Txs[b][i] = Txs[b][j] => i = j
  /\ \A b \in Block : Len(Txs[b]) > 0
  /\ TxOf \in [TXO -> Tx]
  /\ ScriptOf \in [TXO -> HashX]
  /\ Spends \in [Tx -> SUBSET TXO]
  /\ KeyOf \in [Tx -> TxKey]
  /\ BigBlock \subseteq Block
  /\ Depths \subseteq Nat \ {0}
  /\ InvalidUndoHeight \in Nat

VARIABLES
  \* on disk
  headers,            \* the headers record file
  txNums,             \* the txnum2txhash record file
  blkinfo,            \* blkinfo: per height, its first txNum and its size
  utxoset,            \* utxoset: unspent output |-> the txNum of its transaction
  shunspent,          \* scripthash_unspent: <<script hash, txNum, output>>
  shist,              \* scripthash_history: script hash |-> txNums
  undo,               \* undo: height |-> UndoInfo
  txhash2txnum,       \* txhash2txnum: <<key, txNum>>
  largestTxNumSeen,   \* kept in the txhash2txnum database
  utxoCtDb,           \* meta: the saved UTXO count
  dirty,              \* meta: the dirty flag
  \* in memory
  pc,                 \* where the thread that changes the database is
  worker,             \* what blocksWorker is doing
  cur,                \* the block being added or undone
  saveUndo,           \* addBlock's argument
  txNum0,             \* blockTxNum0, or undo.blkInfo.txNum0
  info,               \* the UndoInfo being built (addBlock) or applied
  verifier,           \* headerVerifier: how many headers, and the last one
  txNumNext, utxoCt, earliestUndoHeight,
  depth               \* configuredUndoDepth()

disk == <<headers, txNums, blkinfo, utxoset, shunspent, shist, undo,
          txhash2txnum, largestTxNumSeen, utxoCtDb, dirty>>
mem  == <<pc, worker, cur, saveUndo, txNum0, info, verifier, txNumNext,
          utxoCt, earliestUndoHeight, depth>>
vars == <<disk, mem>>

-----------------------------------------------------------------------------
(* PreProcessedBlock: what a block creates, spends and touches.            *)

TxSet(b) == {Txs[b][i] : i \in 1..Len(Txs[b])}

\* Every output a transaction of the block spends.
InputsOf(b) == UNION {Spends[t] : t \in TxSet(b)}

\* The inputs that are not outputs of this same block (no parentTxOutIdx).
SpentBy(b) == {o \in InputsOf(b) : TxOf[o] \notin TxSet(b)}

\* The outputs that are still unspent at the end of the block.
CreatedBy(b) == {o \in TXO : TxOf[o] \in TxSet(b) /\ o \notin InputsOf(b)}

Touches(t, hx) ==
  \/ \E o \in TXO : TxOf[o] = t /\ ScriptOf[o] = hx
  \/ \E o \in Spends[t] : ScriptOf[o] = hx

\* hashXAggregated, once the inputs are resolved.
HashXsOf(b) == {hx \in HashX : \E t \in TxSet(b) : Touches(t, hx)}

IndexIn(b, t) == CHOOSE i \in 1..Len(Txs[b]) : Txs[b][i] = t

TxNumIn(b, n0, t) == n0 + IndexIn(b, t) - 1

(* What bitcoind has validated: a block's transactions are new to the      *)
(* chain it extends and spend outputs that are unspent in it.              *)

\* The outputs that are unspent after the first k blocks of a chain.
UtxosUpTo(chain, k) ==
  {o \in TXO : /\ \E i \in 1..k : TxOf[o] \in TxSet(chain[i])
               /\ \A i \in 1..k : o \notin InputsOf(chain[i])}

UtxosOf(chain) == UtxosUpTo(chain, Len(chain))

ValidAbove(b, chain, k) ==
  /\ \A i \in 1..k : TxSet(b) \cap TxSet(chain[i]) = {}
  /\ SpentBy(b) \subseteq UtxosUpTo(chain, k)

-----------------------------------------------------------------------------
EmptyInfo == [hash |-> NoBlock, blkInfo |-> [txNum0 |-> 0, nTx |-> 0],
              scriptHashes |-> {}, addUndos |-> <<>>, delUndos |-> <<>>]

LastHeader(chain) == IF chain = <<>> THEN NoBlock ELSE chain[Len(chain)]

Verified(chain) == [n |-> Len(chain), last |-> LastHeader(chain)]

Restricted(f, S) == [x \in S |-> f[x]]

ShunspentKeys(f) == {<<ScriptOf[o], f[o], o>> : o \in DOMAIN f}

Init ==
  /\ headers = <<>> /\ txNums = <<>> /\ blkinfo = <<>>
  /\ utxoset = <<>> /\ shunspent = {} /\ shist = [hx \in HashX |-> {}]
  /\ undo = <<>> /\ txhash2txnum = {} /\ largestTxNumSeen = -1
  /\ utxoCtDb = 0 /\ dirty = FALSE
  /\ pc = "down" /\ worker = "none"
  /\ cur = NoBlock /\ saveUndo = FALSE /\ txNum0 = 0 /\ info = EmptyInfo
  /\ verifier = Verified(<<>>) /\ txNumNext = 0 /\ utxoCt = 0
  /\ earliestUndoHeight = InvalidUndoHeight /\ depth \in Depths

-----------------------------------------------------------------------------
(* addBlock.  The block's height is verifier.n = Len(headers).             *)

\* Mutant: setDirty(true) is forgotten.
AddBlockNotDirty(b, save) ==
  /\ pc = "idle"
  /\ ValidAbove(b, headers, Len(headers))
  /\ Prev[b] = verifier.last
  /\ Len(headers) < InvalidUndoHeight
  /\ cur' = b /\ saveUndo' = save
  /\ txNum0' = txNumNext
  /\ verifier' = [n |-> verifier.n + 1, last |-> b]
  /\ pc' = "txnums"
  /\ UNCHANGED <<headers, txNums, blkinfo, utxoset, shunspent, shist, undo,
                 txhash2txnum, largestTxNumSeen, utxoCtDb, dirty, worker, info,
                 txNumNext, utxoCt, earliestUndoHeight, depth>>

AddBlock(b, save) ==
  /\ pc = "idle"
  /\ ValidAbove(b, headers, Len(headers)) \* bitcoind's part
  /\ Prev[b] = verifier.last              \* else HeaderVerificationFailure
  /\ Len(headers) < InvalidUndoHeight     \* bound: 32-bit heights
  /\ cur' = b /\ saveUndo' = save
  /\ txNum0' = txNumNext
  /\ verifier' = [n |-> verifier.n + 1, last |-> b]
  /\ dirty' = TRUE
  /\ pc' = "txnums"
  /\ UNCHANGED <<headers, txNums, blkinfo, utxoset, shunspent, shist, undo,
                 txhash2txnum, largestTxNumSeen, utxoCtDb, worker, info,
                 txNumNext, utxoCt, earliestUndoHeight, depth>>

AppendTxNums ==
  /\ pc = "txnums"
  /\ txNums' = txNums \o Txs[cur]
  /\ txNumNext' = txNumNext + Len(Txs[cur])
  /\ \/ txNumNext' # Len(txNums') /\ pc' = "threw" /\ UNCHANGED worker
     \/ txNumNext' = Len(txNums') /\ pc' = "utxoset" /\ worker' = "insert"
  /\ UNCHANGED <<headers, blkinfo, utxoset, shunspent, shist, undo,
                 txhash2txnum, largestTxNumSeen, utxoCtDb, dirty, cur, saveUndo,
                 txNum0, info, verifier, utxoCt, earliestUndoHeight, depth>>

\* The outputs to add and to delete are collected, then written in one batch.
\* A small block inserted its txhashes before coming here.
WriteUtxoSet ==
  /\ pc = "utxoset"
  /\ cur \in BigBlock \/ worker = "none"
  /\ \/ /\ ~ SpentBy(cur) \subseteq DOMAIN utxoset     \* "Failed to spend"
        /\ pc' = "threw"
        /\ UNCHANGED <<utxoset, info>>
     \/ /\ SpentBy(cur) \subseteq DOMAIN utxoset
        /\ info' = [info EXCEPT
             !.addUndos = [o \in CreatedBy(cur) |-> TxNumIn(cur, txNum0, TxOf[o])],
             !.delUndos = Restricted(utxoset, SpentBy(cur))]
        /\ utxoset' = [o \in (DOMAIN utxoset \cup CreatedBy(cur)) \ SpentBy(cur) |->
                         IF o \in CreatedBy(cur) THEN TxNumIn(cur, txNum0, TxOf[o])
                                                 ELSE utxoset[o]]
        /\ pc' = "shunspent"
  /\ UNCHANGED <<headers, txNums, blkinfo, shunspent, shist, undo, txhash2txnum,
                 largestTxNumSeen, utxoCtDb, dirty, worker, cur, saveUndo, txNum0,
                 verifier, txNumNext, utxoCt, earliestUndoHeight, depth>>

WriteShunspent ==
  /\ pc = "shunspent"
  /\ shunspent' = (shunspent \cup ShunspentKeys(info.addUndos))
                    \ ShunspentKeys(info.delUndos)
  /\ utxoCt' = utxoCt + Cardinality(DOMAIN info.addUndos)
                      - Cardinality(DOMAIN info.delUndos)
  /\ pc' = "shist"
  /\ UNCHANGED <<headers, txNums, blkinfo, utxoset, shist, undo, txhash2txnum,
                 largestTxNumSeen, utxoCtDb, dirty, worker, cur, saveUndo, txNum0,
                 info, verifier, txNumNext, earliestUndoHeight, depth>>

MergeShist ==
  /\ pc = "shist"
  /\ shist' = [hx \in HashX |-> shist[hx] \cup
                 {n \in txNum0 .. txNum0 + Len(Txs[cur]) - 1 :
                     Touches(Txs[cur][n - txNum0 + 1], hx)}]
  /\ pc' = "blkinfo"
  /\ UNCHANGED <<headers, txNums, blkinfo, utxoset, shunspent, undo, txhash2txnum,
                 largestTxNumSeen, utxoCtDb, dirty, worker, cur, saveUndo, txNum0,
                 info, verifier, txNumNext, utxoCt, earliestUndoHeight, depth>>

AppendBlkInfo ==
  /\ pc = "blkinfo"
  /\ blkinfo' = Append(blkinfo, [txNum0 |-> txNum0, nTx |-> Len(Txs[cur])])
  /\ pc' = "saveundo"
  /\ UNCHANGED <<headers, txNums, utxoset, shunspent, shist, undo, txhash2txnum,
                 largestTxNumSeen, utxoCtDb, dirty, worker, cur, saveUndo, txNum0,
                 info, verifier, txNumNext, utxoCt, earliestUndoHeight, depth>>

SaveUndo ==
  /\ pc = "saveundo"
  /\ \/ /\ saveUndo
        /\ LET h   == Len(headers)
               rec == [hash |-> cur,
                       blkInfo |-> [txNum0 |-> txNum0, nTx |-> Len(Txs[cur])],
                       scriptHashes |-> HashXsOf(cur),
                       addUndos |-> info.addUndos, delUndos |-> info.delUndos]
           IN /\ undo' = [k \in DOMAIN undo \cup {h} |-> IF k = h THEN rec ELSE undo[k]]
              /\ earliestUndoHeight' = IF h < earliestUndoHeight THEN h
                                                                ELSE earliestUndoHeight
     \/ ~ saveUndo /\ UNCHANGED <<undo, earliestUndoHeight>>
  /\ pc' = "expire"
  /\ UNCHANGED <<headers, txNums, blkinfo, utxoset, shunspent, shist, txhash2txnum,
                 largestTxNumSeen, utxoCtDb, dirty, worker, cur, saveUndo, txNum0,
                 info, verifier, txNumNext, utxoCt, depth>>

ExpireUndo ==
  /\ pc = "expire"
  /\ LET e == Len(headers) - depth IN
       \/ /\ e >= 0 /\ e >= earliestUndoHeight
          /\ undo' = Restricted(undo, DOMAIN undo \ {e})
          /\ earliestUndoHeight' = e + 1
       \/ /\ ~ (e >= 0 /\ e >= earliestUndoHeight)
          /\ UNCHANGED <<undo, earliestUndoHeight>>
  /\ pc' = "header"
  /\ UNCHANGED <<headers, txNums, blkinfo, utxoset, shunspent, shist, txhash2txnum,
                 largestTxNumSeen, utxoCtDb, dirty, worker, cur, saveUndo, txNum0,
                 info, verifier, txNumNext, utxoCt, depth>>

AppendHeader ==
  /\ pc = "header"
  /\ headers' = Append(headers, cur)
  /\ pc' = "utxoct"
  /\ UNCHANGED <<txNums, blkinfo, utxoset, shunspent, shist, undo, txhash2txnum,
                 largestTxNumSeen, utxoCtDb, dirty, worker, cur, saveUndo, txNum0,
                 info, verifier, txNumNext, utxoCt, earliestUndoHeight, depth>>

\* The last two writes of both operations.
SaveUtxoCt ==
  /\ pc = "utxoct"
  /\ utxoCtDb' = utxoCt
  /\ pc' = "clean"
  /\ UNCHANGED <<headers, txNums, blkinfo, utxoset, shunspent, shist, undo,
                 txhash2txnum, largestTxNumSeen, dirty, worker, cur, saveUndo, txNum0,
                 info, verifier, txNumNext, utxoCt, earliestUndoHeight, depth>>

ClearDirty ==
  /\ pc = "clean"
  /\ dirty' = FALSE
  /\ pc' = "return"
  /\ UNCHANGED <<headers, txNums, blkinfo, utxoset, shunspent, shist, undo,
                 txhash2txnum, largestTxNumSeen, utxoCtDb, worker, cur, saveUndo, txNum0,
                 info, verifier, txNumNext, utxoCt, earliestUndoHeight, depth>>

\* The destructor of `fut` waits for the worker, after the flag is cleared.
Return ==
  /\ pc = "return"
  /\ worker = "none"
  /\ pc' = "idle" /\ cur' = NoBlock /\ saveUndo' = FALSE /\ txNum0' = 0
  /\ info' = EmptyInfo
  /\ UNCHANGED <<disk, worker, verifier, txNumNext, utxoCt, earliestUndoHeight, depth>>

-----------------------------------------------------------------------------
(* blocksWorker: insertForBlock and truncateForUndo.  Each is one batch    *)
(* and then the write of largestTxNumSeen.                                 *)

BlockEntries == {<<KeyOf[Txs[cur][i]], txNum0 + i - 1>> : i \in 1..Len(Txs[cur])}

\* Mutant: truncateForUndo drops every entry of a key, also those of txNums that stay.
WorkerBatchDropsKeys ==
  /\ \/ /\ worker = "insert"
        /\ txhash2txnum' = txhash2txnum \cup BlockEntries
        /\ worker' = "insertsave"
     \/ /\ worker = "truncate"
        /\ LET keys == {KeyOf[txNums[i]] : i \in txNum0 + 1 .. Len(txNums)}
           IN txhash2txnum' = {e \in txhash2txnum : e[1] \notin keys}
        /\ worker' = "truncatesave"
  /\ UNCHANGED <<headers, txNums, blkinfo, utxoset, shunspent, shist, undo,
                 largestTxNumSeen, utxoCtDb, dirty, pc, cur, saveUndo, txNum0, info,
                 verifier, txNumNext, utxoCt, earliestUndoHeight, depth>>

WorkerBatch ==
  /\ \/ /\ worker = "insert"
        /\ txhash2txnum' = txhash2txnum \cup BlockEntries
        /\ worker' = "insertsave"
     \/ /\ worker = "truncate"
        /\ LET keys == {KeyOf[txNums[i]] : i \in txNum0 + 1 .. Len(txNums)}
           IN txhash2txnum' = {e \in txhash2txnum : ~ (e[1] \in keys /\ e[2] >= txNum0)}
        /\ worker' = "truncatesave"
  /\ UNCHANGED <<headers, txNums, blkinfo, utxoset, shunspent, shist, undo,
                 largestTxNumSeen, utxoCtDb, dirty, pc, cur, saveUndo, txNum0, info,
                 verifier, txNumNext, utxoCt, earliestUndoHeight, depth>>

WorkerSave ==
  /\ \/ worker = "insertsave" /\ largestTxNumSeen' = txNum0 + Len(Txs[cur]) - 1
     \/ worker = "truncatesave" /\ largestTxNumSeen' = txNum0 - 1
  /\ worker' = "none"
  /\ UNCHANGED <<headers, txNums, blkinfo, utxoset, shunspent, shist, undo,
                 txhash2txnum, utxoCtDb, dirty, pc, cur, saveUndo, txNum0, info,
                 verifier, txNumNext, utxoCt, earliestUndoHeight, depth>>

-----------------------------------------------------------------------------
(* undoLatestBlock                                                         *)

Tip == verifier.n - 1

\* undo.hash, undo.blkInfo and undo.height against the index.
UndoIsSane(rec) ==
  /\ rec.hash = verifier.last
  /\ Len(blkinfo) > Tip
  /\ blkinfo[Len(blkinfo)] = rec.blkInfo

UndoLatestBlock ==
  /\ pc = "idle"
  /\ \/ /\ Tip <= 0 \/ Tip \notin DOMAIN undo          \* UndoInfoMissing
        /\ pc' = "noundo"
        /\ UNCHANGED <<dirty, cur, txNum0, info, verifier>>
     \/ /\ Tip > 0 /\ Tip \in DOMAIN undo
        /\ ~ UndoIsSane(undo[Tip])                     \* DatabaseFormatError
        /\ pc' = "threw"
        /\ UNCHANGED <<dirty, cur, txNum0, info, verifier>>
     \/ /\ Tip > 0 /\ Tip \in DOMAIN undo
        /\ UndoIsSane(undo[Tip])
        /\ cur' = verifier.last
        /\ info' = undo[Tip]
        /\ txNum0' = undo[Tip].blkInfo.txNum0
        /\ verifier' = [n |-> verifier.n - 1, last |-> headers[Tip]]
        /\ dirty' = TRUE
        /\ pc' = "u_header"
  /\ UNCHANGED <<headers, txNums, blkinfo, utxoset, shunspent, shist, undo,
                 txhash2txnum, largestTxNumSeen, utxoCtDb, worker, saveUndo,
                 txNumNext, utxoCt, earliestUndoHeight, depth>>

UndoHeader ==
  /\ pc = "u_header"
  /\ headers' = SubSeq(headers, 1, verifier.n)
  /\ pc' = "u_blkinfo"
  /\ UNCHANGED <<txNums, blkinfo, utxoset, shunspent, shist, undo, txhash2txnum,
                 largestTxNumSeen, utxoCtDb, dirty, worker, cur, saveUndo, txNum0,
                 info, verifier, txNumNext, utxoCt, earliestUndoHeight, depth>>

UndoBlkInfo ==
  /\ pc = "u_blkinfo"
  /\ blkinfo' = SubSeq(blkinfo, 1, Len(blkinfo) - 1)
  /\ worker' = "truncate"
  /\ pc' = "u_shist"
  /\ UNCHANGED <<headers, txNums, utxoset, shunspent, shist, undo, txhash2txnum,
                 largestTxNumSeen, utxoCtDb, dirty, cur, saveUndo, txNum0,
                 info, verifier, txNumNext, utxoCt, earliestUndoHeight, depth>>

UndoShist ==
  /\ pc = "u_shist"
  /\ \/ /\ \E hx \in info.scriptHashes : shist[hx] = {}     \* fails if missing
        /\ pc' = "threw"
        /\ UNCHANGED shist
     \/ /\ \A hx \in info.scriptHashes : shist[hx] # {}
        /\ shist' = [hx \in HashX |-> IF hx \in info.scriptHashes
                                        THEN {n \in shist[hx] : n < txNum0}
                                        ELSE shist[hx]]
        /\ pc' = "u_utxoset"
  /\ UNCHANGED <<headers, txNums, blkinfo, utxoset, shunspent, undo, txhash2txnum,
                 largestTxNumSeen, utxoCtDb, dirty, worker, cur, saveUndo, txNum0,
                 info, verifier, txNumNext, utxoCt, earliestUndoHeight, depth>>

\* Mutant: the spent outputs are not put back.
UndoUtxoSetNoRestore ==
  /\ pc = "u_utxoset"
  /\ utxoset' = Restricted(utxoset, DOMAIN utxoset \ DOMAIN info.addUndos)
  /\ pc' = "u_shunspent"
  /\ UNCHANGED <<headers, txNums, blkinfo, shunspent, shist, undo, txhash2txnum,
                 largestTxNumSeen, utxoCtDb, dirty, worker, cur, saveUndo, txNum0,
                 info, verifier, txNumNext, utxoCt, earliestUndoHeight, depth>>

UndoUtxoSet ==
  /\ pc = "u_utxoset"
  /\ utxoset' = [o \in (DOMAIN utxoset \cup DOMAIN info.delUndos) \ DOMAIN info.addUndos |->
                   IF o \in DOMAIN info.delUndos THEN info.delUndos[o] ELSE utxoset[o]]
  /\ pc' = "u_shunspent"
  /\ UNCHANGED <<headers, txNums, blkinfo, shunspent, shist, undo, txhash2txnum,
                 largestTxNumSeen, utxoCtDb, dirty, worker, cur, saveUndo, txNum0,
                 info, verifier, txNumNext, utxoCt, earliestUndoHeight, depth>>

UndoShunspent ==
  /\ pc = "u_shunspent"
  /\ shunspent' = (shunspent \cup ShunspentKeys(info.delUndos))
                    \ ShunspentKeys(info.addUndos)
  /\ utxoCt' = utxoCt + Cardinality(DOMAIN info.delUndos)
                      - Cardinality(DOMAIN info.addUndos)
  /\ pc' = "u_undo"
  /\ UNCHANGED <<headers, txNums, blkinfo, utxoset, shist, undo, txhash2txnum,
                 largestTxNumSeen, utxoCtDb, dirty, worker, cur, saveUndo, txNum0,
                 info, verifier, txNumNext, earliestUndoHeight, depth>>

\* Mutant: the earliest undo height survives the deletion of its record.
DeleteUndoKeepsEarliest ==
  /\ pc = "u_undo"
  /\ undo' = Restricted(undo, DOMAIN undo \ {Len(headers)})
  /\ pc' = "u_txnums"
  /\ UNCHANGED <<headers, txNums, blkinfo, utxoset, shunspent, shist, txhash2txnum,
                 largestTxNumSeen, utxoCtDb, dirty, worker, cur, saveUndo, txNum0,
                 info, verifier, txNumNext, utxoCt, earliestUndoHeight, depth>>

\* undo.height is the height just removed, Len(headers) after the truncation.
DeleteUndo ==
  /\ pc = "u_undo"
  /\ earliestUndoHeight' = IF earliestUndoHeight >= Len(headers) THEN InvalidUndoHeight
                                                                ELSE earliestUndoHeight
  /\ undo' = Restricted(undo, DOMAIN undo \ {Len(headers)})
  /\ pc' = "u_txnums"
  /\ UNCHANGED <<headers, txNums, blkinfo, utxoset, shunspent, shist, txhash2txnum,
                 largestTxNumSeen, utxoCtDb, dirty, worker, cur, saveUndo, txNum0,
                 info, verifier, txNumNext, utxoCt, depth>>

\* Mutant: the record file keeps the hashes of the undone block.
TruncateTxNumsForgotten ==
  /\ pc = "u_txnums"
  /\ worker = "none"
  /\ txNumNext' = txNum0
  /\ pc' = "utxoct"
  /\ UNCHANGED <<headers, txNums, blkinfo, utxoset, shunspent, shist, undo, txhash2txnum,
                 largestTxNumSeen, utxoCtDb, dirty, worker, cur, saveUndo, txNum0,
                 info, verifier, utxoCt, earliestUndoHeight, depth>>

\* Mutant: the worker is not waited for.
TruncateTxNumsNoWait ==
  /\ pc = "u_txnums"
  /\ txNumNext' = txNum0
  /\ txNums' = SubSeq(txNums, 1, txNum0)
  /\ pc' = "utxoct"
  /\ UNCHANGED <<headers, blkinfo, utxoset, shunspent, shist, undo, txhash2txnum,
                 largestTxNumSeen, utxoCtDb, dirty, worker, cur, saveUndo, txNum0,
                 info, verifier, utxoCt, earliestUndoHeight, depth>>

\* fut.future.get(), then the record file may be truncated.
TruncateTxNums ==
  /\ pc = "u_txnums"
  /\ worker = "none"
  /\ txNumNext' = txNum0
  /\ txNums' = SubSeq(txNums, 1, txNum0)
  /\ pc' = "utxoct"
  /\ UNCHANGED <<headers, blkinfo, utxoset, shunspent, shist, undo, txhash2txnum,
                 largestTxNumSeen, utxoCtDb, dirty, worker, cur, saveUndo, txNum0,
                 info, verifier, utxoCt, earliestUndoHeight, depth>>

-----------------------------------------------------------------------------
(* The process ends: killed between two writes, or by the Fatal() that     *)
(* follows an exception out of addBlock or undoLatestBlock.  Only the disk *)
(* survives.                                                               *)

Kill ==
  /\ pc \notin {"down", "refused", "corrupt"}
  /\ pc' = "down" /\ worker' = "none"
  /\ cur' = NoBlock /\ saveUndo' = FALSE /\ txNum0' = 0 /\ info' = EmptyInfo
  /\ verifier' = Verified(<<>>) /\ txNumNext' = 0 /\ utxoCt' = 0
  /\ earliestUndoHeight' = InvalidUndoHeight
  /\ UNCHANGED <<disk, depth>>

(* startup: isDirty, then the loadCheck functions in their order.          *)

HeadersLinked ==
  \A i \in 1..Len(headers) : Prev[headers[i]] = IF i = 1 THEN NoBlock ELSE headers[i - 1]

BlkInfosAddUp ==
  /\ Len(blkinfo) >= Len(headers)
  /\ \A i \in 1..Len(headers) :
       blkinfo[i].txNum0 = IF i = 1 THEN 0 ELSE blkinfo[i - 1].txNum0 + blkinfo[i - 1].nTx
  /\ Len(txNums) = IF headers = <<>> THEN 0
                   ELSE blkinfo[Len(headers)].txNum0 + blkinfo[Len(headers)].nTx

\* TxHash2TxNumMgr::exists
TxHashExists(t) ==
  \E n \in 0..Len(txNums) - 1 : <<KeyOf[t], n>> \in txhash2txnum /\ txNums[n + 1] = t

\* loadCheckTxHash2TxNumMgr looks up the first, middle and last record only.
TxHashIndexLooksGood ==
  /\ \A n \in IF txNums = <<>> THEN {} ELSE {0, Len(txNums) \div 2, Len(txNums) - 1} :
        TxHashExists(txNums[n + 1])
  /\ txNums = <<>> => txhash2txnum = {}
  /\ largestTxNumSeen + 1 = Len(txNums)

Startup(d) ==
  /\ pc = "down"
  /\ depth' = d
  /\ \/ dirty /\ pc' = "refused" /\ UNCHANGED <<verifier, txNumNext>>
     \/ /\ ~ dirty /\ ~ (HeadersLinked /\ BlkInfosAddUp)
        /\ pc' = "corrupt" /\ UNCHANGED <<verifier, txNumNext>>
     \/ /\ ~ dirty /\ HeadersLinked /\ BlkInfosAddUp
        /\ verifier' = Verified(headers)
        /\ txNumNext' = Len(txNums)
        /\ pc' = IF TxHashIndexLooksGood THEN "loadundo" ELSE "rebuild"
  /\ UNCHANGED <<disk, worker, cur, saveUndo, txNum0, info, utxoCt, earliestUndoHeight>>

\* rebuildDB: delete everything, then index the whole record file.
RebuildDelete ==
  /\ pc = "rebuild"
  /\ txhash2txnum' = {} /\ largestTxNumSeen' = -1
  /\ pc' = "reindex"
  /\ UNCHANGED <<headers, txNums, blkinfo, utxoset, shunspent, shist, undo, utxoCtDb,
                 dirty, worker, cur, saveUndo, txNum0, info, verifier, txNumNext,
                 utxoCt, earliestUndoHeight, depth>>

AllTxHashes == {<<KeyOf[txNums[i]], i - 1>> : i \in 1..Len(txNums)}

Reindex ==
  /\ pc = "reindex"
  /\ txhash2txnum' = AllTxHashes /\ largestTxNumSeen' = Len(txNums) - 1
  /\ pc' = "loadundo"
  /\ UNCHANGED <<headers, txNums, blkinfo, utxoset, shunspent, shist, undo, utxoCtDb,
                 dirty, worker, cur, saveUndo, txNum0, info, verifier, txNumNext,
                 utxoCt, earliestUndoHeight, depth>>

\* The records from the last hole up, and of these the newest `depth`.
AboveLastHole(S) == {h \in S : \A m \in S : \A k \in h..m : k \in S}

Newest(S, n) == {h \in S : Cardinality({k \in S : k > h}) < n}

SmallestOr(S, dflt) ==
  IF S = {} THEN dflt ELSE CHOOSE h \in S : \A k \in S : h <= k

LoadEarliestUndo ==
  /\ pc = "loadundo"
  /\ LET kept == Newest(AboveLastHole(DOMAIN undo), depth) IN
       /\ undo' = Restricted(undo, kept)
       /\ earliestUndoHeight' = SmallestOr(kept, InvalidUndoHeight)
  /\ utxoCt' = utxoCtDb
  /\ pc' = "idle"
  /\ UNCHANGED <<headers, txNums, blkinfo, utxoset, shunspent, shist, txhash2txnum,
                 largestTxNumSeen, utxoCtDb, dirty, worker, cur, saveUndo, txNum0,
                 info, verifier, txNumNext, depth>>

-----------------------------------------------------------------------------
Next ==
  \/ \E b \in Block, save \in BOOLEAN : AddBlock(b, save)
  \/ AppendTxNums \/ WriteUtxoSet \/ WriteShunspent \/ MergeShist
  \/ AppendBlkInfo \/ SaveUndo \/ ExpireUndo \/ AppendHeader
  \/ SaveUtxoCt \/ ClearDirty \/ Return
  \/ WorkerBatch \/ WorkerSave
  \/ UndoLatestBlock \/ UndoHeader \/ UndoBlkInfo \/ UndoShist
  \/ UndoUtxoSet \/ UndoShunspent \/ DeleteUndo \/ TruncateTxNums
  \/ Kill
  \/ \E d \in Depths : Startup(d)
  \/ RebuildDelete \/ Reindex \/ LoadEarliestUndo

Spec == Init /\ [][Next]_vars

-----------------------------------------------------------------------------
(* Properties                                                              *)

TxNumMap(f) == DOMAIN f \subseteq TXO /\ f \in [DOMAIN f -> Nat]

IsUndoInfo(r) ==
  /\ r = [hash |-> r.hash, blkInfo |-> r.blkInfo, scriptHashes |-> r.scriptHashes,
          addUndos |-> r.addUndos, delUndos |-> r.delUndos]
  /\ r.hash \in Block \cup {NoBlock}
  /\ r.blkInfo \in [txNum0 : Nat, nTx : Nat]
  /\ r.scriptHashes \subseteq HashX
  /\ TxNumMap(r.addUndos) /\ TxNumMap(r.delUndos)

AddPcs == {"txnums", "utxoset", "shunspent", "shist", "blkinfo", "saveundo",
           "expire", "header"}

UndoPcs == {"u_header", "u_blkinfo", "u_shist", "u_utxoset", "u_shunspent",
            "u_undo", "u_txnums"}

IdlePcs == {"down", "rebuild", "reindex", "loadundo", "idle", "noundo",
            "refused", "corrupt"}

TablesTyped ==
  /\ headers \in Seq(Block) /\ txNums \in Seq(Tx)
  /\ blkinfo \in Seq([txNum0 : Nat, nTx : Nat])
  /\ TxNumMap(utxoset)
  /\ shunspent \subseteq HashX \X Nat \X TXO
  /\ shist \in [HashX -> SUBSET Nat]

UndoTyped ==
  /\ DOMAIN undo \subseteq Nat /\ undo = [h \in DOMAIN undo |-> undo[h]]
  /\ \A h \in DOMAIN undo : IsUndoInfo(undo[h])

MetaTyped ==
  /\ txhash2txnum \subseteq TxKey \X Nat
  /\ largestTxNumSeen \in Nat \cup {-1}
  /\ utxoCtDb \in Int /\ dirty \in BOOLEAN

ControlTyped ==
  /\ pc \in AddPcs \cup UndoPcs \cup IdlePcs \cup {"utxoct", "clean", "return", "threw"}
  /\ worker \in {"none", "insert", "insertsave", "truncate", "truncatesave"}

LocalsTyped ==
  /\ cur \in Block \cup {NoBlock} /\ saveUndo \in BOOLEAN /\ txNum0 \in Nat
  /\ IsUndoInfo(info)

CountersTyped ==
  /\ verifier \in [n : Nat, last : Block \cup {NoBlock}]
  /\ txNumNext \in Nat /\ utxoCt \in Int /\ earliestUndoHeight \in Nat
  /\ depth \in Depths

\* Type invariant: the tables, the record files and the locals of addBlock and
\* undoLatestBlock only ever hold values of their C++ types.
TypeOK ==
  /\ TablesTyped /\ UndoTyped /\ MetaTyped
  /\ ControlTyped /\ LocalsTyped /\ CountersTyped

TxNumsMatch ==
  /\ Len(blkinfo) = Len(headers)
  /\ \A i \in 1..Len(headers) :
       /\ blkinfo[i].nTx = Len(Txs[headers[i]])
       /\ \A j \in 1..Len(Txs[headers[i]]) :
            txNums[blkinfo[i].txNum0 + j] = Txs[headers[i]][j]

UtxoSetMatches ==
  /\ DOMAIN utxoset = UtxosOf(headers)
  /\ \A o \in DOMAIN utxoset : utxoset[o] < Len(txNums) /\ txNums[utxoset[o] + 1] = TxOf[o]

HistoriesMatch ==
  \A hx \in HashX : shist[hx] = {n \in 0..Len(txNums) - 1 : Touches(txNums[n + 1], hx)}

\* An undo record that reverts block b, whose blkInfo is bi.
RecordReverts(rec, b, bi) ==
  /\ rec.hash = b
  /\ rec.blkInfo = bi
  /\ rec.scriptHashes = HashXsOf(b)
  /\ DOMAIN rec.addUndos = CreatedBy(b)
  /\ \A o \in CreatedBy(b) : rec.addUndos[o] = TxNumIn(b, bi.txNum0, TxOf[o])
  /\ DOMAIN rec.delUndos = SpentBy(b)
  /\ \A o \in SpentBy(b) :
       rec.delUndos[o] < bi.txNum0 /\ txNums[rec.delUndos[o] + 1] = TxOf[o]

UndoMatches ==
  \A h \in DOMAIN undo :
    h < Len(headers) /\ RecordReverts(undo[h], headers[h + 1], blkinfo[h + 1])

IndexMatchesChain ==
  /\ HeadersLinked /\ BlkInfosAddUp /\ TxNumsMatch
  /\ UtxoSetMatches /\ shunspent = ShunspentKeys(utxoset)
  /\ HistoriesMatch
  /\ UndoMatches

\* Whenever the dirty flag on disk is clear, the tables are the index of the
\* chain in the headers file, whatever was added, undone, killed and restarted
\* before: the promise behind isDirty() in startup (Storage.h:408, ACID note).
CleanIndexMatchesChain == ~ dirty => IndexMatchesChain

\* startup never reports corruption ("Possible databaase corruption", "BlkInfo
\* txNums do not add up") for a database whose dirty flag is clear.
CleanDatabaseLoads == pc # "corrupt"

\* No "Failed to spend", "counter disagree", missing history or failed undo
\* sanity check: the exceptions that Controller turns into a Fatal().
NoInternalError == pc # "threw"

\* When the database is open and idle every transaction is found by hash, even
\* though addBlock clears the dirty flag before the worker has indexed the block.
TxHashIndexComplete == pc = "idle" => txhash2txnum = AllTxHashes

\* The saved UTXO count, which startup trusts without counting, is the size of
\* the utxoset whenever the flag is clear.
UtxoCountMatches == ~ dirty => utxoCtDb = Cardinality(DOMAIN utxoset)

\* addBlock merges by appending bytes: everything it appends to a history must
\* be above what the history holds, or the sorted order readers rely on is lost.
HistoriesAppendInOrder ==
  pc = "shist" => \A hx \in HashX : \A n \in shist[hx] : n < txNum0

=============================================================================
