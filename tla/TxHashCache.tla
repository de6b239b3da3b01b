---------------------------- MODULE TxHashCache -----------------------------
(***************************************************************************)
(* The two caches of transaction hashes in Storage, lruNum2Hash and        *)
(* lruHeight2Hashes_BitcoindMemOrder, which server threads fill while the  *)
(* Controller's thread adds and undoes blocks.                             *)
(*                                                                         *)
(* addBlock and undoLatestBlock hold blocksLock and blkInfoLock exclusively*)
(* from beginning to end.  getHistory holds blocksLock shared.             *)
(* hashForHeightAndPos and txHashesForBlockInBitcoindMemoryOrder say       *)
(* SharedLockGuard(p->blocksLock), an unnamed temporary: they wait for the *)
(* writer to finish and release the lock at once.  The record file and     *)
(* the caches each have a lock of their own, held for one call.            *)
(***************************************************************************)
EXTENDS Integers, Sequences, FiniteSets, Functions

CONSTANTS
  Thread,      \* threads that serve requests
  Hash,        \* transaction hashes
  MaxBlocks,   \* bound: blocks in the chain
  MaxTx,       \* bound: transactions in a block
  CacheSize    \* entries that fit in each cache

ASSUME TxHashCacheAssumption ==
  /\ MaxBlocks \in Nat \ {0} /\ MaxTx \in Nat \ {0} /\ CacheSize \in Nat \ {0}

VARIABLES
  blkInfos,        \* [txNum0, nTx] of each block
  txNumsFile,      \* the record file: the hash of TxNum n is record n + 1
  writer,          \* "idle", or where addBlock or undoLatestBlock is
  lruNum2Hash,     \* TxNum -> hash
  lruHeight2Hashes,\* height -> sequence of hashes
  req,             \* what each server thread does
  suspect          \* history: entries inserted by a request that an undo overlapped

vars == <<blkInfos, txNumsFile, writer, lruNum2Hash, lruHeight2Hashes, req, suspect>>

Empty == [k \in {} |-> <<>>]

Idle == [op |-> "none", at |-> "done", num |-> 0, cnt |-> 0, ht |-> 0, val |-> <<>>,
         overlapped |-> FALSE]

Init ==
  /\ blkInfos = <<>> /\ txNumsFile = <<>> /\ writer = "idle"
  /\ lruNum2Hash = Empty /\ lruHeight2Hashes = Empty
  /\ req = [t \in Thread |-> Idle]
  /\ suspect = {}

Unlocked == {"hashForHeightAndPos", "txHashesForBlock"}

-----------------------------------------------------------------------------
(* The writer.  The locks it takes keep out getHistory and, for the time   *)
(* they hold a lock, the other readers.                                    *)

\* Mutant: the writers do not wait for the readers that hold blocksLock.
BlocksLockIgnored == TRUE

BlocksLockFree == \A t \in Thread : req[t].op # "getHistory"

caches == <<lruNum2Hash, lruHeight2Hashes>>

BlockTxs == UNION {{s \in [1..n -> Hash] : IsInjective(s)} : n \in 1..MaxTx}

\* addBlock appends the hashes to the record file ...
AddBlock(txs) ==
  /\ writer = "idle" /\ BlocksLockFree
  /\ Len(blkInfos) < MaxBlocks
  /\ Range(txs) \cap Range(txNumsFile) = {}
  /\ txNumsFile' = txNumsFile \o txs
  /\ writer' = "adding"
  /\ UNCHANGED <<blkInfos, caches, req, suspect>>

\* ... then the BlkInfo, and returns.
AppendBlkInfo ==
  /\ writer = "adding"
  /\ LET txNum0 == IF blkInfos = <<>> THEN 0
                   ELSE blkInfos[Len(blkInfos)].txNum0 + blkInfos[Len(blkInfos)].nTx
     IN blkInfos' = Append(blkInfos, [txNum0 |-> txNum0, nTx |-> Len(txNumsFile) - txNum0])
  /\ writer' = "idle"
  /\ UNCHANGED <<txNumsFile, caches, req, suspect>>

\* History: the requests under way that hold no lock.
Overlap ==
  req' = [t \in Thread |-> [req[t] EXCEPT !.overlapped = @ \/ req[t].op \in Unlocked]]

\* Mutant: the caches keep what they hold.
UndoLatestBlockKeepsCaches ==
  /\ writer = "idle" /\ BlocksLockFree
  /\ Len(blkInfos) > 1
  /\ blkInfos' = SubSeq(blkInfos, 1, Len(blkInfos) - 1)
  /\ writer' = "undoing"
  /\ Overlap
  /\ UNCHANGED <<txNumsFile, caches, suspect>>

\* undoLatestBlock removes the BlkInfo and what the caches may hold of the block ...
UndoLatestBlock ==
  /\ writer = "idle" /\ BlocksLockFree
  /\ Len(blkInfos) > 1
  /\ blkInfos' = SubSeq(blkInfos, 1, Len(blkInfos) - 1)
  /\ lruNum2Hash' = Empty
  /\ lruHeight2Hashes' = Restrict(lruHeight2Hashes, DOMAIN lruHeight2Hashes \ {Len(blkInfos) - 1})
  /\ suspect' = {e \in suspect : e[1] = "height" /\ e[2] # Len(blkInfos) - 1}
  /\ writer' = "undoing"
  /\ Overlap
  /\ UNCHANGED txNumsFile

\* ... and truncates the record file at the end.
TruncateTxNums ==
  /\ writer = "undoing"
  /\ LET last == blkInfos[Len(blkInfos)]
     IN txNumsFile' = SubSeq(txNumsFile, 1, last.txNum0 + last.nTx)
  /\ writer' = "idle"
  /\ UNCHANGED <<blkInfos, caches, req, suspect>>

-----------------------------------------------------------------------------
(* Requests.                                                               *)

Goto(t, at) == req' = [req EXCEPT ![t].at = at]

\* CostCache::insert drops old entries until the new one fits.
Kept(c, k) ==
  LET others == DOMAIN c \ {k} IN
  {S \in SUBSET others : Cardinality(S) = CacheSize - 1 \/ (S = others /\ Cardinality(S) < CacheSize)}

Insert(c, k, v, S) == [x \in S \cup {k} |-> IF x = k THEN v ELSE c[x]]

MarkSuspect(t, kind, k, S) ==
  suspect' = {e \in suspect : e[1] = kind => e[2] \in S}
             \cup (IF req[t].overlapped THEN {<<kind, k>>} ELSE {})

\* hashForHeightAndPos: look up the BlkInfo under blkInfoLock.
HashForHeightAndPos(t, h, pos) ==
  /\ req[t].op = "none" /\ writer = "idle"
  /\ h < Len(blkInfos) /\ pos < blkInfos[h + 1].nTx
  /\ req' = [req EXCEPT ![t] = [Idle EXCEPT !.op = "hashForHeightAndPos", !.at = "lookup",
                                            !.num = blkInfos[h + 1].txNum0 + pos]]
  /\ UNCHANGED <<blkInfos, txNumsFile, writer, caches, suspect>>

\* getHistory of a script hash that has transaction n in its history.
GetHistory(t, n) ==
  /\ req[t].op = "none" /\ writer = "idle"
  /\ n < Len(txNumsFile)
  /\ req' = [req EXCEPT ![t] = [Idle EXCEPT !.op = "getHistory", !.at = "lookup", !.num = n]]
  /\ UNCHANGED <<blkInfos, txNumsFile, writer, caches, suspect>>

\* hashForTxNum, called by both: the cache ...
LookupNum(t) ==
  /\ req[t].op \in {"hashForHeightAndPos", "getHistory"} /\ req[t].at = "lookup"
  /\ req' = [req EXCEPT ![t] = IF @.num \in DOMAIN lruNum2Hash
                                 THEN [@ EXCEPT !.at = "done", !.val = <<lruNum2Hash[req[t].num]>>,
                                                !.overlapped = @ \/ <<"num", req[t].num>> \in suspect]
                                 ELSE [@ EXCEPT !.at = "read"]]
  /\ UNCHANGED <<blkInfos, txNumsFile, writer, caches, suspect>>

\* ... then the file: readRecord finds nothing past its end ...
ReadRecord(t) ==
  /\ req[t].op \in {"hashForHeightAndPos", "getHistory"} /\ req[t].at = "read"
  /\ req' = [req EXCEPT ![t] = IF @.num < Len(txNumsFile)
                                 THEN [@ EXCEPT !.at = "insert", !.val = <<txNumsFile[req[t].num + 1]>>]
                                 ELSE [@ EXCEPT !.at = "done"]]
  /\ UNCHANGED <<blkInfos, txNumsFile, writer, caches, suspect>>

\* ... and what was read goes into the cache.
InsertNum(t) ==
  /\ req[t].op \in {"hashForHeightAndPos", "getHistory"} /\ req[t].at = "insert"
  /\ \E S \in Kept(lruNum2Hash, req[t].num) :
       /\ lruNum2Hash' = Insert(lruNum2Hash, req[t].num, req[t].val[1], S)
       /\ MarkSuspect(t, "num", req[t].num, S)
  /\ Goto(t, "done")
  /\ UNCHANGED <<blkInfos, txNumsFile, writer, lruHeight2Hashes>>

\* txHashesForBlock, once blocksLock has been taken and released: the cache ...
TxHashesForBlock(t, h) ==
  /\ req[t].op = "none" /\ writer = "idle"
  /\ req' = [req EXCEPT ![t] = [Idle EXCEPT !.op = "txHashesForBlock", !.at = "lookup", !.ht = h]]
  /\ UNCHANGED <<blkInfos, txNumsFile, writer, caches, suspect>>

LookupHeight(t) ==
  /\ req[t].op = "txHashesForBlock" /\ req[t].at = "lookup"
  /\ req' = [req EXCEPT ![t] = IF @.ht \in DOMAIN lruHeight2Hashes
                                 THEN [@ EXCEPT !.at = "done", !.val = lruHeight2Hashes[req[t].ht]]
                                 ELSE [@ EXCEPT !.at = "blkinfo"]]
  /\ UNCHANGED <<blkInfos, txNumsFile, writer, caches, suspect>>

\* ... the BlkInfo, under blkInfoLock ...
ReadBlkInfo(t) ==
  /\ req[t].op = "txHashesForBlock" /\ req[t].at = "blkinfo"
  /\ writer = "idle"
  /\ req' = [req EXCEPT ![t] =
       IF @.ht < Len(blkInfos)
         THEN [@ EXCEPT !.at = "read", !.num = blkInfos[req[t].ht + 1].txNum0,
                        !.cnt = blkInfos[req[t].ht + 1].nTx]
         ELSE [@ EXCEPT !.at = "done"]]
  /\ UNCHANGED <<blkInfos, txNumsFile, writer, caches, suspect>>

\* ... the file, which may have too few records by now ...
ReadRecords(t) ==
  /\ req[t].op = "txHashesForBlock" /\ req[t].at = "read"
  /\ LET from == req[t].num
         n == req[t].cnt
     IN req' = [req EXCEPT ![t] =
          IF from + n <= Len(txNumsFile)
            THEN [@ EXCEPT !.at = "insert", !.val = SubSeq(txNumsFile, from + 1, from + n)]
            ELSE [@ EXCEPT !.at = "done", !.val = <<>>]]
  /\ UNCHANGED <<blkInfos, txNumsFile, writer, caches, suspect>>

\* ... and the cache again.
InsertHeight(t) ==
  /\ req[t].op = "txHashesForBlock" /\ req[t].at = "insert"
  /\ \E S \in Kept(lruHeight2Hashes, req[t].ht) :
       /\ lruHeight2Hashes' = Insert(lruHeight2Hashes, req[t].ht, req[t].val, S)
       /\ MarkSuspect(t, "height", req[t].ht, S)
  /\ Goto(t, "done")
  /\ UNCHANGED <<blkInfos, txNumsFile, writer, lruNum2Hash>>

\* The reply is sent and the lock getHistory holds is released.
Return(t) ==
  /\ req[t].op # "none" /\ req[t].at = "done"
  /\ req' = [req EXCEPT ![t] = Idle]
  /\ UNCHANGED <<blkInfos, txNumsFile, writer, caches, suspect>>

Next ==
  \/ \E txs \in BlockTxs : AddBlock(txs)
  \/ AppendBlkInfo \/ UndoLatestBlock \/ TruncateTxNums
  \/ \E t \in Thread :
       \/ \E h \in 0..MaxBlocks - 1 :
            \/ TxHashesForBlock(t, h)
            \/ \E pos \in 0..MaxTx - 1 : HashForHeightAndPos(t, h, pos)
       \/ \E n \in 0..MaxBlocks * MaxTx - 1 : GetHistory(t, n)
       \/ LookupNum(t) \/ ReadRecord(t) \/ InsertNum(t)
       \/ LookupHeight(t) \/ ReadBlkInfo(t) \/ ReadRecords(t) \/ InsertHeight(t)
       \/ Return(t)

Spec == Init /\ [][Next]_vars

-----------------------------------------------------------------------------
(* heightForTxNum: the last block that starts at or before n, or -1.       *)
Height(n) ==
  LET before == {h \in 0..Len(blkInfos) - 1 : blkInfos[h + 1].txNum0 <= n}
      last == CHOOSE h \in before : \A k \in before : k <= h
  IN IF before # {} /\ n < blkInfos[last + 1].txNum0 + blkInfos[last + 1].nTx THEN last ELSE -1

BlockHashes(h) ==
  SubSeq(txNumsFile, blkInfos[h + 1].txNum0 + 1, blkInfos[h + 1].txNum0 + blkInfos[h + 1].nTx)

\* The types of the variables; neither cache outgrows its limit.
TypeOK ==
  /\ blkInfos \in Seq([txNum0 : Nat, nTx : 1..MaxTx]) /\ Len(blkInfos) <= MaxBlocks
  /\ txNumsFile \in Seq(Hash) /\ IsInjective(txNumsFile)
  /\ writer \in {"idle", "adding", "undoing"}
  /\ DOMAIN lruNum2Hash \subseteq Nat /\ Range(lruNum2Hash) \subseteq Hash
  /\ DOMAIN lruHeight2Hashes \subseteq Nat /\ Range(lruHeight2Hashes) \subseteq Seq(Hash)
  /\ Cardinality(DOMAIN lruNum2Hash) <= CacheSize
  /\ Cardinality(DOMAIN lruHeight2Hashes) <= CacheSize
  /\ \A t \in Thread :
       /\ req[t].op \in {"none", "hashForHeightAndPos", "txHashesForBlock", "getHistory"}
       /\ req[t].at \in {"lookup", "blkinfo", "read", "insert", "done"}

NumRight(n) == n < Len(txNumsFile) /\ lruNum2Hash[n] = txNumsFile[n + 1]

HeightRight(h) == h < Len(blkInfos) /\ lruHeight2Hashes[h] = BlockHashes(h)

\* An entry of either cache that was not inserted by a request overlapping an undo
\* is what the record file holds: undoLatestBlock clears all it has to clear, and
\* reading while addBlock has appended hashes and no BlkInfo does no harm.
CoherentUnlessOverlapped ==
  writer = "idle" =>
    /\ \A n \in DOMAIN lruNum2Hash : <<"num", n>> \in suspect \/ NumRight(n)
    /\ \A h \in DOMAIN lruHeight2Hashes : <<"height", h>> \in suspect \/ HeightRight(h)

\* getHistory, which does hold blocksLock, pairs each TxNum with its hash and with the
\* height of the block that has it, unless it meets a suspect entry in the cache.
HistoryConsistent ==
  \A t \in Thread :
    req[t].op = "getHistory" /\ req[t].at = "done" /\ ~ req[t].overlapped =>
      /\ req[t].num < Len(txNumsFile) /\ req[t].val = <<txNumsFile[req[t].num + 1]>>
      /\ Height(req[t].num) >= 0 /\ req[t].val[1] \in Range(BlockHashes(Height(req[t].num)))

\* hashForHeightAndPos and txHashesForBlock take blocksLock to "guarantee a
\* consistent view (so that data doesn't mutate from underneath us)": what they leave
\* in the caches is what the record file holds.
CacheCoherent ==
  writer = "idle" =>
    /\ \A n \in DOMAIN lruNum2Hash : NumRight(n)
    /\ \A h \in DOMAIN lruHeight2Hashes : HeightRight(h)
=============================================================================
