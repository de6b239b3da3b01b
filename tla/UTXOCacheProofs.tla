-------------------------- MODULE UTXOCacheProofs --------------------------
(***************************************************************************)
(* Proofs about UTXOCache for any set of outputs, any sizes and any limit: *)
(* Inv is inductive, and the cache never changes what the databases stand  *)
(* for.                                                                    *)
(***************************************************************************)
EXTENDS UTXOCache, FiniteSetTheorems, TLAPS

\* A flush by the destructor writes everything.
LEMMA FullFlush ==
    ASSUME TypeOK
    PROVE  /\ DoFlush(0).target = 0
           /\ DoFlush(0).main \in {"rms", "done"}
           /\ DoFlush(0).main = "done" => adds = {} /\ rms = {}
           /\ DoFlush(0).main = "rms" => DoFlush(0).doAdds = 1
           /\ DoFlush(0).shunspent = "rms"
           /\ DoFlush(0).doShunspentAdds = 1
  <1>1. IsFiniteSet(adds) /\ IsFiniteSet(rms)
    BY SizeAssumption, FS_Subset DEF TypeOK
  <1>2. Cardinality(adds) \in Nat /\ Cardinality(rms) \in Nat
    BY <1>1, FS_CardinalityType
  <1>3. Cardinality(adds) + Cardinality(rms) = 0 => adds = {} /\ rms = {}
    BY <1>1, <1>2, FS_EmptySet
  <1>4. /\ DoFlush(0).target = 0 /\ DoFlush(0).shunspent = "rms"
        /\ DoFlush(0).main \in {"rms", "done"}
    BY DEF DoFlush
  <1>5. DoFlush(0).main = "done" => adds = {} /\ rms = {}
    BY <1>3 DEF DoFlush
  <1>6. DoFlush(0).main = "rms" => DoFlush(0).doAdds = 1
    BY DEF DoFlush
  <1>7. DoFlush(0).doShunspentAdds = 1
    BY DEF DoFlush
  <1> QED
    BY <1>4, <1>5, <1>6, <1>7

\* The parameters of a flush have their types.
LEMMA FlushType ==
    ASSUME NEW target \in Nat
    PROVE  DoFlush(target) \in [target : Nat, doAdds : {0, 1},
                                doShunspentAdds : {0, 1},
                                main : {"rms", "adds", "done"},
                                shunspent : {"rms", "adds", "done"}]
  BY DEF DoFlush

\* Inv holds at the start.
LEMMA InitInv == Init => Inv
  BY DEF Init, Inv, TypeOK, ViewIsUtxoSet, InputsFound, CachedIsUnspent,
         NoBlock, NoFlush

\* Every step keeps Inv.
LEMMA NextInv ==
    ASSUME Inv, [Next]_vars
    PROVE  Inv'
  <1> USE DEF Inv, TypeOK, ViewIsUtxoSet, InputsFound, CachedIsUnspent, cacheVars
  <1>1. CASE SetInitialSync
    BY <1>1 DEF SetInitialSync
  <1>2. ASSUME NEW ins \in SUBSET TXOs, NEW outs \in SUBSET TXOs, StartBlock(ins, outs)
        PROVE  Inv'
    BY <1>2 DEF StartBlock, StartPrefetch
  <1>3. ASSUME NEW ins \in SUBSET TXOs, RejectBlock(ins)
        PROVE  Inv'
    BY <1>3 DEF RejectBlock, StartPrefetch
  <1>4. CASE Prefetch
    BY <1>4 DEF Prefetch
  <1>5. ASSUME NEW txo \in TXOs, Put(txo)
        PROVE  Inv'
    BY <1>5 DEF Put
  <1>6. CASE WaitForPrefetchToComplete
    BY <1>6 DEF WaitForPrefetchToComplete
  <1>7. ASSUME NEW txo \in TXOs, Spend(txo)
        PROVE  Inv'
    BY <1>7 DEF Spend, rm, rmShunspent
  <1>8. CASE EndBlock
    BY <1>8 DEF EndBlock
  <1>9. ASSUME NEW txo \in TXOs, Evict(txo)
        PROVE  Inv'
    BY <1>9 DEF Evict
  <1>10. CASE LimitSize
    <2>1. (Limit * 3) \div 4 \in Nat
      BY SizeAssumption DEF SizeAssumption
    <2>2. CASE flush' = flush
      BY <1>10, <2>2 DEF LimitSize
    <2>3. CASE flush' = DoFlush((Limit * 3) \div 4)
      <3>1. flush' \in [target : Nat, doAdds : {0, 1}, doShunspentAdds : {0, 1},
                        main : {"rms", "adds", "done"},
                        shunspent : {"rms", "adds", "done"}]
        BY <2>1, <2>3, FlushType
      <3> QED
        BY <1>10, <3>1 DEF LimitSize
    <2> QED
      BY <1>10, <2>2, <2>3 DEF LimitSize
  <1>11. CASE FlushUtxos
    <2>1. ASSUME NEW txo \in rms, flush.main = "rms", flush' = flush, adds' = adds,
                 db' = db \ {txo}, rms' = rms \ {txo}
          PROVE  Inv'
      BY <1>11, <2>1 DEF FlushUtxos
    <2>2. ASSUME NEW txo \in adds, flush.main = "adds", flush' = flush, rms' = rms,
                 db' = db \cup {txo}, adds' = adds \ {txo}
          PROVE  Inv'
      BY <1>11, <2>2 DEF FlushUtxos
    <2>3. ASSUME db' = db, rms' = rms, adds' = adds,
                 Enough \/ (IF flush.main = "rms" THEN rms ELSE adds) = {},
                 flush' = [flush EXCEPT !.main =
                    IF flush.main = "rms" /\ flush.doAdds = 1 THEN "adds" ELSE "done"]
          PROVE  Inv'
      BY <1>11, <2>3 DEF FlushUtxos, Enough
    <2> QED
      BY <1>11, <2>1, <2>2, <2>3 DEF FlushUtxos
  <1>12. CASE FlushShunspent
    <2>1. ASSUME NEW txo \in shunspentRms, flush.shunspent = "rms", flush' = flush,
                 shunspentAdds' = shunspentAdds,
                 sdb' = sdb \ {txo}, shunspentRms' = shunspentRms \ {txo}
          PROVE  Inv'
      BY <1>12, <2>1 DEF FlushShunspent
    <2>2. ASSUME NEW txo \in shunspentAdds, flush.shunspent = "adds", flush' = flush,
                 shunspentRms' = shunspentRms,
                 sdb' = sdb \cup {txo}, shunspentAdds' = shunspentAdds \ {txo}
          PROVE  Inv'
      BY <1>12, <2>2 DEF FlushShunspent
    <2>3. ASSUME sdb' = sdb, shunspentRms' = shunspentRms,
                 shunspentAdds' = shunspentAdds,
                 Enough \/ (IF flush.shunspent = "rms" THEN shunspentRms
                                                      ELSE shunspentAdds) = {},
                 flush' = [flush EXCEPT !.shunspent =
                    IF flush.shunspent = "rms" /\ flush.doShunspentAdds = 1
                    THEN "adds" ELSE "done"]
          PROVE  Inv'
      BY <1>12, <2>3 DEF FlushShunspent, Enough
    <2> QED
      BY <1>12, <2>1, <2>2, <2>3 DEF FlushShunspent
  <1>13. CASE Destroy
    <2>1. DoFlush(0) \in [target : Nat, doAdds : {0, 1}, doShunspentAdds : {0, 1},
                          main : {"rms", "adds", "done"},
                          shunspent : {"rms", "adds", "done"}]
      BY FlushType
    <2> QED
      BY <1>13, <2>1, FullFlush DEF Destroy
  <1>14. CASE EndFlush
    BY <1>14 DEF EndFlush, NoFlush
  <1>15. ASSUME NEW ins \in SUBSET TXOs, NEW outs \in SUBSET TXOs, Undo(ins, outs)
        PROVE  Inv'
    BY <1>15 DEF Undo, NoBlock
  <1>16. CASE UNCHANGED vars
    BY <1>16 DEF vars
  <1> QED
    BY <1>1, <1>2, <1>3, <1>4, <1>5, <1>6, <1>7, <1>8, <1>9, <1>10, <1>11, <1>12, <1>13, <1>14, <1>15, <1>16
       DEF Next, BlockStep, CacheStep

(***************************************************************************)
(* Inv is an invariant: what the cache and the databases hold together is, *)
(* after any interleaving of addBlock, the prefetcher and the flusher, the *)
(* set of unspent outputs.                                                 *)
(***************************************************************************)
THEOREM Invariance == Spec => []Inv
  <1>1. Init => Inv
    BY InitInv
  <1>2. Inv /\ [Next]_vars => Inv'
    BY NextInv
  <1> QED
    BY <1>1, <1>2, PTL DEF Spec

\* Queued additions and deletions, applied to the databases, yield the unspent
\* outputs at any moment, whatever was evicted or half flushed.
THEOREM ViewCorrect == Spec => []ViewIsUtxoSet
  <1>1. Inv => ViewIsUtxoSet
    BY DEF Inv
  <1> QED
    BY <1>1, Invariance, PTL

\* ~UTXOCache leaves complete databases to setInitialSync(false),
\* undoLatestBlock and gentlyCloseAllDBs.
THEOREM DestructorFlushesAll == Spec => []DatabasesCompleteWithoutCache
  <1>1. Inv => DatabasesCompleteWithoutCache
    BY DEF Inv, DatabasesCompleteWithoutCache, ViewIsUtxoSet
  <1> QED
    BY <1>1, Invariance, PTL

\* addBlock finds every input of a block that connects, in the cache or in
\* utxoset.
THEOREM InputsAreFound == Spec => []InputsFound
  <1>1. Inv => InputsFound
    BY DEF Inv
  <1> QED
    BY <1>1, Invariance, PTL

\* An empty cache takes up nothing, and three quarters of the limit are within it.
LEMMA EmptyWithinLimit ==
    /\ LET none == Cardinality({}) IN memUsageForSizes(none, none, none, none, none) <= Limit
    /\ (Limit * 3) \div 4 \in Nat /\ (Limit * 3) \div 4 <= Limit
    /\ Limit \in Nat
  <1>1. Cardinality({}) = 0
    BY FS_EmptySet
  <1>2. Limit \in Nat
    BY SizeAssumption
  <1>3. memUsageForSizes(0, 0, 0, 0, 0) = 0
    BY SizeAssumption DEF memUsageForSizes
  <1>4. (Limit * 3) \div 4 \in Nat /\ (Limit * 3) \div 4 <= Limit
    BY <1>2
  <1> QED
    BY <1>1, <1>2, <1>3, <1>4

\* Memory is counted in natural numbers.
LEMMA UsageType == TypeOK => memUsage \in Nat
  <1> SUFFICES ASSUME TypeOK PROVE memUsage \in Nat
    OBVIOUS
  <1>1. /\ IsFiniteSet(utxos) /\ IsFiniteSet(adds) /\ IsFiniteSet(rms)
        /\ IsFiniteSet(shunspentAdds) /\ IsFiniteSet(shunspentRms)
    BY SizeAssumption, FS_Subset DEF TypeOK
  <1>2. /\ Cardinality(utxos) \in Nat /\ Cardinality(adds) \in Nat
        /\ Cardinality(rms) \in Nat /\ Cardinality(shunspentAdds) \in Nat
        /\ Cardinality(shunspentRms) \in Nat
    BY <1>1, FS_CardinalityType
  <1>3. /\ EntrySize \in Nat /\ ItSetItemSize \in Nat /\ RmVecItemSize \in Nat
        /\ ShunspentTableNodeSize \in Nat /\ ShunspentRmVecNodeSize \in Nat
    BY SizeAssumption
  <1> QED
    BY <1>2, <1>3 DEF memUsage, memUsageForSizes

\* get() answers with unspent outputs only.
THEOREM NothingSpentIsCached == Spec => []CachedIsUnspent
  <1>1. Inv => CachedIsUnspent
    BY DEF Inv
  <1> QED
    BY <1>1, Invariance, PTL

(***************************************************************************)
(* The size of the cache is within options->utxoCache whenever addBlock    *)
(* has returned: limitSize goes on until three quarters of the limit are   *)
(* met, and whatever destroys the cache leaves nothing in it.              *)
(***************************************************************************)
THEOREM LimitKept == Spec => []WithinLimit
  <1>1. Init => WithinLimit
    BY EmptyWithinLimit DEF Init, WithinLimit, memUsage
  <1>2. ASSUME Inv, WithinLimit, [Next]_vars
        PROVE  WithinLimit'
    <2> SUFFICES ASSUME pc' = "idle"
                 PROVE  memUsage' <= Limit
      BY DEF WithinLimit
    <2>1. CASE pc = "idle" /\ UNCHANGED cacheVars
      <3>1. memUsage' = memUsage
        BY <2>1 DEF cacheVars, memUsage
      <3> QED
        BY <1>2, <2>1, <3>1 DEF WithinLimit
    <2>2. CASE LimitSize \/ EndBlock
      <3>1. memUsage' = memUsage
        BY <2>2 DEF LimitSize, EndBlock, cacheVars, memUsage
      <3>2. memUsage \in Nat
        BY <1>2, UsageType DEF Inv
      <3> QED
        BY <2>2, <3>1, <3>2, EmptyWithinLimit DEF LimitSize, EndBlock
    <2>3. CASE EndFlush
      <3>1. /\ utxos' = {} /\ adds' = {} /\ rms' = {}
            /\ shunspentAdds' = {} /\ shunspentRms' = {}
        BY <2>3 DEF EndFlush
      <3> QED
        BY <3>1, EmptyWithinLimit DEF memUsage
    <2>4. ASSUME NEW ins \in SUBSET TXOs, NEW outs \in SUBSET TXOs, Undo(ins, outs)
          PROVE  memUsage' <= Limit
      <3>1. /\ utxos' = {} /\ adds' = {} /\ rms' = {}
            /\ shunspentAdds' = {} /\ shunspentRms' = {}
        BY <1>2, <2>4 DEF Undo, Inv, cacheVars
      <3> QED
        BY <3>1, EmptyWithinLimit DEF memUsage
    <2>5. CASE SetInitialSync \/ (\E ins, outs \in SUBSET TXOs : StartBlock(ins, outs))
      BY <2>1, <2>5 DEF SetInitialSync, StartBlock
    <2>6. CASE UNCHANGED vars
      BY <2>1, <2>6 DEF vars
    <2>7. CASE Prefetch
      BY <1>2, <2>7 DEF Prefetch, Inv
    <2>8. CASE \/ Destroy \/ WaitForPrefetchToComplete \/ FlushUtxos \/ FlushShunspent
               \/ \E ins \in SUBSET TXOs : RejectBlock(ins)
               \/ \E txo \in TXOs : Put(txo) \/ Spend(txo) \/ Evict(txo)
      BY <2>8 DEF Destroy, WaitForPrefetchToComplete, FlushUtxos, FlushShunspent,
                  RejectBlock, Put, Spend, Evict
    <2> QED
      BY <1>2, <2>2, <2>3, <2>4, <2>5, <2>6, <2>7, <2>8 DEF Next, BlockStep, CacheStep
  <1> QED
    BY <1>1, <1>2, Invariance, PTL DEF Spec

=============================================================================
