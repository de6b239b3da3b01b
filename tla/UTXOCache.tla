----------------------------- MODULE UTXOCache -----------------------------
(***************************************************************************)
(* Storage::UTXOCache (Storage.cpp), which --fast-sync puts between         *)
(* addBlock and the utxoset and scripthash_unspent databases, and how      *)
(* addBlock, undoLatestBlock and setInitialSync use it.                    *)
(*                                                                         *)
(* Three threads take part: the one that adds blocks, the prefetcher, and  *)
(* the flusher of scripthash_unspent.  An unspent output stands for its    *)
(* TXO, its TXOInfo and its key in scripthash_unspent.  The order in which *)
(* entries are evicted and written (oldest first, or that of a hash table) *)
(* is left open.  A write is done when it enters its rocksdb batch, since  *)
(* nobody reads the databases before the batch is committed.               *)
(*                                                                         *)
(* A process that is killed while the cache is in use loses what is in it, *)
(* as the documentation of fast-sync says; that is not modelled.           *)
(***************************************************************************)
EXTENDS Integers, FiniteSets

CONSTANTS
    TXOs,                    \* the outputs of transactions
    EntrySize, ItSetItemSize, RmVecItemSize,          \* the memory that one
    ShunspentTableNodeSize, ShunspentRmVecNodeSize,   \*   entry takes up
    Limit                    \* options->utxoCache

ASSUME SizeAssumption ==
    /\ IsFiniteSet(TXOs)
    /\ {EntrySize, ItSetItemSize, RmVecItemSize,
        ShunspentTableNodeSize, ShunspentRmVecNodeSize, Limit} \subseteq Nat \ {0}

VARIABLES
    utxo,            \* (ghost) the unspent outputs of the blocks added so far
    spent,           \* (ghost) the outputs spent since the last undo
    db, sdb,         \* the keys in the databases utxoset, scripthash_unspent
    status,          \* "off", "on" (there is a cache), or "closing", "undoing":
                     \*   its destructor runs
    utxos,           \* the entries of the cache (utxos and ordering)
    adds, rms,       \* not yet added to, not yet deleted from utxoset
    shunspentAdds, shunspentRms,   \* the same for scripthash_unspent
    deferredAdds,    \* put() while the prefetcher was active
    misses,          \* 1 if cacheMisses > 0
    prefetcher,      \* prefetcherFut: "none", "running", "done" or "failed"
    pc,              \* where the thread that adds blocks is
    block,           \* the inputs and outputs it has still to process
    flush            \* the parameters of do_flush, and how far it has come

cacheVars == <<utxos, adds, rms, shunspentAdds, shunspentRms, deferredAdds>>
vars == <<utxo, spent, db, sdb, status, cacheVars, misses, prefetcher, pc,
          block, flush>>

NoBlock == [ins |-> {}, outs |-> {}]
NoFlush == [target |-> 0, doAdds |-> 0, doShunspentAdds |-> 0,
            main |-> "done", shunspent |-> "done"]

Init == /\ utxo = {} /\ spent = {}
        /\ db = {} /\ sdb = {}
        /\ status = "off"
        /\ utxos = {} /\ adds = {} /\ rms = {}
        /\ shunspentAdds = {} /\ shunspentRms = {} /\ deferredAdds = {}
        /\ misses = 0
        /\ prefetcher = "none"
        /\ pc = "idle"
        /\ block = NoBlock
        /\ flush = NoFlush

memUsageForSizes(us, as, rs, sas, srs) ==
    us * EntrySize + as * ItSetItemSize + rs * RmVecItemSize
    + sas * ShunspentTableNodeSize + srs * ShunspentRmVecNodeSize

memUsage == memUsageForSizes(Cardinality(utxos), Cardinality(adds),
                             Cardinality(rms), Cardinality(shunspentAdds),
                             Cardinality(shunspentRms))

-----------------------------------------------------------------------------

\* setInitialSync(true)
SetInitialSync ==
    /\ pc = "idle" /\ status = "off"
    /\ status' = "on"
    /\ misses' = 0
    /\ UNCHANGED <<utxo, spent, db, sdb, cacheVars, prefetcher, pc, block, flush>>

\* addBlock starts the prefetcher for the inputs of the block
StartPrefetch == prefetcher' = IF misses = 1 THEN "running" ELSE "none"

(***************************************************************************)
(* addBlock of a block that connects.  Without a cache its updates go to   *)
(* the databases directly (UTXOBatch, issueUpdates).  No block creates an  *)
(* output again that was created before, unless that was undone.           *)
(***************************************************************************)
StartBlock(ins, outs) ==
    /\ pc = "idle"
    /\ ins \subseteq utxo
    /\ outs \cap (utxo \cup spent) = {}
    /\ IF status = "on"
       THEN /\ StartPrefetch
            /\ pc' = "outputs"
            /\ block' = [ins |-> ins, outs |-> outs]
            /\ UNCHANGED <<utxo, spent, db, sdb>>
       ELSE /\ utxo' = (utxo \ ins) \cup outs
            /\ spent' = spent \cup ins
            /\ db' = (db \ ins) \cup outs
            /\ sdb' = (sdb \ ins) \cup outs
            /\ UNCHANGED <<prefetcher, pc, block>>
    /\ UNCHANGED <<status, cacheVars, misses, flush>>

\* addBlock of a block of another branch: the prefetcher is started, then
\* the header does not verify.
RejectBlock(ins) ==
    /\ pc = "idle"
    /\ IF status = "on" THEN StartPrefetch ELSE UNCHANGED prefetcher
    /\ pc' = "rejected"
    /\ block' = [ins |-> ins, outs |-> {}]
    /\ UNCHANGED <<utxo, spent, db, sdb, status, cacheVars, misses, flush>>

\* do_prefetch's work: the inputs that are not in the cache are read and
\* added, up to the first one that is not in the database either.
Prefetch ==
    /\ prefetcher = "running"
    /\ LET keys == block.ins \ utxos IN
       IF keys \subseteq db
       THEN prefetcher' = "done" /\ utxos' = utxos \cup keys
       ELSE /\ prefetcher' = "failed"
            /\ \E read \in SUBSET (keys \cap db) : utxos' = utxos \cup read
    /\ UNCHANGED <<utxo, spent, db, sdb, status, adds, rms, shunspentAdds,
                   shunspentRms, deferredAdds, misses, pc, block, flush>>

\* UTXOBatch::add: put and putShunspent
Put(txo) ==
    /\ pc = "outputs" /\ txo \in block.outs
    /\ IF prefetcher # "none"
       THEN deferredAdds' = deferredAdds \cup {txo} /\ UNCHANGED <<utxos, adds>>
       ELSE /\ utxos' = utxos \cup {txo}
            /\ adds' = adds \cup {txo}
            /\ UNCHANGED deferredAdds
    /\ shunspentAdds' = shunspentAdds \cup {txo}
    /\ utxo' = utxo \cup {txo}
    /\ block' = [ins |-> block.ins, outs |-> block.outs \ {txo}]
    /\ UNCHANGED <<spent, db, sdb, status, rms, shunspentRms, misses,
                   prefetcher, pc, flush>>

\* waitForPrefetchToComplete (it throws if the prefetcher has thrown), then
\* addAllDeferred
WaitForPrefetchToComplete ==
    /\ pc = "outputs" /\ block.outs = {}
    /\ prefetcher # "running"
    /\ IF prefetcher = "failed"
       THEN pc' = "failed" /\ UNCHANGED <<utxos, adds, deferredAdds>>
       ELSE /\ utxos' = utxos \cup deferredAdds
            /\ adds' = adds \cup deferredAdds
            /\ deferredAdds' = {}
            /\ pc' = "inputs"
    /\ prefetcher' = "none"
    /\ UNCHANGED <<utxo, spent, db, sdb, status, rms, shunspentAdds,
                   shunspentRms, misses, block, flush>>

\* rm: what was never written needs no deletion.
rm(txo) ==
    /\ adds' = adds \ {txo}
    /\ utxos' = utxos \ {txo}
    /\ rms' = IF txo \in adds THEN rms ELSE rms \cup {txo}

rmShunspent(txo) ==
    /\ shunspentAdds' = shunspentAdds \ {txo}
    /\ shunspentRms' = IF txo \in shunspentAdds THEN shunspentRms
                                              ELSE shunspentRms \cup {txo}

\* A mutant for Spend: the database is not asked.
SpendFromCacheOnly(txo) ==
    /\ pc = "inputs" /\ txo \in block.ins
    /\ IF txo \in utxos
       THEN /\ rm(txo) /\ rmShunspent(txo)
            /\ utxo' = utxo \ {txo}
            /\ spent' = spent \cup {txo}
            /\ block' = [ins |-> block.ins \ {txo}, outs |-> {}]
            /\ UNCHANGED pc
       ELSE /\ pc' = "failed"
            /\ UNCHANGED <<adds, utxos, rms, shunspentAdds, shunspentRms,
                           utxo, spent, block>>
    /\ UNCHANGED <<db, sdb, status, deferredAdds, misses, prefetcher, flush>>

\* addBlock processes an input: get, else utxoGetFromDB, else it throws;
\* then UTXOBatch::remove: remove and removeShunspent.
Spend(txo) ==
    /\ pc = "inputs" /\ txo \in block.ins
    /\ misses' = IF txo \in utxos THEN misses ELSE 1
    /\ IF txo \in utxos \cup db
       THEN /\ rm(txo) /\ rmShunspent(txo)
            /\ utxo' = utxo \ {txo}
            /\ spent' = spent \cup {txo}
            /\ block' = [ins |-> block.ins \ {txo}, outs |-> {}]
            /\ UNCHANGED pc
       ELSE /\ pc' = "failed"
            /\ UNCHANGED <<adds, utxos, rms, shunspentAdds, shunspentRms,
                           utxo, spent, block>>
    /\ UNCHANGED <<db, sdb, status, deferredAdds, prefetcher, flush>>

\* A mutant for EndBlock: the size is not checked.
EndBlockUnlimited ==
    /\ pc = "inputs" /\ block.ins = {}
    /\ pc' = "idle"
    /\ UNCHANGED <<utxo, spent, db, sdb, status, cacheVars, misses,
                   prefetcher, block, flush>>

\* The end of addBlock: limitSize, if the cache has grown over the limit
EndBlock ==
    /\ pc = "inputs" /\ block.ins = {}
    /\ pc' = IF memUsage > Limit THEN "limit" ELSE "idle"
    /\ UNCHANGED <<utxo, spent, db, sdb, status, cacheVars, misses,
                   prefetcher, block, flush>>

-----------------------------------------------------------------------------

\* A mutant for DoFlush: additions stay in memory if they can.
DoFlushRmsOnly(target) ==
    LET Flag(b) == IF b THEN 1 ELSE 0
    IN [target |-> target, doAdds |-> Flag(target = 0),
        doShunspentAdds |-> Flag(target = 0), main |-> "rms", shunspent |-> "rms"]

\* What do_flush decides to write so that no more than target bytes are left
\* (0: everything).  Deletions come first, and scripthash_unspent is rather
\* written than utxoset.
DoFlush(target) ==
    LET us  == Cardinality(utxos)
        as  == Cardinality(adds)
        rs  == Cardinality(rms)
        sas == Cardinality(shunspentAdds)
        Fits(a, b, c, d) ==
            target > 0 /\ memUsageForSizes(us, a, b, c, d) <= target
        Flag(b) == IF b THEN 1 ELSE 0
        onlyShunspent == as + rs = 0 \/ Fits(as, rs, 0, 0)
        rmsSuffice == Fits(as, 0, sas, 0)
        doAdds == ~onlyShunspent /\ ~rmsSuffice
                  /\ (Fits(0, 0, sas, 0) \/ ~Fits(as, 0, 0, 0))
        doShunspentAdds == IF onlyShunspent THEN ~Fits(as, rs, sas, 0)
                           ELSE ~rmsSuffice /\ ~Fits(0, 0, sas, 0)
    IN [target |-> target,
        doAdds |-> Flag(doAdds),
        doShunspentAdds |-> Flag(doShunspentAdds),
        main |-> IF onlyShunspent THEN "done" ELSE "rms",
        shunspent |-> "rms"]

\* A mutant for Evict: any entry is evicted.
EvictAny(txo) ==
    /\ pc = "limit"
    /\ memUsage > (Limit * 3) \div 4
    /\ txo \in utxos
    /\ utxos' = utxos \ {txo}
    /\ adds' = adds \ {txo}
    /\ UNCHANGED <<utxo, spent, db, sdb, status, rms, shunspentAdds,
                   shunspentRms, deferredAdds, misses, prefetcher, pc, block,
                   flush>>

\* do_limitSize: an entry is evicted, if it is not to be added.
Evict(txo) ==
    /\ pc = "limit"
    /\ memUsage > (Limit * 3) \div 4
    /\ txo \in utxos \ adds
    /\ utxos' = utxos \ {txo}
    /\ UNCHANGED <<utxo, spent, db, sdb, status, adds, rms, shunspentAdds,
                   shunspentRms, deferredAdds, misses, prefetcher, pc, block,
                   flush>>

\* do_limitSize: when nothing is left to evict, do_flush; do_limitSize calls
\* itself again after that.
LimitSize ==
    /\ pc = "limit"
    /\ IF memUsage <= (Limit * 3) \div 4
       THEN pc' = "idle" /\ UNCHANGED flush
       ELSE /\ utxos \subseteq adds
            /\ pc' = "flush"
            /\ flush' = DoFlush((Limit * 3) \div 4)
    /\ UNCHANGED <<utxo, spent, db, sdb, status, cacheVars, misses, prefetcher,
                   block>>

\* The loops of a flush end early when enough has been written.
Enough == flush.target > 0 /\ memUsage <= flush.target

\* do_parallel_flush, in the thread that adds blocks
FlushUtxos ==
    /\ pc = "flush" /\ flush.main # "done"
    /\ \/ /\ flush.main = "rms" /\ ~Enough
          /\ \E txo \in rms : db' = db \ {txo} /\ rms' = rms \ {txo}
          /\ UNCHANGED <<adds, flush>>
       \/ /\ flush.main = "adds" /\ ~Enough
          /\ \E txo \in adds : db' = db \cup {txo} /\ adds' = adds \ {txo}
          /\ UNCHANGED <<rms, flush>>
       \/ /\ Enough \/ (IF flush.main = "rms" THEN rms ELSE adds) = {}
          /\ flush' = [flush EXCEPT !.main =
                IF flush.main = "rms" /\ flush.doAdds = 1 THEN "adds" ELSE "done"]
          /\ UNCHANGED <<db, rms, adds>>
    /\ UNCHANGED <<utxo, spent, sdb, status, utxos, shunspentAdds, shunspentRms,
                   deferredAdds, misses, prefetcher, pc, block>>

\* do_shunspent_flush, in the flusher's thread
FlushShunspent ==
    /\ pc = "flush" /\ flush.shunspent # "done"
    /\ \/ /\ flush.shunspent = "rms" /\ ~Enough
          /\ \E txo \in shunspentRms :
                sdb' = sdb \ {txo} /\ shunspentRms' = shunspentRms \ {txo}
          /\ UNCHANGED <<shunspentAdds, flush>>
       \/ /\ flush.shunspent = "adds" /\ ~Enough
          /\ \E txo \in shunspentAdds :
                sdb' = sdb \cup {txo} /\ shunspentAdds' = shunspentAdds \ {txo}
          /\ UNCHANGED <<shunspentRms, flush>>
       \/ /\ Enough \/ (IF flush.shunspent = "rms" THEN shunspentRms
                                                   ELSE shunspentAdds) = {}
          /\ flush' = [flush EXCEPT !.shunspent =
                IF flush.shunspent = "rms" /\ flush.doShunspentAdds = 1
                THEN "adds" ELSE "done"]
          /\ UNCHANGED <<sdb, shunspentRms, shunspentAdds>>
    /\ UNCHANGED <<utxo, spent, db, status, utxos, adds, rms, deferredAdds,
                   misses, prefetcher, pc, block>>

\* A mutant for Destroy: the cache is dropped without a flush.
DestroyNoFlush ==
    /\ pc \in {"idle", "rejected"} /\ status = "on"
    /\ prefetcher # "running"
    /\ status' = "off"
    /\ utxos' = {} /\ adds' = {} /\ rms' = {} /\ deferredAdds' = {}
    /\ shunspentAdds' = {} /\ shunspentRms' = {}
    /\ prefetcher' = "none"
    /\ UNCHANGED <<utxo, spent, db, sdb, misses, pc, block, flush>>

\* utxoCache.reset(), by setInitialSync(false), by gentlyCloseAllDBs, or by
\* undoLatestBlock: the destructor waits for the prefetcher and flushes.
Destroy ==
    /\ pc \in {"idle", "rejected"} /\ status = "on"
    /\ prefetcher # "running"
    /\ status' = IF pc = "rejected" THEN "undoing" ELSE "closing"
    /\ pc' = "flush"
    /\ flush' = DoFlush(0)
    /\ UNCHANGED <<utxo, spent, db, sdb, cacheVars, misses, prefetcher, block>>

(***************************************************************************)
(* The end of do_flush.  If the destructor has called it, the members are  *)
(* destroyed.  The destructor of prefetcherFut throws again what the       *)
(* prefetcher has thrown, out of unique_ptr::reset, which is noexcept.     *)
(***************************************************************************)
EndFlush ==
    /\ pc = "flush" /\ flush.main = "done" /\ flush.shunspent = "done"
    /\ flush' = NoFlush
    /\ IF status # "on"
       THEN /\ status' = "off"
            /\ utxos' = {} /\ adds' = {} /\ rms' = {} /\ deferredAdds' = {}
            /\ shunspentAdds' = {} /\ shunspentRms' = {}
            /\ prefetcher' = "none"
            /\ pc' = IF prefetcher = "failed" THEN "terminated"
                     ELSE IF status = "undoing" THEN "rejected" ELSE "idle"
       ELSE /\ pc' = "limit"
            /\ UNCHANGED <<status, cacheVars, prefetcher>>
    /\ UNCHANGED <<utxo, spent, db, sdb, misses, block>>

\* undoLatestBlock, once the cache is gone, writes to the databases.  Which
\* outputs it removes and restores is left open.
Undo(ins, outs) ==
    /\ pc = "rejected" /\ status = "off"
    /\ outs \subseteq utxo /\ ins \cap utxo = {}
    /\ utxo' = (utxo \ outs) \cup ins
    /\ spent' = {}
    /\ db' = (db \ outs) \cup ins
    /\ sdb' = (sdb \ outs) \cup ins
    /\ pc' = "idle"
    /\ block' = NoBlock
    /\ UNCHANGED <<status, cacheVars, misses, prefetcher, flush>>

BlockStep ==
    \/ \E ins, outs \in SUBSET TXOs : StartBlock(ins, outs) \/ Undo(ins, outs)
    \/ \E ins \in SUBSET TXOs : RejectBlock(ins)
    \/ SetInitialSync \/ Destroy

CacheStep ==
    \/ \E txo \in TXOs : Put(txo) \/ Spend(txo) \/ Evict(txo)
    \/ Prefetch \/ WaitForPrefetchToComplete \/ EndBlock
    \/ LimitSize \/ FlushUtxos \/ FlushShunspent \/ EndFlush

Next == BlockStep \/ CacheStep

Spec == Init /\ [][Next]_vars

(***************************************************************************)
(* The operations on the cache run to their end: they wait for nothing but *)
(* the prefetcher and the flusher.                                         *)
(***************************************************************************)
FairSpec == Spec /\ WF_vars(CacheStep)

-----------------------------------------------------------------------------

\* The variables have their types.
TypeOK ==
    /\ {utxo, spent, db, sdb, utxos, adds, rms, shunspentAdds, shunspentRms,
        deferredAdds} \subseteq SUBSET TXOs
    /\ status \in {"off", "on", "closing", "undoing"}
    /\ misses \in {0, 1}
    /\ prefetcher \in {"none", "running", "done", "failed"}
    /\ pc \in {"idle", "outputs", "inputs", "limit", "flush", "rejected",
               "failed", "terminated"}
    /\ block \in [ins : SUBSET TXOs, outs : SUBSET TXOs]
    /\ flush \in [target : Nat, doAdds : {0, 1}, doShunspentAdds : {0, 1},
                   main : {"rms", "adds", "done"},
                   shunspent : {"rms", "adds", "done"}]

(***************************************************************************)
(* What the databases hold and what is queued is, at any moment, what the  *)
(* databases would hold without the cache; also half-way through a block   *)
(* or a flush, whatever was evicted.                                       *)
(***************************************************************************)
ViewIsUtxoSet ==
    /\ (db \ rms) \cup adds \cup deferredAdds = utxo
    /\ (sdb \ shunspentRms) \cup shunspentAdds = utxo

\* Once the cache is gone, the databases hold exactly the unspent outputs.
DatabasesCompleteWithoutCache == status = "off" => db = utxo /\ sdb = utxo

\* The inputs of a block that connects are found, by the prefetcher and by
\* addBlock ("Failed to spend").
InputsFound == pc # "failed"

(***************************************************************************)
(* get() never answers with an output that is spent.  The prefetcher may   *)
(* read one, whose deletion is queued, for a block that is then rejected;  *)
(* the undo that follows throws the cache away.                            *)
(***************************************************************************)
CachedIsUnspent == pc \in {"idle", "outputs", "inputs", "limit"} => utxos \subseteq utxo

(***************************************************************************)
(* The inductive invariant.  Besides the above: what is queued to be added *)
(* is cached and not in the databases; only spent outputs are queued for   *)
(* deletion; the inputs of the block at hand are unspent and its outputs   *)
(* new; and a flush by the destructor leaves nothing behind, as far as it  *)
(* has come.                                                               *)
(***************************************************************************)
Inv ==
    /\ TypeOK
    /\ ViewIsUtxoSet
    /\ InputsFound
    /\ CachedIsUnspent
    /\ adds \subseteq utxos
    /\ (adds \cup deferredAdds) \cap db = {}
    /\ shunspentAdds \cap sdb = {}
    /\ utxo \cap spent = {}
    /\ rms \cup shunspentRms \subseteq spent
    /\ deferredAdds # {} => pc = "outputs"
    /\ pc \in {"outputs", "inputs"} =>
          /\ status = "on" /\ prefetcher # "failed"
          /\ block.ins \subseteq utxo /\ block.ins \cap deferredAdds = {}
          /\ block.outs \cap (utxo \cup spent) = {}
    /\ pc = "inputs" => block.outs = {}
    /\ pc \in {"idle", "inputs", "limit"} => prefetcher = "none"
    /\ pc = "limit" => status = "on"
    /\ pc = "flush" => status # "off"
    /\ pc = "flush" /\ status = "on" => prefetcher = "none" /\ utxos \subseteq utxo
    /\ status = "off" => /\ utxos = {} /\ rms = {} /\ prefetcher = "none"
                         /\ shunspentAdds = {} /\ shunspentRms = {}
    /\ status \in {"closing", "undoing"} =>
          /\ pc = "flush" /\ flush.target = 0
          /\ flush.main # "rms" => rms = {}
          /\ flush.main = "done" => adds = {}
          /\ flush.main # "done" => flush.doAdds = 1
          /\ flush.shunspent # "rms" => shunspentRms = {}
          /\ flush.shunspent = "done" => shunspentAdds = {}
          /\ flush.doShunspentAdds = 1

\* limitSize keeps its promise: between blocks, the cache is within its limit.
WithinLimit == pc = "idle" => memUsage <= Limit

\* limitSize and a flush come to an end.
FlushesEnd == pc \in {"limit", "flush"} ~> pc \notin {"limit", "flush"}

(***************************************************************************)
(* A block that does not connect is answered by undoing the latest block:  *)
(* "Caller will/should roll back the db state via issuing calls to         *)
(* undoLatestBlock()" (addBlock).                                          *)
(***************************************************************************)
RejectedBlockIsUndone == pc # "terminated"

=============================================================================
