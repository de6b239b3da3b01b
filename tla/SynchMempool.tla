---------------------------- MODULE SynchMempool ----------------------------
(***************************************************************************)
(* How the mempool follows that of bitcoind: the SynchMempoolTask of       *)
(* Controller.cpp, one step per message or lock, with the blocks that      *)
(* Storage::addBlock and undoLatestBlock take from and return to the       *)
(* mempool, while bitcoind accepts, replaces, evicts and mines             *)
(* transactions and reorganizes its chain.  Servers are running:           *)
(* masterNotifySubsFlag is set.                                            *)
(*                                                                         *)
(* A block is the set of its transactions but the coinbase.                *)
(***************************************************************************)
EXTENDS Mempool

CONSTANTS
    Genesis,             \* the transaction that makes the first coins
    kRedoCtMax,          \* SynchMempoolTask::kRedoCtMax
    kFailedDownloadMax,  \* SynchMempoolTask::kFailedDownloadMax
    Overlap,             \* may blocks be processed while the task runs?
                         \*   (a set of answers, one is picked by Init)
    MaxNodeSteps,        \* bound: changes of bitcoind's chain and mempool
    MaxBlocks,           \* bound: length of bitcoind's chain
    MaxErrors            \* bound: error replies of bitcoind

VARIABLES
    nodeChain,    \* bitcoind's best chain, a sequence of blocks
    nodeMempool,  \* bitcoind's mempool
    nodeSteps,    \* changes bitcoind has made
    errors,       \* error replies bitcoind has given
    overlap,      \* the answer picked from Overlap
    chain,        \* the chain Storage holds
    mempool,      \* Storage's Mempool
    fixme,        \* an error that "should never happen" was logged
    task,         \* the SynchMempoolTask
    seen,         \* seen[sh]: what a client knows who asks when notified
    lost,         \* script hashes a failed addBlock changed without notice
    damaged       \* transactions of a batch that was not added whole

node == <<nodeChain, nodeMempool, nodeSteps>>
vars == <<node, errors, overlap, chain, mempool, fixme, task, seen, lost,
          damaged>>

NoTask == [pc |-> "none"]

Ins(t) == ToSet(Vin[t])

Confirmed(c) == {Genesis} \cup UNION ToSet(c)

SpentBy(S) == UNION {Ins(t) : t \in S \ {Genesis}}

\* The unspent outputs after the transactions of S.
Unspent(S) == {<<t, n>> : t \in S, n \in 1 .. 3} \cap
              ({txo \in TXO : txo[2] \in DOMAIN Vout[txo[1]]} \ SpentBy(S))

Conflicts(t, S) == {u \in S : Ins(u) \cap Ins(t) # {}}

\* The transactions of S that depend on those of R, and R itself.
Descendants(R, S) ==
    LET gen[i \in 0 .. Cardinality(Txs)] ==
            IF i = 0 THEN R
            ELSE gen[i - 1] \cup
                 {t \in S : \E txo \in Ins(t) : txo[1] \in gen[i - 1]}
    IN  gen[Cardinality(Txs)]

\* S can follow the confirmed transactions C: its inputs exist, unspent.
Valid(S, C) == /\ SpentBy(S) \subseteq Unspent(C) \cup
                                      {<<t, n>> : t \in S, n \in 1 .. 3}
               /\ \A t, u \in S : t # u => Ins(t) \cap Ins(u) = {}

-----------------------------------------------------------------------------
(* bitcoind *)

NodeChanges == /\ nodeSteps < MaxNodeSteps
               /\ nodeSteps' = nodeSteps + 1
               /\ UNCHANGED <<errors, overlap, chain, mempool, fixme, task,
                              seen, lost, damaged>>

\* A transaction arrives, perhaps in place of those it conflicts with.
NodeAccepts(t) ==
    LET gone == Descendants(Conflicts(t, nodeMempool), nodeMempool)
        rest == nodeMempool \ gone
    IN  /\ NodeChanges
        /\ t \notin nodeMempool \cup Confirmed(nodeChain)
        /\ Valid(rest \cup {t}, Confirmed(nodeChain))
        /\ nodeMempool' = rest \cup {t}
        /\ UNCHANGED nodeChain

\* The mempool is full, or a transaction has expired.
NodeEvicts(t) ==
    /\ NodeChanges
    /\ t \in nodeMempool
    /\ nodeMempool' = nodeMempool \ Descendants({t}, nodeMempool)
    /\ UNCHANGED nodeChain

NodeMines(S) ==
    /\ NodeChanges
    /\ Len(nodeChain) < MaxBlocks
    /\ Valid(S, Confirmed(nodeChain))
    /\ nodeChain' = Append(nodeChain, S)
    /\ nodeMempool' = nodeMempool \ S

\* The last block is replaced by another; its transactions come back.
NodeReorganizes(S) ==
    LET base == Front(nodeChain)
        back == (nodeMempool \cup Last(nodeChain)) \ S
    IN  /\ NodeChanges
        /\ nodeChain # <<>>
        /\ S # Last(nodeChain)
        /\ S \subseteq nodeMempool \cup Last(nodeChain)
        /\ Valid(S, Confirmed(base))
        /\ nodeChain' = Append(base, S)
        /\ nodeMempool' = back

NodeStep == \/ \E t \in Txs : NodeAccepts(t) \/ NodeEvicts(t)
            \/ \E S \in SUBSET nodeMempool : NodeMines(S)
            \/ \E S \in SUBSET Txs : NodeReorganizes(S)

-----------------------------------------------------------------------------
(* Notifications *)

\* The part of a script hash's history that is in the mempool m: the
\* transactions in order, each with the height -1 or 0.
History(m, sh) ==
    IF sh \notin DOMAIN m.hashXTxs THEN <<>>
    ELSE [i \in DOMAIN m.hashXTxs[sh] |->
            LET t == m.hashXTxs[sh][i]
            IN  <<t, t \in DOMAIN m.txs /\ m.txs[t].hasUnconfirmedParentTx>>]

\* enqueueNotifications(S): clients ask for the histories of S again.
Notify(S) ==
    /\ seen' = [sh \in HashX |-> IF sh \in S THEN History(mempool', sh)
                                             ELSE seen[sh]]
    /\ lost' = lost \ S

-----------------------------------------------------------------------------
(* Blocks *)

MayProcessBlocks == overlap \/ task.pc = "none"

TouchedBy(S) == UNION {Touches(t) : t \in S}

\* Storage::addBlock of the block that follows ours in bitcoind's chain.
AddBlock ==
    /\ MayProcessBlocks
    /\ Len(chain) < Len(nodeChain)
    /\ SubSeq(nodeChain, 1, Len(chain)) = chain
    /\ LET block == nodeChain[Len(chain) + 1]
           res == ConfirmedInBlock(mempool, block)
       IN  /\ chain' = Append(chain, block)
           /\ mempool' = res.m
           /\ fixme' = (fixme \/ res.fixme)
           /\ damaged' = damaged \cap DOMAIN res.m.txs
           /\ Notify(res.affected \cup TouchedBy(block))
    /\ UNCHANGED <<node, errors, overlap, task>>

\* Storage::undoLatestBlock applied to the mempool m: it is cleared, and all
\* its script hashes are notified with those of the block.
UndoLatestBlock(m) ==
    /\ chain' = Front(chain)
    /\ mempool' = Clear
    /\ damaged' = {}
    /\ Notify(DOMAIN m.hashXTxs \cup TouchedBy(Last(chain)))

\* bitcoind's block at our height is another: the Controller rewinds.
Undo ==
    /\ MayProcessBlocks
    /\ chain # <<>>
    /\ Len(chain) = Len(nodeChain)
    /\ chain # nodeChain
    /\ UndoLatestBlock(mempool)
    /\ UNCHANGED <<node, errors, overlap, fixme, task>>

(***************************************************************************)
(* addBlock of a block that does not connect to ours: the mempool has      *)
(* given up the block's transactions before the header is verified, and    *)
(* the exception discards what was to be notified.  The Controller         *)
(* rewinds at once.                                                        *)
(***************************************************************************)
AddBlockFails ==
    /\ MayProcessBlocks
    /\ chain # <<>>
    /\ Len(chain) < Len(nodeChain)
    /\ SubSeq(nodeChain, 1, Len(chain)) # chain
    /\ LET res == ConfirmedInBlock(mempool, nodeChain[Len(chain) + 1])
           changed == {sh \in HashX : History(res.m, sh)
                                        # History(mempool, sh)}
           told == DOMAIN res.m.hashXTxs \cup TouchedBy(Last(chain))
       IN  /\ chain' = Front(chain)
           /\ mempool' = Clear
           /\ damaged' = {}
           /\ fixme' = (fixme \/ res.fixme)
           /\ seen' = [sh \in HashX |-> IF sh \in told THEN <<>>
                                                       ELSE seen[sh]]
           /\ lost' = (lost \cup changed) \ told
    /\ UNCHANGED <<node, errors, overlap, task>>

-----------------------------------------------------------------------------
(* SynchMempoolTask *)

TaskOnly == UNCHANGED <<node, errors, overlap, chain, mempool, fixme, seen,
                        lost, damaged>>

Fresh(affected, redoCt) ==
    [pc |-> "list", txidList |-> {}, dropped |-> {}, needed |-> {},
     downloaded |-> {}, failed |-> {}, cache |-> {}, sizes |-> <<0, 0>>,
     chain0 |-> <<>>, affected |-> affected, redoCt |-> redoCt]

Ended == [task EXCEPT !.pc = "ended"]

\* The machine has the blocks it knows of and starts the task.
StartTask ==
    /\ task.pc = "none"
    /\ chain = nodeChain
    /\ task' = Fresh({}, 0)
    /\ TaskOnly

\* bitcoind's answer to getrawmempool.
NodeLists ==
    /\ task.pc = "list"
    /\ task' = [task EXCEPT !.pc = "listed", !.txidList = nodeMempool]
    /\ TaskOnly

\* bitcoind answers with an error or not at all.
RequestFails ==
    /\ task.pc \in {"list", "download"}
    /\ errors < MaxErrors
    /\ errors' = errors + 1
    /\ task' = Ended
    /\ UNCHANGED <<node, overlap, chain, mempool, fixme, seen, lost, damaged>>

\* A mutant for DroppedTxs: what bitcoind has dropped is kept.
DroppedTxsNone(txidList) == {}

\* What is ours and not in bitcoind's list has been dropped.
DroppedTxs(txidList) == DOMAIN mempool.txs \ txidList

\* What is in the list and not ours is to be downloaded.
NewTxs(txidList) == txidList \ DOMAIN mempool.txs

\* doGetRawMempool's handler, under the shared lock.
GotList ==
    LET dropped == DroppedTxs(task.txidList)
    IN  /\ task.pc = "listed"
        /\ task' = [task EXCEPT !.pc = IF dropped = {} THEN "download"
                                                       ELSE "drop",
                                !.dropped = dropped,
                                !.needed = NewTxs(task.txidList)]
        /\ TaskOnly

\* A mutant: clear() forgets what is to be notified.
RedoFromStartForgets(affected) ==
    IF task.redoCt + 1 > kRedoCtMax
    THEN [Fresh({}, task.redoCt + 1) EXCEPT !.pc = "ended"]
    ELSE Fresh({}, task.redoCt + 1)

\* redoFromStart: clear() keeps what is to be notified and the count.
RedoFromStart(affected) ==
    IF task.redoCt + 1 > kRedoCtMax
    THEN [Fresh(affected, task.redoCt + 1) EXCEPT !.pc = "ended"]
    ELSE Fresh(affected, task.redoCt + 1)

\* doGetRawMempool's handler, under the exclusive lock.  If dropTxs did not
\* remove as many transactions as were to be dropped, start again.
DropDropped ==
    LET res == DropTxs(mempool, task.dropped)
        affected == task.affected \cup res.affected
        droppedCt == Cardinality(DOMAIN mempool.txs) -
                     Cardinality(DOMAIN res.m.txs)
    IN  /\ task.pc = "drop"
        /\ mempool' = res.m
        /\ fixme' = (fixme \/ res.fixme)
        /\ damaged' = damaged \cap DOMAIN res.m.txs
        /\ task' = IF droppedCt # Cardinality(task.dropped)
                   THEN RedoFromStart(affected)
                   ELSE [task EXCEPT !.pc = "download",
                                     !.affected = affected]
        /\ UNCHANGED <<node, errors, overlap, chain, seen, lost>>

\* doDLNextTx: bitcoind, which has a transaction index, answers unless the
\* transaction is neither in its mempool nor confirmed.
DLNextTx(t) ==
    LET known == t \in nodeMempool \cup Confirmed(nodeChain)
        got == [task EXCEPT !.needed = @ \ {t},
                            !.downloaded = @ \cup {t}]
        missed == [task EXCEPT !.needed = @ \ {t}, !.failed = @ \cup {t}]
    IN  /\ task.pc = "download"
        /\ t \in task.needed
        /\ task' = IF known THEN got
                   ELSE IF /\ task.downloaded = {}
                           /\ Cardinality(missed.failed) > kFailedDownloadMax
                   THEN [missed EXCEPT !.pc = "ended"]
                   ELSE missed
        /\ TaskOnly

Sizes(m) == <<Cardinality(DOMAIN m.txs), Cardinality(DOMAIN m.hashXTxs)>>

\* processResults, under the shared lock: the confirmed outputs that the new
\* transactions spend are read from the database.
Precache ==
    LET wanted == {txo \in SpentBy(task.downloaded) :
                     txo[1] \notin DOMAIN mempool.txs \cup task.downloaded}
    IN  /\ task.pc = "download"
        /\ task.needed = {}
        /\ task' = [task EXCEPT !.pc = "add", !.sizes = Sizes(mempool),
                                !.cache = wanted \cap
                                          Unspent(Confirmed(chain)),
                                !.chain0 = chain]
        /\ TaskOnly

\* processResults, under the exclusive lock: if the mempool has the sizes it
\* had, the new transactions are added; an exception ends the task.
AddNew ==
    /\ task.pc = "add"
    /\ IF Sizes(mempool) # task.sizes
       THEN task' = Ended /\ UNCHANGED <<mempool, damaged>>
       ELSE \E order \in SetToSeqs(task.downloaded) :
                 LET res == AddNewTxs(mempool, order, task.cache,
                                      task.affected)
                     whole == ~res.thrown /\ chain = task.chain0
                 IN  /\ mempool' = res.m
                     /\ task' = [Ended EXCEPT !.affected = res.affected]
                     /\ damaged' = IF whole THEN damaged
                                   ELSE damaged \cup task.downloaded
    /\ UNCHANGED <<node, errors, overlap, chain, fixme, seen, lost>>

\* The Controller removes the task, whose destructor notifies.
DestroyTask ==
    /\ task.pc = "ended"
    /\ task' = NoTask
    /\ UNCHANGED <<node, errors, overlap, chain, mempool, fixme, damaged>>
    /\ Notify(task.affected)

TaskStep == \/ StartTask \/ NodeLists \/ GotList \/ DropDropped
            \/ \E t \in Txs : DLNextTx(t)
            \/ Precache \/ AddNew \/ DestroyTask

BlockStep == AddBlock \/ Undo \/ AddBlockFails

Init == /\ nodeChain = <<>>
        /\ nodeMempool = {}
        /\ nodeSteps = 0
        /\ errors = 0
        /\ overlap \in Overlap
        /\ chain = <<>>
        /\ mempool = Clear
        /\ fixme = FALSE
        /\ task = NoTask
        /\ seen = [sh \in HashX |-> <<>>]
        /\ lost = {}
        /\ damaged = {}

Next == NodeStep \/ TaskStep \/ RequestFails \/ BlockStep

Spec == Init /\ [][Next]_vars

(***************************************************************************)
(* bitcoind answers, the poll timer starts the next task, and the threads  *)
(* run: weak fairness of TaskStep and of BlockStep, with the conditions    *)
(* under which they are enabled written out (every TaskStep changes task,  *)
(* every BlockStep the chain).                                             *)
(***************************************************************************)
TaskReady == task.pc # "none" \/ chain = nodeChain

BlockReady == MayProcessBlocks /\ chain # nodeChain

Fairness == /\ []<>~TaskReady \/ []<><<task' # task>>_task
            /\ []<>~BlockReady \/ []<><<chain' # chain>>_chain

FairSpec == Spec /\ Fairness

-----------------------------------------------------------------------------

\* The variables have their types; the new transactions are never already in
\* the mempool, which addNewTxs demands of its caller.
TypeOK ==
    /\ nodeMempool \subseteq Txs
    /\ damaged \subseteq DOMAIN mempool.txs
    /\ DOMAIN mempool.txs \subseteq Txs
    /\ DOMAIN mempool.hashXTxs \subseteq HashX
    /\ lost \subseteq HashX
    /\ task.pc \in {"none", "list", "listed", "drop", "download", "add",
                    "ended"}
    /\ task.pc \in {"drop", "download", "add"} =>
          /\ (task.needed \cup task.downloaded) \cap DOMAIN mempool.txs = {}
          /\ task.redoCt \in 0 .. kRedoCtMax

(***************************************************************************)
(* Whatever was added, dropped, confirmed and cleared before, the mempool  *)
(* is what its transactions determine: the outputs nobody in it spends,    *)
(* the spends sorted into confirmed and unconfirmed, the vectors per       *)
(* script hash complete, in order and without duplicates.  Only a batch    *)
(* that addNewTxs left half-added, or one whose database reads a block     *)
(* has overtaken, disturbs this, and only until its transactions are gone. *)
(***************************************************************************)
IndexedUnlessDamaged == damaged = {} => Indexed(mempool)

(***************************************************************************)
(* None of the errors marked "FIXME" in dropTxs and rmTxsInHashXTxs is     *)
(* ever logged, not even after a batch was left half-added.                *)
(***************************************************************************)
NoFixme == ~fixme

(***************************************************************************)
(* If the mempool part of a script hash's history is not what a client     *)
(* saw when it was last notified, the running SynchMempoolTask will notify *)
(* it from its destructor, however the task ends and however often it has  *)
(* started again; unless a failed addBlock has dropped the notification.   *)
(***************************************************************************)
ChangesAreNotified ==
    \A sh \in HashX :
        History(mempool, sh) # seen[sh] =>
            \/ task.pc # "none" /\ sh \in task.affected
            \/ sh \in lost

(***************************************************************************)
(* What Mempool.h says of hashXTxs: the vectors hold each transaction once *)
(* and in the order of TxRefOrdering.                                      *)
(***************************************************************************)
HashXTxsOrdered ==
    \A sh \in DOMAIN mempool.hashXTxs :
        LET vec == mempool.hashXTxs[sh]
        IN  \A i, j \in DOMAIN vec :
                i < j => Before(mempool, vec[i], vec[j])

(***************************************************************************)
(* Once bitcoind's chain and mempool stay as they are, the mempool comes   *)
(* to hold the same transactions as bitcoind's, and keeps them, in spite   *)
(* of restarts, errors and half-added batches.                             *)
(***************************************************************************)
Converges == <>[](DOMAIN mempool.txs = nodeMempool)

=============================================================================
