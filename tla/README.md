# A TLA+ model of Fulcrum

Fulcrum is an Electrum server: it follows a bitcoind node, keeps an index of the
chain by script hash on disk and an index of the mempool in memory, and answers
and notifies wallets.  These modules model the parts of it in which several
steps, several threads or a crash can go wrong together.  All paths are relative
to the root of the repository; `Storage.cpp` stands for `src/src/Storage.cpp`.

## The system and the modules

    bitcoind <-> BitcoinD connections <-> BitcoinDMgr      BitcoinDMgr
                                             |
                                        Controller         Controller
                  download tasks  ------/    |   \------ SynchMempoolTask
                  DownloadBlocks             |            SynchMempool, Mempool
                                          Storage          Storage, ChainStore
            RecordFile  UTXOCache  txhash caches  SubsMgr
            RecordFile  UTXOCache  TxHashCache    SubsMgr

| Module | Code | State and actions |
|---|---|---|
| `Storage` | `Storage.cpp` addBlock, undoLatestBlock, startup, TxHash2TxNumMgr; `BlockProc.cpp` | The seven databases and two record files as functions, sets and sequences; one action per write, in the order of the code; the worker thread of the txhash index; `Kill` between any two writes; `Startup` and the loads and checks it makes. |
| `ChainStore` | the interface of Storage | The chain and the undo records, changed in one step by a block added or undone. |
| `StorageRefinement` | - | The refinement mapping from Storage to ChainStore. |
| `Controller` | `Controller.cpp` process(), its tasks' replies, polls, zmq, connection signals | The StateMachine object, the tasks that may outlive it, the event queue (`again`, timers), ChainStore as its storage, and the signals to the servers. |
| `DownloadBlocks` | `Controller.cpp` DownloadBlocksTask, on_putBlock, process_DownloadingBlocks | The event queue of each task, what it has posted, the throttle, the blocks that wait for their turn. |
| `Mempool` | `Mempool.cpp` | The tables `txs` and `hashXTxs` as a record; addNewTxs, dropTxs, confirmedInBlock and clear as operators on it. |
| `SynchMempool` | `Controller.cpp` SynchMempoolTask; the mempool parts of addBlock and undoLatestBlock | Every step of the task between two locks or two requests, against a bitcoind that accepts, replaces, evicts, mines and reorganizes at any time; the history each subscriber saw last. |
| `TxHashCache` | `Storage.cpp` hashForTxNum, hashForHeightAndPos, txHashesForBlockInBitcoindMemoryOrder, getHistory; `CostCache.h` | One step per lock of each server thread, against addBlock and undoLatestBlock. |
| `UTXOCache` | `Storage.cpp` UTXOCache, its calls in addBlock and undoLatestBlock; `CoTask.h` | The entries, the pending additions and deletions of both databases, the prefetcher's thread, the two threads of a flush. |
| `RecordFile`, `RecordStore` | `RecordFile.cpp` | The file on disk, QFile's buffer, the count in the header, a kill at any point; and the atomic array that Storage takes the file to be. |
| `BitcoinDMgr` | `BitcoinD.cpp`, `RPC.cpp`, `AbstractConnection.cpp` | The flags of each connection, its and the manager's event queues, the request table with its weak references, the owners of a request's context, the set of good connections, the Controller's `lostConn`. |
| `SubsMgr` | `SubsMgr.cpp`, the subscribe handlers of `Servers.cpp`, `Mixins.cpp` | The table, the Subscription objects, each client's requests, thread pool jobs and inbox, the notification timer, the counts. One step per critical section. |

Modules whose names begin with `MC` give the constants their values for TLC.
`StorageInv` holds Storage's inductive invariant; `StorageLemmas`,
`StorageAddProofs`, `StorageUndoProofs`, `StorageProofs`, `RecordFileProofs`,
`UTXOCacheProofs`, `BitcoinDMgrProofs` and `DownloadBlocksProofs` hold proofs.

How they compose.  Storage implements ChainStore, and the Controller module is
composed with ChainStore, so that what holds of the Controller there holds of it
on top of Storage.  RecordFile implements RecordStore, which is what Storage
assumes of its two files.  UTXOCache shows that with the cache on, databases plus
cache are what Storage writes directly.  BitcoinDMgr shows what DownloadBlocks,
SynchMempool and Controller assume of a request: that it is answered, failed or
timed out, once; and of the connection signals.  SynchMempool enqueues the
notifications that SubsMgr delivers.

## The runs

Each run is a `.cfg` file; run e.g. `tlc -config Storage.cfg MCStorage`.

| Run | Distinct states | What it shows |
|---|---|---|
| `storage` | 9,411 | A process killed between any two writes leaves a database that is consistent or marked dirty (`CleanIndexMatchesChain`); a clean one passes all checks of startup (`CleanDatabaseLoads`); none of the internal errors can occur (`NoInternalError`); every transaction is found by its hash although addBlock clears the dirty flag before the index worker is done (`TxHashIndexComplete`); Storage implements ChainStore. `IInv` is the invariant the proofs rest on. |
| `controller` | 1,019,345 | The state machine always has an event to go on with (`NeverStuck`), hands Storage the height after its tip (`NextFollowsTip`), follows every synchronizing() by upToDate() if undisturbed, and after a synch the blocks within reach of a reorganization have undo info (`RecentBlocksUndoable`). "Failed to rewind" ends the program only at a block that is the undo depth or more below the best height bitcoind ever reported (`RewindsWithinDepth`). Stale tasks of earlier machines, a failure, a restart, blocks added with undo info suppressed and a reorganization that undoes such blocks occur. bitcoind has no zmq here. |
| `controller_live` | 299,996 | Storage comes to hold bitcoind's chain, with or without zmq, unless a rewind was fatal (`Converges`); without zmq and failures the tip is announced (`EventuallyAnnounced`). |
| `download_blocks` | 37,245 | Each height not yet in Storage is at exactly one place (`NoHeightLost`), tasks neither stall nor exceed `max_q`, the backlog is bounded by the throttle, and the download completes. |
| `synch_mempool` | 242,320 | The mempool's tables are the index of its transactions unless a batch was damaged (see below); none of the "FIXME" errors is logged; a change of a history is notified in spite of redo, failure and restart of tasks, unless a failed addBlock discards it; the mempool converges to bitcoind's. |
| `mempool_half` | violation | The order of the vectors that `Mempool.h` promises is lost when addNewTxs throws. |
| `txhash_cache` | 1,097,781 | Only a request that an undo overlaps can leave a stale entry in a cache; getHistory is consistent. |
| `txhash_cache_stale` | violation | Such a request does leave one, since its lock guard is a temporary. |
| `utxo_cache` | 411,464 | Cache and databases together are the UTXO set at every moment; inputs are found; the limit is kept; partial flushes end; without a cache the databases are complete. |
| `record_file` | 1,580 | Readers find all records whenever the lock is free and no write has failed; a file that is accepted after a kill holds the records of the completed operations, else it is refused. |
| `bitcoind_mgr` | 213,265 | The sender of a request gets exactly one answer, even if reply, time-out, lost connection and the sender's deletion cross; no dead entry stays in the table, except for requests that BitcoinDMgr sent for itself and that failed; the Controller learns of the first good connection and of the loss of the last. |
| `subs` | 1,317,232 | A subscriber whose request had been answered hears the last change of its key (`SubscribersHearChanges`), unless it was put into a Subscription that had just left the table, or the key returned to the status last notified after the client's answer had crossed a change. The count of active subscriptions exceeds the subscriptions there are only by those whose Subscription was deleted under them (`ActiveCountMatches`). The counts per client and per address exceed them only by those lost in that way or by the expiry of a double-spend proof, and without these respect the limit (`PerIPCountMatches`). |

### Bounds, and why they suffice

* `storage`: two branches of three blocks above the genesis block, depths 1 to 3
  of `max_reorg`: every block is added and undone on top of another, undo records
  expire, the earliest one is undone, two transactions share a key of the txhash
  index, a transaction spends an output of its own block, and a transaction is
  confirmed at different places in the two branches.
* `controller`: an undo depth of two, a branch of four blocks above the genesis
  block and a fork right above it, so that undo info is suppressed, suppressed
  blocks are undone and both ways to "Failed to rewind" are reached (a
  reorganization deeper than the undo depth, and a block of the old branch that a
  stale task delivers); one failure or restart, tasks left over from earlier
  machines (three tasks alive at a time).  `controller_live` has two changes of
  bitcoind's chain.
* `download_blocks`: seven heights for tasks that own unequal numbers of them, a
  backlog of two.
* `synch_mempool`: a parent, a child, a grandchild that spends from both, and a
  conflicting transaction, on two script hashes; five changes of bitcoind, two
  blocks, one error.  `kRedoCtMax` and `kFailedDownloadMax` are 1 instead of 5
  and 50, so that both are reached.
* `txhash_cache`: two threads, three hashes, two blocks of up to two
  transactions; caches of two entries, so that they evict.
* `utxo_cache`: four outputs; the sizes of a 64-bit build divided by eight; a
  limit that two entries exceed, so that eviction and each kind of partial flush
  occur.
* `record_file`: four records of two values.
* `bitcoind_mgr`: two connections, established twice in all, and one request, of
  another object or of BitcoinDMgr itself, enough for a request to outlive its
  connection and for a late reply, a stale signal and a time-out to cross.
* `subs`: a limit of two per address and of three in all, one key with two
  statuses, to which it may return, in three settings, each for script hashes and
  for double-spend proofs.  One client and three changes of status: notifications,
  answers and returns cross.  Two clients, two Subscription objects, a
  subscription with another manager, no changes: clients are stranded and race
  for the last subscription.  Two clients and one change.  Nobody subscribes any
  more once a subscription is lost (`MaxLost`).

The modules' type invariants (`TypeOK`) are part of the inductive invariants for
Storage, RecordFile and UTXOCache and are proved there; most of that of DownloadBlocks
is in its invariant (`Shape`).  Those of the other modules
hold on the same instances; they are documentation of the variables and not kept
among the properties of the runs.

Deadlock checking is off where the bounds make the system stop (no more changes,
failures or connects); elsewhere it is on.

### Fairness

Weak fairness is assumed of what an event loop, a timer or a running thread is
bound to do: a queued event is handled, an armed timer fires, a started job ends
(`RunAgain`, `Poll`, `ThrottleTimer`, `CacheStep`, `MgrStep`, `Handler`, ...).
bitcoind is assumed to answer in `Controller` and `DownloadBlocks`: for requests
that are not answered, BitcoinDMgr's time-out turns silence into a failure, and
these are bounded actions there.  In `BitcoinDMgr` nothing is assumed of the
network except that a connection that is not good is eventually reset by the
reconnect timer.  In `SynchMempool` the task and the block processing are each
assumed to go on as long as they can; the formula says that the task or the chain
changes again and again unless there is again and again nothing to do, which is
weaker to evaluate and implies nothing about bitcoind.

## The proofs

`tlapm` proves for all values of the constants (subject to the assumptions named
in the modules):

* **Storage** (`StorageProofs`; assumptions: `ConstantsAssumption`, which says
  that blocks have transactions, no transaction occurs twice in a block and the
  constants have their types).  `Invariance` proves `IInv`; from it follow
  `TypeCorrect`, `CleanIndex`, `NoFalseAlarm`, `NoInternalExceptions`,
  `TxHashComplete`, `UtxoCountCorrect` and `HistoriesSorted`.  `CleanIndexMatchesChain` is not
  inductive, since it says nothing of a dirty database.  The invariant
  says that in the middle of an operation the database lies between two indexes,
  that of the base chain and that of the base chain with the block `cur` on top,
  and that `pc` tells for each table which of the two it holds; addBlock walks
  from the first to the second and undoLatestBlock back.  A further part relates
  the worker to the txhash index, and another says that each undo record reverts
  its block.  There is one lemma per action; `StorageLemmas` has the facts about
  unspent outputs of a chain and what leaves parts of the invariant alone.
  `Refinement` proves that Storage implements ChainStore: under the mapping of
  `StorageRefinement` one write of addBlock and one of undoLatestBlock is the step
  of ChainStore, and every other write, kill and restart is a stutter.  It
  needs the invariant, since what a step does to the chain that the mapping shows
  depends on the tables the step does not touch.
* **RecordFile** (`RecordFileProofs`; `MaxRecsAssumption`).  `Invariance` proves
  `Inv`, which records how far each operation has come and what the header may
  say meanwhile; `ReadersCorrect` and `Refinement` (every step is a step of
  RecordStore or a stutter) follow from it.
* **UTXOCache** (`UTXOCacheProofs`; `SizeAssumption`).  `Inv` relates entries,
  pending changes, deferred additions, databases and the block in progress.
  `ViewCorrect` is not inductive alone: that a flush may write additions and
  deletions in any order needs that pending additions are not in the database
  and pending deletions are spent; that destruction leaves the databases complete
  needs that a flush without a target writes all (lemma `FullFlush`).
  `LimitKept` follows from what the flush and the eviction of limitSize leave.
* **BitcoinDMgr** (`BitcoinDMgrProofs`).  For any number of connections,
  reconnections and requests: `CallbackOnce`, `NoEntryLeaks` and
  `GoodConnectionsFound`.  `RequestInv` is the inductive invariant of the requests:
  a callback has been called only if the context is flagged as replied; a `submit`
  event is in the queue at most once, and until it is handled the request has no
  entry and no answer; while an entry is in the table only failures have been
  signalled to its sender, and the slot for `destroyed` is connected unless the
  sender is BitcoinDMgr and its handler has run; and `NoEntryLeftBehind` itself.
  The exception for BitcoinDMgr's own requests rests on this: only a handler
  disconnects the slot, and if the entry is still there it handled a failure.  That a
  step which drops contexts queues all these events needs that there are finitely
  many (`Submission`: only submitted requests have a context, and they are finitely
  many).  `GoodConnectionsKnown` is inductive relative to it: the queue never loses
  an `authenticated` event, a connection becomes good only by an authentication
  that is signalled, and a lostConnection that is handled when the connection is
  good again takes nothing out of `goodSet`.
* **DownloadBlocks** (`DownloadBlocksProofs`; `DownloadAssumption`: some heights,
  at least one task, `max_q` at least one).  `IInv` has three parts for each task.
  `CountOK` is the books: the gets begun, from the next height, are the blocks
  received, the gets under way and the gets failed, and those under way or queued
  are one (the first, which `q_ct` does not count) or as many as `q_ct` says,
  `max_q` or all that are left.  `PlacedOK` says that a height that is throttled,
  asked for, posted or put aside is at that place only, below the task's next
  height and with its owner; `CoveredOK` that none is missing.  `NearOK` bounds
  the backlog.  None is inductive without the others: that a task which posts
  its success has nothing left on the way to on_putBlock, so that the Controller may
  remove it, follows from the books and from the order of its posts
  (`SuccessLast`).  `EveryHeightSomewhere`, `TasksGoOn`, `QueueBounded` and
  `MemoryBounded` follow.  That every height has exactly one owner is arithmetic
  (lemma `Owner`).

The inductive invariants of BitcoinDMgr and DownloadBlocks were model-checked on
small instances before they were proved.

Only model-checked: liveness (outside this prover), and all properties of
Controller, SynchMempool, TxHashCache and SubsMgr.

## Disagreements between code and documentation

Kept as runs:

* `txhash_cache_stale`: `Storage.cpp:3541` and 3560 name no variable for the
  `SharedLockGuard`, which is released at once; the view is not consistent, and a
  stale hash may be cached after undoLatestBlock has cleared the caches.
* `mempool_half`: bitcoind may connect a block between getblockchaininfo and
  getrawmempool.  A mempool transaction whose parent is in that block has an
  input that is neither in our mempool nor in our database, so addNewTxs throws
  (`Mempool.cpp:199`) before it sorts.  The batch stays half-added: later tasks
  regard its transactions as known, so that spends are missing and vectors are
  unsorted until the transactions are dropped or confirmed, or a block is undone.
  The ghost variable `damaged` of SynchMempool names the transactions concerned.

Met while modelling, not kept as runs:

* A rejected block in the initial synch: addBlock starts the prefetcher before
  the header is verified.  If an input is missing the prefetcher throws, and the
  exception is rethrown by `~Future` (declared noexcept(false)) out of
  undoLatestBlock's `utxoCache.reset()`, which is noexcept: the process
  terminates instead of rewinding (`RejectedBlockIsUndone` in UTXOCache; the
  comment at `Storage.cpp:2973` expects a rollback).
* A failed addBlock discards the notifications for what confirmedInBlock has
  already removed (`Storage.cpp:2946`); the variable `lost` of SynchMempool.
* A download task of a machine that has failed may deliver a block of the old
  branch to the next machine, which adds it without undo info; a rewind from there
  is fatal (`Controller.cpp:1583` and 1673; the promise of `max_reorg` at
  `doc/fulcrum-example-config.conf:814`).  This happens in `controller`;
  `RewindsWithinDepth` says that the block is then the undo depth or more below
  the best height reported.
* The error of a task left by an earlier machine fails the present one, and the
  next starts a second SynchMempoolTask beside the first (`Controller.cpp:1258`);
  the comment at 897 supposes that nobody else adds.
* A zmq notification handled between the reset of a finished machine and the
  queued process() makes the next machine silent: no upToDate (`Controller.h:90`,
  `Controller.cpp:1443`).  Likewise after a restart or failure the poll's
  process(true) is silent, so that newHeader may wait for the next block.
* A program that falls more than the undo depth behind leaves a hole in the undo
  heights, which `Storage.cpp:2712` calls impossible.
* SubsMgr: zombie removal between the two critical sections of subscribe() puts
  a client into a Subscription outside the table (`SubsMgr.cpp:324`).  It hears
  nothing, cannot unsubscribe, and stays counted: the history variables
  `stranded`, `lost` and `uncounted`.  A client that the double-spend-proof manager
  unsubscribes on its own stays counted, too (`SubsMgr.cpp:388`; `uncounted`).  A
  status that changes and changes back may be suppressed as a duplicate though a
  client was answered the one in between (`SubsMgr.cpp:194`; `crossed` and
  `Returns`).  A job may cache a status that is out of date after its notification
  was skipped, and later subscribers are answered it (`SubsMgr.cpp:416`; no property
  is about what an answer contains).  The global limit is checked outside the lock, so that it
  may be exceeded by the number of server threads less one (`SubsMgr.cpp:288`).
* BitcoinDMgr: the handlers of a request end with
  `context->disconnect(nullptr, sender)` (`BitcoinD.cpp:619`).  If the sender is
  BitcoinDMgr itself (`BitcoinD.cpp:255` and four more requests), this
  also disconnects the slot of line 653 that would remove the entry from the
  table; after a failure the entry, a weak reference, stays until a late reply
  with the same id (the third disjunct of `NoEntryLeftBehind`).
* Dead code: retryRecommended and on_error_retry are never used, and the second
  branch of the throttle (`Controller.cpp:1192`) cannot be reached.

## What is abstracted

Hashes, scripts and blocks are model values.

* Storage: the header verifier checks only the previous hash; database errors,
  tokens and reusable payment addresses are left out.  Some loops of writes are one
  step, since after a kill inside them startup refuses the database or does the
  rest: the writes per script hash of an undo (the database is marked dirty
  throughout), the batches in which the txhash index is rebuilt (`Storage.cpp:895`;
  the number of the last transaction does not match until the last batch, so it is
  rebuilt again), the deletions by loadCheckEarliestUndo (2683; the rest
  is deleted at the next start).  The count of the UTXO set that `--checkdb` makes
  is left out: startup is modelled as it is without the option.
* Controller: the mempool task is its outcome only, a kill inside an operation is
  ChainStore's matter.
* DownloadBlocks: a block that does not deserialize is fatal and not modelled.
* Mempool and SynchMempool: one task at a time, `masterNotifySubsFlag` set, no
  fees, no double-spend proofs, no set of ignored transactions.  Two internal
  errors of addNewTxs (`Mempool.cpp:140-150`), which guard against a table that
  contradicts itself, are left out.
* RecordFile: after a failed flush the lock is released with the record counted in
  memory, so that readers may ask for it in vain until the program quits; what it
  still does is not modelled.  A truncate that fails is not modelled.
* UTXOCache: no kill, after which the configuration's documentation promises
  nothing (`fast-sync`), and no duplicate outputs from before BIP34.
* BitcoinDMgr: unique request ids (the documented contract), no limit on unanswered
  requests, no shutdown, any good client instead of round robin.  A request to a
  connection that is down also disconnects it in the code (do_disconnect), which
  changes nothing then.  A lostConnection that is handled after the next connection
  is up may fail a request of the new connection; the sender still gets one answer.
  Connections are plain ones.  With `--bitcoind-tls` on_connected runs when the
  handshake is done, other events may be handled in between, and a handshake that
  fails signals no lostConnection: `GoodConnectionsKnown`, `LearnsOfConnection` and
  `LearnsOfLoss` say nothing of that.
* SubsMgr: the transient increments of a request that is denied are one step.  The
  statuses of the transaction manager (block heights) and white-listed addresses are
  left out; subscriptions with other managers appear in the counts only.

## Not modelled

* Double-spend proofs and their task, the peer manager, WebSocket framing, the
  HTTP and JSON layers and batches: sequential code per connection, or tables of
  one thread.
* The request handlers other than subscribe and unsubscribe: queries.
* Merkle trees, Bloom filter, encodings, scripts and addresses: functions on bytes,
  beyond a small instance, and covered by unit tests.
* Thread pool, ZeroMQ subscriber, application, options and logging: wrappers of
  libraries; their effect appears as events at any time.
* Vendored code (most of the lines under `src/`): Bitcoin Cash Node, RocksDB and
  ZeroMQ headers, simdjson, robin_hood.  It is not Fulcrum's.
