----------------------------- MODULE Controller -----------------------------
(***************************************************************************)
(* Class Controller (Controller.cpp): the state machine that follows       *)
(* bitcoind.  One thread runs the handlers below, one at a time: process() *)
(* queued by AGAIN or by a timer, the replies of its tasks and on_putBlock.*)
(* Each task runs in a thread of its own and a bitcoind call takes any     *)
(* time, so a download task outlives the StateMachine object that started  *)
(* it: only cleanup() stops tasks from outside.                            *)
(*                                                                         *)
(* Storage is what module ChainStore says it is, and a kill in the middle *)
(* of one of its operations is left to that module.  bitcoind is the       *)
(* active chain its RPC calls see.  Time is abstracted: a timer that is    *)
(* armed fires sooner or later.                                            *)
(***************************************************************************)
EXTENDS Integers, Sequences, FiniteSets

CONSTANTS
  Block, NoBlock,
  Prev,               \* [Block -> Block \cup {NoBlock}]: hashPrevBlock
  Genesis,
  DL_CONCURRENCY,     \* download tasks per StateMachine
  MaxQ,               \* max_q: requests a download task may have in flight
  Depth,              \* configuredUndoDepth()
  MaxTasks,           \* bound: tasks alive at once
  MaxChanges,         \* bound: changes of bitcoind's active chain
  MaxReorg,           \* bound: blocks bitcoind disconnects in one change, ...
  MaxBranch,          \* ... and then connects, if it disconnects any
  MaxFailures,        \* bound: failed calls, lost connections and restarts
  InIBD,              \* whether bitcoind starts in initial block download
  ZmqAvailable,       \* what ZmqSubNotifier::isAvailable() may be
  InvalidUndoHeight   \* above every height

ASSUME ControllerAssumption ==
  /\ NoBlock \notin Block /\ Genesis \in Block
  /\ Prev \in [Block -> Block \cup {NoBlock}] /\ Prev[Genesis] = NoBlock
  /\ DL_CONCURRENCY \in Nat \ {0} /\ MaxQ \in Nat \ {0} /\ Depth \in Nat \ {0}
  /\ ZmqAvailable \subseteq BOOLEAN /\ InIBD \subseteq BOOLEAN
  /\ MaxTasks \in Nat \ {0}
  /\ {MaxChanges, MaxReorg, MaxBranch, MaxFailures, InvalidUndoHeight} \subseteq Nat

VARIABLES
  \* bitcoind
  best,               \* its active chain
  ibd,                \* initialblockdownload
  zmq,                \* it sends zmq notifications
  conn,               \* some connection to it is good (~ lostConn)
  changes, failures,  \* bounds on the environment
  \* Storage
  db,                 \* the chain of the headers file
  undos,              \* the heights that have undo info, and earliestUndoHeight
  \* Controller
  sm,                 \* the StateMachine, or NoSM
  again,              \* queued calls of process()
  pollTimer,          \* armed: will call on_Poll()
  callProcess,        \* armed by gotFirstGoodConnection: will call process()
  tasks,              \* the CtlTasks alive
  fatal,              \* Fatal() was called: the application quits
  \* what the signals told the rest of the program
  synch,              \* "synchronizing" until upToDate makes it "done", or
                      \* "interrupted" once the machine waits for a timer before it
  announced,          \* the block of the last newHeader
  \* history
  topHeight           \* the highest height bitcoind ever reported

bitcoind == <<best, ibd, zmq, changes>>
storage  == <<db, undos>>
signals  == <<synch, announced>>
vars == <<bitcoind, conn, failures, storage, sm, again, pollTimer, callProcess,
          tasks, fatal, signals, topHeight>>

NoSM == [state |-> "None", ht |-> -1, next |-> 0, end |-> 0, pp |-> <<>>,
         suppress |-> FALSE, info |-> 0]
NewSM == [NoSM EXCEPT !.state = "Begin"]

Last(s) == s[Len(s)]

\* The path from the genesis block to b.
PathTo[b \in Block] == IF b = Genesis THEN <<b>> ELSE Append(PathTo[Prev[b]], b)

LatestTip == [ht |-> Len(db) - 1, hash |-> IF db = <<>> THEN NoBlock ELSE Last(db)]

Store == INSTANCE ChainStore WITH Depths <- {Depth}, depth <- Depth, phase <- "idle"

HasUndo == undos.earliest # InvalidUndoHeight

Init ==
  /\ best \in {PathTo[b] : b \in Block} /\ ibd \in InIBD /\ zmq \in ZmqAvailable /\ changes = 0
  /\ conn = FALSE /\ failures = 0
  /\ db = <<>> /\ undos = Store!NoUndos
  /\ sm = NoSM /\ again = 0 /\ pollTimer = FALSE /\ callProcess = FALSE
  /\ tasks = {} /\ fatal = FALSE
  /\ synch = "done" /\ announced = NoBlock
  /\ topHeight = -1

-----------------------------------------------------------------------------
(* Handlers of the Controller's thread.  a is the number of queued         *)
(* process() calls left once this one is taken from the queue.             *)

FreeIds == (1..MaxTasks) \ {t.id : t \in tasks}

\* A queued event may be handled: the thread is alive and not inside the
\* loop of process_DownloadingBlocks.
InLoop == sm.state = "DownloadingBlocks" /\ sm.next \in DOMAIN sm.pp
Ready == ~ fatal /\ ~ InLoop

SetState(s, st, a) == sm' = [s EXCEPT !.state = st] /\ again' = a + 1

DoUndoAndRetry(s, a) ==
  \/ /\ Store!CanUndo
     /\ Store!Undone
     /\ SetState(s, "Retry", a)
     /\ UNCHANGED fatal
  \/ /\ ~ Store!CanUndo
     /\ fatal' = TRUE
     /\ sm' = [s EXCEPT !.state = "Failure"] /\ again' = a
     /\ UNCHANGED storage

\* Mutant: the error is noted and process() is not scheduled.
GenericTaskErroredNoAgain(a) ==
  /\ again' = a
  /\ sm' = IF sm # NoSM THEN [sm EXCEPT !.state = "Failure"] ELSE sm

GenericTaskErrored(a) ==
  IF sm # NoSM /\ sm.state # "Failure" THEN SetState(sm, "Failure", a)
                                       ELSE again' = a /\ UNCHANGED sm

Begin(s, silent, a) ==
  /\ s.state = "Begin"
  /\ \E id \in FreeIds :
       /\ \A k \in FreeIds : id <= k
       /\ tasks' = tasks \cup {[id |-> id, kind |-> "GetChainInfo", silent |-> silent]}
       /\ sm' = [s EXCEPT !.state = "WaitingForChainInfo", !.info = id]
  /\ again' = a /\ pollTimer' = FALSE
  /\ UNCHANGED signals

\* A spurious call; the reply may have taken more than 30 seconds.
WaitingForChainInfo(s, a) ==
  /\ s.state = "WaitingForChainInfo"
  /\ \/ again' = a /\ UNCHANGED <<sm, failures>>
     \/ /\ failures < MaxFailures /\ failures' = failures + 1
        /\ GenericTaskErrored(a)
  /\ pollTimer' = FALSE
  /\ UNCHANGED <<tasks, signals>>

Min2(m, n) == IF m < n THEN m ELSE n

\* The heights of the task that starts at height f.
Stride(f, to, n) == {h \in f..to : (h - f) % n = 0}

GetBlocks(s, a) ==
  /\ s.state = "GetBlocks"
  /\ LET base == Len(db)
         n == Min2(s.ht + 1 - base, DL_CONCURRENCY)
     IN /\ Cardinality(FreeIds) >= n
        /\ \E ids \in [0..n-1 -> FreeIds] :
             /\ \A i, j \in 0..n-1 : i < j => ids[i] < ids[j]
             /\ tasks' = tasks \cup
                  {[id |-> ids[i], kind |-> "DownloadBlocks", from |-> base + i,
                    todo |-> Stride(base + i, s.ht, n), got |-> <<>>] : i \in 0..n-1}
        /\ sm' = [s EXCEPT !.state = "DownloadingBlocks", !.next = base, !.end = s.ht]
  /\ again' = a /\ pollTimer' = FALSE
  /\ UNCHANGED signals

\* The states that reset the machine: start over at once, or wait for the
\* poll timer, which calls process(true).
StartOver(a) == again' = a + 1 /\ pollTimer' = FALSE /\ UNCHANGED synch

WaitForPoll(a) ==
  /\ again' = a /\ pollTimer' = TRUE
  /\ synch' = IF synch = "synchronizing" THEN "interrupted" ELSE synch

Reset(s, a) ==
  /\ \/ s.state \in {"FinishedDL", "Retry"} /\ StartOver(a)
     \/ s.state = "RetryInIBD" /\ (WaitForPoll(a) \/ StartOver(a))  \* too fast, or not
     \/ s.state \in {"Failure", "BitcoinDIsInHeaderDL"} /\ WaitForPoll(a)
     \/ s.state = "End" /\ again' = a /\ pollTimer' = TRUE /\ UNCHANGED synch
  /\ sm' = NoSM
  /\ UNCHANGED <<tasks, announced>>

StartTask(s, from, kind, to, a) ==
  /\ s.state = from
  /\ \E id \in FreeIds :
       /\ \A k \in FreeIds : id <= k
       /\ tasks' = tasks \cup {[id |-> id, kind |-> kind]}
  /\ sm' = [s EXCEPT !.state = to]
  /\ again' = a /\ pollTimer' = FALSE
  /\ UNCHANGED signals

\* hasDSProofRPC() depends on the bitcoind we are connected to.
MempoolFinished(s, a) ==
  /\ \/ s.state = "SynchMempoolFinished"
        /\ (SetState(s, "SynchDSPs", a) \/ SetState(s, "End", a))
     \/ s.state = "SynchDSPsFinished" /\ SetState(s, "End", a)
  /\ pollTimer' = FALSE
  /\ UNCHANGED <<tasks, signals>>

Nothing(s, a) ==
  /\ s.state \in {"DownloadingBlocks", "SynchingMempool", "SynchingDSPs"}
  /\ again' = a /\ pollTimer' = FALSE
  /\ UNCHANGED <<sm, tasks, signals>>

Process(silent, a) ==
  /\ LET s == IF sm = NoSM THEN NewSM ELSE sm IN
       \/ WaitingForChainInfo(s, a)
       \/ /\ UNCHANGED failures
          /\ \/ Begin(s, silent, a)
             \/ GetBlocks(s, a)
             \/ Reset(s, a)
             \/ StartTask(s, "SynchMempool", "SynchMempool", "SynchingMempool", a)
             \/ StartTask(s, "SynchDSPs", "SynchDSPs", "SynchingDSPs", a)
             \/ MempoolFinished(s, a)
             \/ Nothing(s, a)
  /\ UNCHANGED <<bitcoind, conn, storage, fatal, topHeight>>

\* Mutant: AGAIN's process() is as silent as the poll's.
RunAgainSilent ==
  /\ Ready /\ again > 0
  /\ Process(TRUE, again - 1)
  /\ UNCHANGED callProcess

\* AGAIN's single-shot timer.
RunAgain ==
  /\ Ready /\ again > 0
  /\ Process(FALSE, again - 1)
  /\ UNCHANGED callProcess

\* on_Poll() from the poll timer: silent if up to date.
Poll ==
  /\ Ready /\ pollTimer
  /\ \/ sm = NoSM /\ Process(TRUE, again)
     \/ /\ sm # NoSM /\ pollTimer' = FALSE
        /\ UNCHANGED <<bitcoind, conn, failures, storage, sm, again, tasks, fatal,
                       signals, topHeight>>
  /\ UNCHANGED callProcess

\* A zmq hashblock notification; the notifier runs once the servers do.  While
\* a machine exists the hash is kept and only shortens the next poll timeout.
ZmqHashBlock ==
  /\ Ready /\ zmq /\ announced # NoBlock /\ conn
  /\ sm = NoSM /\ Process(TRUE, again)
  /\ UNCHANGED callProcess

CallProcess ==
  /\ Ready /\ callProcess
  /\ callProcess' = FALSE
  /\ Process(FALSE, again)

-----------------------------------------------------------------------------
(* The reply of getblockchaininfo.  nHeaders is bitcoind's header count,   *)
(* which runs ahead of its blocks while it is in IBD.                      *)

UpToDate(t) ==
  IF t.silent THEN UNCHANGED signals
              ELSE synch' = "done" /\ announced' = LatestTip.hash

\* While bitcoind is in IBD its headers run ahead of its blocks.
HeaderCounts ==
  {Len(best) - 1} \cup
  {Len(PathTo[b]) - 1 : b \in {c \in Block : ibd /\ Last(best) \in {PathTo[c][i] : i \in 1..Len(PathTo[c])}}}

\* Mutant: heights are compared and hashes are not.
SameTipHeightOnly(ht) == LatestTip.ht = ht

SameTip(ht) == LatestTip = [ht |-> ht, hash |-> Last(best)]

\* Mutant: undo info is suppressed however close the headers are.
SuppressSaveUndoAlways(nHeaders, ht) == ibd /\ ~ HasUndo /\ nHeaders > 0 /\ ht > 0

\* bitcoind is in IBD, its best header is far ahead, and we have no undo info.
SuppressSaveUndo(nHeaders, ht) ==
  /\ ibd /\ ~ HasUndo
  /\ nHeaders > 0 /\ ht > 0 /\ nHeaders >= ht /\ nHeaders - ht > Depth

GotChainInfo(t, nHeaders) ==
  LET ht == Len(best) - 1
      s  == [sm EXCEPT !.ht = ht, !.info = 0]
  IN
  /\ Ready
  /\ t \in tasks /\ t.kind = "GetChainInfo" /\ conn
  /\ nHeaders \in HeaderCounts
  /\ tasks' = tasks \ {t}
  /\ \/ /\ sm = NoSM \/ t.id # sm.info \/ sm.state # "WaitingForChainInfo"
        /\ UNCHANGED <<sm, again, storage, fatal, signals, topHeight>>
     \/ /\ sm # NoSM /\ t.id = sm.info /\ sm.state = "WaitingForChainInfo"
        /\ topHeight' = IF nHeaders > topHeight THEN nHeaders ELSE topHeight
        /\ \/ /\ ht < 1 /\ ibd
              /\ SetState([s EXCEPT !.ht = sm.ht], "BitcoinDIsInHeaderDL", again)
              /\ UNCHANGED <<storage, fatal, signals>>
           \/ /\ ~ (ht < 1 /\ ibd)
              /\ SameTip(ht)
              /\ \/ ~ ibd /\ UpToDate(t) /\ SetState(s, "SynchMempool", again)
                 \/ ibd /\ SetState(s, "RetryInIBD", again) /\ UNCHANGED signals
              /\ UNCHANGED <<storage, fatal>>
           \/ /\ ~ (ht < 1 /\ ibd)
              /\ \/ LatestTip.ht = ht /\ LatestTip.hash # Last(best)
                 \/ LatestTip.ht > ht
              /\ DoUndoAndRetry(s, again)
              /\ UNCHANGED signals
           \/ /\ ~ (ht < 1 /\ ibd)
              /\ LatestTip.ht < ht
              /\ synch' = "synchronizing" /\ UNCHANGED announced
              /\ SetState([s EXCEPT !.suppress = SuppressSaveUndo(nHeaders, ht)],
                          "GetBlocks", again)
              /\ UNCHANGED <<storage, fatal>>
  /\ UNCHANGED <<bitcoind, conn, failures, pollTimer, callProcess>>

-----------------------------------------------------------------------------
(* DownloadBlocksTask.  `got` holds the blocks whose hash bitcoind has     *)
(* answered and that on_putBlock has not received yet.  The first request  *)
(* of a task is alone; after it max_q may be in flight.                    *)

Unfinished(t) == t.todo \cup DOMAIN t.got

Requested(t) ==
  {h \in t.todo : Cardinality({k \in Unfinished(t) : k < h}) <
                    IF t.from \in Unfinished(t) THEN 1 ELSE MaxQ}

FetchBlock(t, h) ==
  /\ t \in tasks /\ t.kind = "DownloadBlocks" /\ conn
  /\ h \in Requested(t) /\ h < Len(best)
  /\ tasks' = (tasks \ {t}) \cup
       {[t EXCEPT !.todo = @ \ {h},
                  !.got = [k \in DOMAIN @ \cup {h} |-> IF k = h THEN best[h + 1] ELSE @[k]]]}
  /\ UNCHANGED <<bitcoind, conn, failures, storage, sm, again, pollTimer, callProcess,
                 fatal, signals, topHeight>>

\* on_putBlock, and the removal of a task that has delivered its last block.
PutBlock(t, h) ==
  /\ Ready
  /\ t \in tasks /\ t.kind = "DownloadBlocks" /\ h \in DOMAIN t.got
  /\ LET rest == [t EXCEPT !.got = [k \in DOMAIN @ \ {h} |-> @[k]]]
     IN tasks' = (tasks \ {t}) \cup
                 (IF rest.todo = {} /\ DOMAIN rest.got = {} THEN {} ELSE {rest})
  /\ sm' = IF sm.state = "DownloadingBlocks"
             THEN [sm EXCEPT !.pp = [k \in DOMAIN @ \cup {h} |->
                                       IF k = h THEN t.got[h] ELSE @[k]]]
             ELSE sm
  /\ UNCHANGED <<bitcoind, conn, failures, storage, again, pollTimer, callProcess,
                 fatal, signals, topHeight>>

\* Mutant: the depth is off by one, so one block too few can be undone.
SaveUndoInfoOneLess(h) == ~ sm.suppress /\ h > sm.ht - Depth + 1

SaveUndoInfo(h) == ~ sm.suppress /\ h > sm.ht - Depth

\* Mutant: the loop goes on for one block after endHeight.
PastEndByOne(s) == s.next > s.end + 1

PastEnd(s) == s.next > s.end

\* One turn of the loop of process_DownloadingBlocks: a block that does not
\* connect to the tip is a HeaderVerificationFailure, and the tip is undone.
VerifyAndAddBlock ==
  /\ ~ fatal /\ InLoop
  /\ LET b == sm.pp[sm.next]
         s == [sm EXCEPT !.next = @ + 1, !.pp = [k \in DOMAIN @ \ {sm.next} |-> @[k]]]
     IN \/ /\ Prev[b] = LatestTip.hash
           /\ Store!Added(b, SaveUndoInfo(sm.next))
           /\ IF PastEnd(s) THEN SetState(s, "FinishedDL", again)
                                ELSE sm' = s /\ UNCHANGED again
           /\ UNCHANGED fatal
        \/ /\ Prev[b] # LatestTip.hash
           /\ DoUndoAndRetry(s, again)
  /\ UNCHANGED <<bitcoind, conn, failures, pollTimer, callProcess, tasks, signals, topHeight>>

\* A call fails or times out; getblockhash also fails for a height bitcoind no
\* longer has.  Any task's error fails the machine there is, its own or not;
\* SynchDSPs' is only ever a success.
Errored(t) ==
  /\ Ready
  /\ t \in tasks /\ t.kind # "SynchDSPs"
  /\ tasks' = tasks \ {t}
  /\ GenericTaskErrored(again)
  /\ UNCHANGED <<bitcoind, conn, storage, pollTimer, callProcess, fatal, signals, topHeight>>

TaskErrored(t) ==
  /\ failures < MaxFailures /\ failures' = failures + 1
  /\ Errored(t)

TaskCannotGoOn(t) ==
  /\ \/ ~ conn
     \/ t.kind = "DownloadBlocks" /\ \E h \in Requested(t) : h >= Len(best)
  /\ Errored(t)
  /\ UNCHANGED failures

\* The success handlers check the state and not whose task it is.
TaskSucceeded(t) ==
  /\ Ready
  /\ t \in tasks /\ t.kind \in {"SynchMempool", "SynchDSPs"}
  /\ conn \/ t.kind = "SynchDSPs"
  /\ tasks' = tasks \ {t}
  /\ \/ /\ t.kind = "SynchMempool" /\ sm.state = "SynchingMempool"
        /\ SetState(sm, "SynchMempoolFinished", again)
     \/ /\ t.kind = "SynchDSPs" /\ sm.state = "SynchingDSPs"
        /\ SetState(sm, "SynchDSPsFinished", again)
     \/ /\ t.kind = "SynchMempool" => sm.state # "SynchingMempool"
        /\ t.kind = "SynchDSPs" => sm.state # "SynchingDSPs"
        /\ UNCHANGED <<sm, again>>
  /\ UNCHANGED <<bitcoind, conn, failures, storage, pollTimer, callProcess, fatal, signals, topHeight>>

-----------------------------------------------------------------------------
(* Connections, bitcoind's chain, and a restart of the program.            *)

AllConnectionsLost ==
  /\ Ready /\ conn
  /\ failures < MaxFailures /\ failures' = failures + 1
  /\ conn' = FALSE /\ pollTimer' = FALSE /\ callProcess' = FALSE
  /\ UNCHANGED <<bitcoind, storage, sm, again, tasks, fatal, signals, topHeight>>

GotFirstGoodConnection ==
  /\ Ready /\ ~ conn
  /\ conn' = TRUE /\ callProcess' = TRUE
  /\ UNCHANGED <<bitcoind, failures, storage, sm, again, pollTimer, tasks, fatal, signals, topHeight>>

\* External: bitcoind connects new blocks, and may first disconnect some.  A recent
\* block ends the IBD.
ChainChanges(b) ==
  /\ changes < MaxChanges /\ changes' = changes + 1
  /\ LET new == PathTo[b] IN
       /\ new # best
       /\ \E k \in 1..Len(best) :
            /\ Len(best) - k <= MaxReorg
            /\ k = Len(best) \/ Len(new) - k <= MaxBranch
            /\ k <= Len(new) /\ SubSeq(new, 1, k) = SubSeq(best, 1, k)
       /\ best' = new
       /\ ibd' \in {ibd, FALSE}
  /\ UNCHANGED <<zmq, conn, failures, storage, sm, again, pollTimer, callProcess, tasks,
                 fatal, signals, topHeight>>

Restart ==
  /\ ~ fatal
  /\ failures < MaxFailures /\ failures' = failures + 1
  /\ undos' = Store!Loaded(undos.at, Depth)
  /\ sm' = NoSM /\ again' = 0 /\ pollTimer' = FALSE /\ callProcess' = FALSE
  /\ tasks' = {} /\ conn' = FALSE
  /\ synch' = "done" /\ announced' = NoBlock
  /\ UNCHANGED <<bitcoind, db, fatal, topHeight>>

Next ==
  \/ RunAgain \/ Poll \/ ZmqHashBlock \/ CallProcess
  \/ \E t \in tasks :
       \/ \E n \in 0..Cardinality(Block) : GotChainInfo(t, n)
       \/ \E h \in 0..Cardinality(Block) : FetchBlock(t, h) \/ PutBlock(t, h)
       \/ TaskErrored(t) \/ TaskCannotGoOn(t) \/ TaskSucceeded(t)
  \/ VerifyAndAddBlock
  \/ AllConnectionsLost \/ GotFirstGoodConnection
  \/ \E b \in Block : ChainChanges(b)
  \/ Restart

Spec == Init /\ [][Next]_vars

\* The event loop runs every queued event and every armed timer, bitcoind
\* answers or refuses every call, and a lost connection comes back.
Heights == 0..Cardinality(Block)

Fairness ==
  /\ WF_vars(RunAgain) /\ WF_vars(Poll) /\ WF_vars(CallProcess)
  /\ WF_vars(VerifyAndAddBlock) /\ WF_vars(GotFirstGoodConnection)
  /\ WF_vars(\E t \in tasks : \E n \in Heights : GotChainInfo(t, n))
  /\ WF_vars(\E t \in tasks : \E h \in Heights : FetchBlock(t, h))
  /\ WF_vars(\E t \in tasks : \E h \in Heights : PutBlock(t, h))
  /\ WF_vars(\E t \in tasks : TaskCannotGoOn(t))
  /\ WF_vars(\E t \in tasks : TaskSucceeded(t))

FairSpec == Spec /\ Fairness

-----------------------------------------------------------------------------
States == {"None", "WaitingForChainInfo", "GetBlocks", "DownloadingBlocks", "FinishedDL",
           "End", "Failure", "BitcoinDIsInHeaderDL", "Retry", "RetryInIBD", "SynchMempool",
           "SynchingMempool", "SynchMempoolFinished", "SynchDSPs", "SynchingDSPs",
           "SynchDSPsFinished"}

\* The types of the variables; the undo table has no record above the tip.
TypeOK ==
  /\ best \in Seq(Block) /\ {ibd, zmq, conn, pollTimer, callProcess, fatal} \subseteq BOOLEAN
  /\ changes \in 0..MaxChanges /\ failures \in 0..MaxFailures
  /\ db \in Seq(Block) /\ undos.at \subseteq 0..Len(db) - 1 /\ undos.earliest \in Nat
  /\ sm.state \in States /\ sm.ht \in Heights \cup {-1} /\ sm.next \in Heights
  /\ sm.end \in Heights /\ sm.suppress \in BOOLEAN /\ sm.info \in 0..MaxTasks
  /\ DOMAIN sm.pp \subseteq Heights /\ \A h \in DOMAIN sm.pp : sm.pp[h] \in Block
  /\ again \in Nat
  /\ \A t \in tasks : /\ t.id \in 1..MaxTasks
                      /\ t.kind \in {"GetChainInfo", "DownloadBlocks", "SynchMempool", "SynchDSPs"}
                      /\ \A u \in tasks : t.id = u.id => t = u
  /\ synch \in {"done", "synchronizing", "interrupted"}
  /\ announced \in Block \cup {NoBlock}
  /\ topHeight \in Heights \cup {-1}

TasksOf(kind) == {t \in tasks : t.kind = kind}

\* Whatever state the machine is in, an event that will move it on is queued,
\* armed or on its way: process() arms the poll timer or calls AGAIN in every
\* state that nothing else leaves, a state that waits for a task has that task,
\* and each block the loop still needs is in ppBlocks or with a download task.
NeverStuck ==
  fatal \/
  /\ sm = NoSM => again > 0 \/ pollTimer \/ callProcess \/ ~ conn
  /\ sm.state \in {"GetBlocks", "FinishedDL", "End", "Failure", "BitcoinDIsInHeaderDL", "Retry",
                   "RetryInIBD", "SynchMempool", "SynchMempoolFinished", "SynchDSPs",
                   "SynchDSPsFinished"} => again > 0
  /\ sm.state = "WaitingForChainInfo" => \E t \in TasksOf("GetChainInfo") : t.id = sm.info
  /\ sm.state = "DownloadingBlocks" =>
       \A h \in sm.next..sm.end :
         h \in DOMAIN sm.pp \/ \E t \in TasksOf("DownloadBlocks") : h \in Unfinished(t)
  /\ sm.state = "SynchingMempool" => TasksOf("SynchMempool") # {}
  /\ sm.state = "SynchingDSPs" => TasksOf("SynchDSPs") # {}

\* process_DownloadingBlocks hands addBlock the height Storage expects, up to
\* endHeight, and GetBlocks never asks for 0 blocks (its FatalAssert), although
\* blocks of older download tasks arrive in any order.
NextFollowsTip ==
  /\ sm.state = "GetBlocks" => sm.ht >= Len(db)
  /\ sm.state = "DownloadingBlocks" => sm.next = Len(db) /\ sm.next <= sm.end

\* "Failed to rewind" is only ever reached at a block configuredUndoDepth() or more
\* below the best height bitcoind has reported: whatever was suppressed in the initial
\* block download, expired, dropped by a restart or added from a task of an earlier
\* machine, the blocks above that have their undo info.
RewindsWithinDepth == fatal => Len(db) - 1 <= topHeight - Depth

\* Once a synch ends, every block less than configuredUndoDepth() below the
\* best height bitcoind ever reported can be undone.
RecentBlocksUndoable ==
  sm.state = "End" => \A h \in 1..Len(db) - 1 : h > topHeight - Depth => h \in undos.at

\* Controller.h on synchronizing(): "After this completes successfully, upToDate will
\* be emitted exactly once."  A machine that reaches End after synchronizing() was
\* emitted has emitted upToDate(), unless it had to wait for the poll timer on the
\* way.  This holds without a zmq notifier and fails with one.
UpToDateUnlessInterrupted == sm.state = "End" => synch # "synchronizing"

\* Once bitcoind's chain and the connection to it are stable, Storage comes to hold
\* that chain and stays with it, however many blocks had to be undone and whatever
\* failed before (a bitcoind that has headers only is waited for), unless a rewind ended
\* the program, which RewindsWithinDepth is about.
Converges == <>[](fatal \/ db = best \/ (ibd /\ Len(best) = 1))

\* Without a zmq notifier and with nothing failing, the tip bitcoind ends up with is
\* announced by newHeader() and no other header is announced after it, unless the last
\* synch had to wait for the poll timer on the way or the chain bitcoind ends up with is
\* a shorter one.
EventuallyAnnounced ==
  <>[](\/ fatal \/ ibd \/ zmq \/ failures > 0 \/ synch = "interrupted" \/ Len(best) - 1 < topHeight
       \/ announced = Last(best))
=============================================================================
