--------------------------- MODULE DownloadBlocks ---------------------------
(***************************************************************************)
(* One block download: the Controller's state machine between GetBlocks    *)
(* and FinishedDL, and the DownloadBlocksTasks that serve it.              *)
(*                                                                         *)
(* Task i downloads the heights base + i, base + i + nTasks, ...  Each task*)
(* is a thread with an event queue: process() calls queued by AGAIN, the   *)
(* timers of throttled do_get() calls, the replies of bitcoind.  It posts  *)
(* blocks, and in the end success or errored, to the Controller's thread,  *)
(* which receives what one task posts in the order it was posted.          *)
(***************************************************************************)
EXTENDS Integers, Sequences, FiniteSets

CONSTANTS
  Base,           \* the first height to download: one above Storage's tip
  EndHeight,      \* the last one: sm->ht
  Concurrency,    \* DL_CONCURRENCY
  MaxQ,           \* max_q: the number of bitcoind clients, plus one
  MaxBackLog,     \* how far ahead of the Controller a block may be requested
  MayFail         \* whether the download may meet failures: TRUE, FALSE, or either

ASSUME DownloadAssumption ==
  /\ Base \in Nat /\ EndHeight \in Nat /\ Base <= EndHeight
  /\ Concurrency \in Nat \ {0} /\ MaxQ \in Nat \ {0} /\ MaxBackLog \in Nat
  /\ MayFail \subseteq BOOLEAN

NTasks == IF EndHeight - Base + 1 < Concurrency THEN EndHeight - Base + 1 ELSE Concurrency
Task == 0 .. NTasks - 1
Height == Base .. EndHeight

\* What a task posts besides the heights of its blocks.
Success == -1
Errored == -2

VARIABLES
  mayFail,     \* whether this download may meet failures
  sm,          \* "downloading", "finished", "failed", or "none": the machine was reset
  ppBlkHtNext, \* the next height the Controller adds to Storage
  ppBlocks,    \* heights of the blocks that wait for their turn
  posted,      \* per task: what it posted to the Controller's thread
  deleted,     \* tasks the Controller has stopped and removed
  next,        \* per task: the next height to get
  goodCt,      \* per task: blocks received
  q_ct,        \* per task: its estimate of the gets under way
  again,       \* per task: process() calls in its event queue
  throttled,   \* per task: heights whose do_get waits for its timer
  asked        \* per task: heights asked of bitcoind

taskVars == <<posted, next, goodCt, q_ct, again, throttled, asked>>
ctlVars == <<mayFail, sm, ppBlkHtNext, ppBlocks, deleted>>
vars == <<ctlVars, taskVars>>

From(t) == Base + t

\* expectedCt
NToDL(t) == ((EndHeight - From(t)) + 1 + NTasks - 1) \div NTasks

\* The tasks start: on_started calls process() once.
Init ==
  /\ mayFail \in MayFail
  /\ sm = "downloading" /\ ppBlkHtNext = Base /\ ppBlocks = {} /\ deleted = {}
  /\ posted = [t \in Task |-> <<>>]
  /\ next = [t \in Task |-> From(t)]
  /\ goodCt = [t \in Task |-> 0] /\ q_ct = [t \in Task |-> 0]
  /\ again = [t \in Task |-> 1]
  /\ throttled = [t \in Task |-> {}] /\ asked = [t \in Task |-> {}]

-----------------------------------------------------------------------------
(* A task's thread.  It runs until the Controller stops it.                *)

Running(t) == t \notin deleted

\* Mutant: one block too far ahead is let through.
ThrottleLate(h) == sm # "none" /\ h - ppBlkHtNext > MaxBackLog + 1

\* downloadTaskRecommendedThrottleTimeMsec
Throttle(h) == sm # "none" /\ h - ppBlkHtNext > MaxBackLog

\* Mutant: a get that is told to back off is not scheduled again.
DoGetDrops(t, h) ==
  /\ throttled' = [throttled EXCEPT ![t] = @ \ {h}]
  /\ asked' = IF Throttle(h) THEN asked ELSE [asked EXCEPT ![t] = @ \cup {h}]

\* do_get: come back later, or ask bitcoind.  bitcoind's getblockhash and getblock are one request.
DoGet(t, h) ==
  IF Throttle(h)
  THEN throttled' = [throttled EXCEPT ![t] = @ \cup {h}] /\ UNCHANGED asked
  ELSE throttled' = [throttled EXCEPT ![t] = @ \ {h}] /\ asked' = [asked EXCEPT ![t] = @ \cup {h}]

Post(t, events) == posted' = [posted EXCEPT ![t] = @ \o events]

\* process(), when there are heights left to get
ProcessGet(t) ==
  /\ Running(t) /\ again[t] > 0 /\ next[t] <= EndHeight
  /\ again' = [again EXCEPT ![t] = @ - 1]
  /\ DoGet(t, next[t])
  /\ next' = [next EXCEPT ![t] = @ + NTasks]
  /\ UNCHANGED <<ctlVars, posted, goodCt, q_ct>>

\* Mutant: one block more than it owns is expected before the task says it is done.
ProcessDoneNever(t) ==
  /\ Running(t) /\ again[t] > 0 /\ next[t] > EndHeight
  /\ again' = [again EXCEPT ![t] = @ - 1]
  /\ IF goodCt[t] > NToDL(t) THEN Post(t, <<Success>>) ELSE UNCHANGED posted
  /\ UNCHANGED <<ctlVars, next, goodCt, q_ct, throttled, asked>>

\* process(), when there are none: maybeDone is set with the last block
ProcessDone(t) ==
  /\ Running(t) /\ again[t] > 0 /\ next[t] > EndHeight
  /\ again' = [again EXCEPT ![t] = @ - 1]
  /\ IF goodCt[t] >= NToDL(t) THEN Post(t, <<Success>>) ELSE UNCHANGED posted
  /\ UNCHANGED <<ctlVars, next, goodCt, q_ct, throttled, asked>>

ThrottleTimer(t) ==
  /\ Running(t)
  /\ \E h \in throttled[t] : DoGet(t, h)
  /\ UNCHANGED <<ctlVars, posted, next, goodCt, q_ct, again>>

\* Mutant: one get is taken for done that is not.
QueueMoreAhead(t, good, q) ==
  LET room == NToDL(t) - good - q - 1
  IN IF MaxQ - q < room THEN MaxQ - q ELSE room

\* How many more gets are queued (goodCt + q_ct < expectedCt, q_ct < max_q), when q are under way.
QueueMore(t, good, q) ==
  LET room == NToDL(t) - good - q
  IN IF MaxQ - q < room THEN MaxQ - q ELSE room

\* Mutant: the first get, which q_ct does not count, is counted off.
OneLessUnchecked(q) == q - 1

\* q_ct, when a get is done: the first one was not counted
OneLess(q) == IF q > 0 THEN q - 1 ELSE 0

\* The block at height h arrives and is good.
GotBlock(t, h) ==
  /\ Running(t) /\ h \in asked[t]
  /\ asked' = [asked EXCEPT ![t] = @ \ {h}]
  /\ LET good == goodCt[t] + 1
         q == OneLess(q_ct[t])
         done == good >= NToDL(t)
         more == IF QueueMore(t, good, q) > 0 THEN QueueMore(t, good, q) ELSE 0
     IN /\ goodCt' = [goodCt EXCEPT ![t] = good]
        /\ q_ct' = [q_ct EXCEPT ![t] = IF done THEN q ELSE q + more]
        /\ again' = [again EXCEPT ![t] = IF done THEN @ + 1 ELSE @ + more]
  /\ Post(t, <<h>>)
  /\ UNCHANGED <<ctlVars, next, throttled>>

\* An error reply, a failed request, a bad hash or a bad header.
GotError(t, h) ==
  /\ mayFail /\ Running(t) /\ h \in asked[t]
  /\ asked' = [asked EXCEPT ![t] = @ \ {h}]
  /\ Post(t, <<Errored>>)
  /\ UNCHANGED <<ctlVars, next, goodCt, q_ct, again, throttled>>

-----------------------------------------------------------------------------
(* The Controller's thread.                                                *)

\* process_DownloadingBlocks adds the blocks that are next; the first height that is missing.
FirstMissing(S) == CHOOSE h \in ppBlkHtNext .. EndHeight + 1 :
                     h \notin S /\ ppBlkHtNext .. h - 1 \subseteq S

HeadIsBlock(t) == Running(t) /\ posted[t] # <<>> /\ Head(posted[t]) \in Height

\* on_putBlock, and process_DownloadingBlocks: the block is put aside, those that are next are added
PutBlock(t) ==
  /\ HeadIsBlock(t)
  /\ IF sm # "downloading" THEN UNCHANGED <<sm, ppBlkHtNext, ppBlocks>>
     ELSE LET S == ppBlocks \cup {Head(posted[t])}
          IN /\ ppBlkHtNext' = FirstMissing(S)
             /\ ppBlocks' = {h \in S : h >= FirstMissing(S)}
             /\ sm' = IF FirstMissing(S) > EndHeight THEN "finished" ELSE sm
  /\ posted' = [posted EXCEPT ![t] = Tail(@)]
  /\ UNCHANGED <<mayFail, deleted, next, goodCt, q_ct, again, throttled, asked>>

\* The same, when Storage does not accept the block at height h: a reorganization (Retry).
PutBlockRejected(t) ==
  /\ mayFail /\ HeadIsBlock(t) /\ sm = "downloading"
  /\ LET S == ppBlocks \cup {Head(posted[t])}
     IN \E h \in ppBlkHtNext .. FirstMissing(S) - 1 :
          /\ ppBlkHtNext' = h + 1
          /\ ppBlocks' = {g \in S : g > h}
  /\ sm' = "failed"
  /\ posted' = [posted EXCEPT ![t] = Tail(@)]
  /\ UNCHANGED <<mayFail, deleted, next, goodCt, q_ct, again, throttled, asked>>

\* success and errored stop the task, whose end removes it; errored fails the machine.
TaskEnded(t) ==
  /\ Running(t) /\ posted[t] # <<>> /\ ~HeadIsBlock(t)
  /\ deleted' = deleted \cup {t}
  /\ sm' = IF Head(posted[t]) = Errored /\ sm = "downloading" THEN "failed" ELSE sm
  /\ UNCHANGED <<mayFail, ppBlkHtNext, ppBlocks, taskVars>>

\* process(): the machine's data are gone; its tasks run on.
ResetMachine ==
  /\ sm \in {"finished", "failed"}
  /\ sm' = "none"
  /\ UNCHANGED <<mayFail, ppBlkHtNext, ppBlocks, deleted, taskVars>>

Next ==
  \/ \E t \in Task :
       \/ ProcessGet(t) \/ ProcessDone(t) \/ ThrottleTimer(t)
       \/ \E h \in asked[t] : GotBlock(t, h) \/ GotError(t, h)
       \/ PutBlock(t) \/ PutBlockRejected(t) \/ TaskEnded(t)
  \/ ResetMachine

Spec == Init /\ [][Next]_vars

\* Every thread runs its event loop, timers fire, and bitcoind answers every request.
Fairness ==
  /\ \A t \in Task :
       /\ WF_vars(ProcessGet(t)) /\ WF_vars(ProcessDone(t)) /\ WF_vars(ThrottleTimer(t))
       /\ WF_vars(PutBlock(t)) /\ WF_vars(TaskEnded(t))
       /\ \A h \in Height : WF_vars(GotBlock(t, h))
  /\ WF_vars(ResetMachine)

FairSpec == Spec /\ Fairness

-----------------------------------------------------------------------------
(* Properties.                                                             *)

Owns(t, h) == h \in Height /\ (h - From(t)) % NTasks = 0

\* The state keeps its shape.
TypeOK ==
  /\ mayFail \in MayFail
  /\ sm \in {"downloading", "finished", "failed", "none"}
  /\ ppBlkHtNext \in Base .. EndHeight + 1 /\ ppBlocks \subseteq Height
  /\ deleted \subseteq Task
  /\ posted \in [Task -> Seq(Height \cup {Success, Errored})]
  /\ next \in [Task -> Nat] /\ goodCt \in [Task -> Nat] /\ q_ct \in [Task -> 0 .. MaxQ]
  /\ again \in [Task -> Nat]
  /\ \A t \in Task : \A h \in throttled[t] \cup asked[t] : Owns(t, h)

\* Where a height that Storage does not have yet can be.
Places(h) ==
  {p \in {"to get", "throttled", "asked", "posted", "put aside"} \X Task :
     LET t == p[2]
     IN CASE p[1] = "to get"    -> Running(t) /\ Owns(t, h) /\ next[t] <= h
          [] p[1] = "throttled" -> Running(t) /\ h \in throttled[t]
          [] p[1] = "asked"     -> Running(t) /\ h \in asked[t]
          [] p[1] = "posted"    -> Running(t) /\ \E i \in DOMAIN posted[t] : posted[t][i] = h
          [] p[1] = "put aside" -> Owns(t, h) /\ h \in ppBlocks}

\* While the download runs and no task has failed, every height not yet added to Storage is in
\* exactly one place: no task skips it, two do not get it, and no task is removed
\* (success, stop, rmTask) while a block of its own is on the way to on_putBlock.
NoHeightLost ==
  sm = "downloading" /\ (\A t \in Task : \A i \in DOMAIN posted[t] : posted[t][i] # Errored) =>
    \A h \in ppBlkHtNext .. EndHeight : Cardinality(Places(h)) = 1

\* A task that has heights left to get has an event in its queue or a request under way that
\* will make it get them (the count q_ct that drives AGAIN never stalls it).
NeverStalls ==
  \A t \in Task :
    Running(t) /\ next[t] <= EndHeight =>
      \/ again[t] > 0 \/ throttled[t] # {} \/ asked[t] # {}
      \/ \E i \in DOMAIN posted[t] : posted[t][i] = Errored

\* A task never has more than max_q gets under way, counting those still in its event queue.
RequestsBounded ==
  \A t \in Task :
    goodCt[t] < NToDL(t) => again[t] + Cardinality(throttled[t]) + Cardinality(asked[t]) <= MaxQ

\* While the machine lives, no block is put aside in ppBlocks or asked of bitcoind that is more than
\* maxBackLog ahead of the next block to add: this is what bounds the memory of a download.
BacklogBounded ==
  sm # "none" =>
    \A t \in Task : \A h \in ppBlocks \cup asked[t] : h <= ppBlkHtNext + MaxBackLog

\* A download with no failure adds every block and removes every task.
Completes ==
  ~mayFail => <>(sm = "none" /\ deleted = Task /\ ppBlkHtNext = EndHeight + 1)
=============================================================================
