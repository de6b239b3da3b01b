------------------------------ MODULE SubsMgr -------------------------------
(***************************************************************************)
(* The subscription manager: clients subscribe to keys, Storage enqueues   *)
(* the keys whose status changed, a timer in the manager's thread computes *)
(* the new statuses and notifies the subscribers.                          *)
(*                                                                         *)
(* Requests run in the threads of the servers, one request of a client at  *)
(* a time.  What is posted to a client (queued signals, the completions of *)
(* the thread pool) waits in its inbox until its thread is free.  A step   *)
(* is one critical section of p->mut or of a Subscription's mut, or one    *)
(* call of getFullStatus, which holds neither.                             *)
(***************************************************************************)
EXTENDS Integers, Sequences, FiniteSets, FiniteSetsExt, SequencesExt

CONSTANTS
  Client,          \* clients of one IP address, each on a server (thread) of its own
  Key,             \* what they subscribe to: script hashes or txids
  SubObj,          \* the Subscription objects that may exist at a time
  Status,          \* the statuses a key may have; 0 is the empty one
  MaxLost,         \* bound: no client subscribes once this many have been lost
  Setting          \* the settings to explore: which manager this is, Options and more bounds

ASSUME SubsMgrAssumption ==
  /\ 0 \in Status /\ Status \subseteq Nat /\ MaxLost \in Nat
  /\ Setting \subseteq [manager : {"scripthash", "dsproof"},
                        maxSubsPerIP : Nat, maxSubsGlobally : Nat,
                        clients : SUBSET Client,  \* those that may connect
                        objects : SUBSET SubObj,  \* the Subscriptions that may exist
                        changes : Nat,            \* bound: changes of status
                        elsewhere : Nat]          \* bound: a client's other subscriptions

VARIABLES
  options,   \* the setting
  truth,     \* what getFullStatus returns for each key
  changes,   \* number of changes so far
  staged,    \* keys whose status changed and that Storage has yet to enqueue
  subs,      \* key -> the Subscription in the table, or NoSub
  obj,       \* the Subscription objects that exist
  nActive,   \* nClientSubsActive
  pending,   \* pendingNotificatons
  signals,   \* queueNoLongerEmpty signals in the manager's event queue
  timer,     \* the notification timer exists
  ntf,       \* where doNotifyAllPending is
  up,        \* the clients that are connected
  req,       \* the subscribe request each client's thread is in
  job,       \* the thread pool job that computes a client's immediate status
  inbox,     \* events posted to each client
  gone,      \* <<o, c>>: c was destroyed, its lambda in Subscription o has yet to run
  nShSubs,   \* per client: the number of its subscriptions, with all managers
  perIP,     \* perIPData->nShSubs
  elsewhere, \* per client: its subscriptions with the other managers
  told       \* the status last sent to the client for the key

\* History, for the properties only.
VARIABLES
  wants,     \* c -> keys the program has told c it is subscribed to
  witness,   \* c -> keys that c must hear the last change of
  crossed,   \* c -> keys a change of which was on its way while c's answer was
  stranded,  \* <<c, k>>: subscribe put c into a Subscription no longer in the table
  lost,      \* ids in Subscriptions that were deleted
  uncounted  \* c -> subscriptions that ended and are still counted

vars == <<options, truth, changes, staged, subs, obj, nActive, pending, signals, timer, ntf, up, req,
          job, inbox, gone, nShSubs, perIP, elsewhere, told, wants, witness, crossed,
          stranded, lost, uncounted>>

storageVars == <<options, truth, changes, staged>>
queueVars   == <<pending, signals, timer, ntf>>
countVars   == <<nShSubs, perIP, elsewhere, uncounted>>
toldVars    == <<told, wants, witness, crossed, stranded>>
clientVars  == <<up, req, job, inbox, gone, lost, countVars, toldVars>>

None  == -1           \* a SubStatus without a value
NoSub == "no sub"

NoReq == [at |-> "idle"]
NoJob == [at |-> "idle"]
Quiet == [at |-> "idle", left |-> {}]

IsDSProof == options.manager = "dsproof"
UseStatusCache == ~IsDSProof

Live == DOMAIN obj       \* the Subscriptions of this manager
SubOf(k) == IF subs[k] = NoSub THEN {} ELSE {subs[k]}
Subscribed(c, k) == \E o \in SubOf(k) : c \in obj[o].ids

Init ==
  /\ options \in Setting
  /\ truth = [k \in Key |-> 0] /\ changes = 0 /\ staged = {}
  /\ subs = [k \in Key |-> NoSub] /\ obj = [o \in {} |-> {}]
  /\ nActive = 0
  /\ pending = {} /\ signals = 0 /\ timer = FALSE /\ ntf = Quiet
  /\ up = options.clients
  /\ req = [c \in Client |-> NoReq] /\ job = [c \in Client |-> NoJob]
  /\ inbox = [c \in Client |-> <<>>] /\ gone = {}
  /\ nShSubs = [c \in Client |-> 0] /\ perIP = 0 /\ elsewhere = [c \in Client |-> 0]
  /\ told = [c \in Client |-> [k \in Key |-> None]]
  /\ wants = [c \in Client |-> {}] /\ witness = [c \in Client |-> {}]
  /\ crossed = [c \in Client |-> {}] /\ stranded = {}
  /\ lost = 0 /\ uncounted = [c \in Client |-> 0]

-----------------------------------------------------------------------------
(* Storage: a block, the mempool or an undo gives a key another status,    *)
(* perhaps one it had before, and enqueues the key later, when the locks   *)
(* are released.                                                           *)

\* c has been attached for k, and the answer to its request has yet to reach it.
Answering(c, k) ==
  \/ req[c].at = "attached" /\ req[c].key = k
  \/ job[c] # NoJob /\ job[c].key = k
  \/ \E i \in DOMAIN inbox[c] : inbox[c][i].kind = "result" /\ inbox[c][i].key = k

Answered(c, k) ==
  c \in up /\ k \in wants[c] /\ <<c, k>> \notin stranded /\ req[c] = NoReq /\ ~Answering(c, k)

\* A change of k has yet to be compared with the last status notified.
OnItsWay(k) == k \in staged \cup pending \/ SubOf(k) \cap ntf.left # {}

\* What NotifyEmit takes for a duplicate though c, answered out of step, was told something else.
Returns(c, k, s) == k \in crossed[c] /\ \E o \in SubOf(k) : obj[o].last = s

Change(k, s) ==
  /\ changes < options.changes /\ s # truth[k]
  /\ changes' = changes + 1
  /\ truth' = [truth EXCEPT ![k] = s]
  /\ staged' = staged \cup {k}
  /\ witness' = [c \in Client |-> IF Answered(c, k) /\ ~Returns(c, k, s) THEN witness[c] \cup {k}
                                  ELSE witness[c] \ {k}]
  /\ crossed' = [c \in Client |-> IF Answering(c, k) THEN crossed[c] \cup {k} ELSE crossed[c]]
  /\ UNCHANGED <<options, subs, obj, nActive, queueVars, up, req, job, inbox, gone, countVars,
                 told, wants, stranded, lost>>

EnqueueNotifications ==
  /\ staged # {}
  /\ pending' = pending \cup staged
  /\ signals' = IF pending = {} THEN signals + 1 ELSE signals
  /\ staged' = {}
  /\ UNCHANGED <<options, truth, changes, subs, obj, nActive, timer, ntf, clientVars>>

-----------------------------------------------------------------------------
(* The manager's thread.                                                   *)

QueueNoLongerEmpty ==
  /\ ntf = Quiet /\ signals > 0
  /\ signals' = signals - 1
  /\ timer' = TRUE
  /\ UNCHANGED <<storageVars, subs, obj, nActive, pending, ntf, clientVars>>

\* doNotifyAllPending, the part that holds p->mut.
NotifyCollect ==
  /\ ntf = Quiet /\ timer
  /\ ntf' = [at |-> "loop", left |-> UNION {SubOf(k) : k \in pending}]
  /\ pending' = {}
  /\ UNCHANGED <<storageVars, subs, obj, nActive, signals, timer, clientVars>>

\* Mutant: the last status notified is kept though a notification is skipped.
NotifySkipRemembers(o) ==
  /\ ntf.at = "loop" /\ o \in ntf.left /\ obj[o].ids = {}
  /\ obj' = [obj EXCEPT ![o].cached = None]
  /\ ntf' = [ntf EXCEPT !.left = @ \ {o}]
  /\ UNCHANGED <<storageVars, subs, nActive, pending, signals, timer, clientVars>>

\* A Subscription without clients: its statuses are forgotten.
NotifySkip(o) ==
  /\ ntf.at = "loop" /\ o \in ntf.left /\ obj[o].ids = {}
  /\ obj' = [obj EXCEPT ![o].last = None, ![o].cached = None]
  /\ ntf' = [ntf EXCEPT !.left = @ \ {o}]
  /\ UNCHANGED <<storageVars, subs, nActive, pending, signals, timer, clientVars>>

NotifyCheck(o) ==
  /\ ntf.at = "loop" /\ o \in ntf.left /\ obj[o].ids # {}
  /\ ntf' = [at |-> "status", left |-> ntf.left, sub |-> o]
  /\ UNCHANGED <<storageVars, subs, obj, nActive, pending, signals, timer, clientVars>>

NotifyStatus ==
  /\ ntf.at = "status"
  /\ ntf' = [at |-> "emit", left |-> ntf.left, sub |-> ntf.sub,
             status |-> truth[obj[ntf.sub].key]]
  /\ UNCHANGED <<storageVars, subs, obj, nActive, pending, signals, timer, clientVars>>

NotifyEmit ==
  /\ ntf.at = "emit"
  /\ LET o == ntf.sub
         s == ntf.status
         k == obj[o].key
         doemit == obj[o].last # s
         receivers == IF doemit THEN obj[o].ids \cap up ELSE {}
     IN /\ obj' = [obj EXCEPT ![o].last = s, ![o].cached = IF UseStatusCache THEN s ELSE @]
        /\ inbox' = [c \in Client |->
                       IF c \in receivers
                       THEN Append(inbox[c], [kind |-> "status", key |-> k, status |-> s])
                       ELSE inbox[c]]
        /\ crossed' = [c \in Client |->
                         IF c \in receivers /\ Answered(c, k) THEN crossed[c] \ {k} ELSE crossed[c]]
        /\ ntf' = [at |-> "loop", left |-> ntf.left \ {o}]
  /\ UNCHANGED <<storageVars, subs, nActive, pending, signals, timer, up, req, job, gone,
                 countVars, told, wants, witness, stranded, lost>>

\* The timer's callback returns FALSE: the timer is taken out of the map.
NotifyDone ==
  /\ ntf.at = "loop" /\ ntf.left = {}
  /\ ntf' = Quiet
  /\ timer' = FALSE
  /\ UNCHANGED <<storageVars, subs, obj, nActive, pending, signals, clientVars>>

\* removeZombies: all of them if forced, else those idle for a minute.
RemoveZombies(Z) ==
  /\ ntf = Quiet /\ Z # {}
  /\ \A k \in Z : \E o \in SubOf(k) : obj[o].ids = {}
  /\ subs' = [k \in Key |-> IF k \in Z THEN NoSub ELSE subs[k]]
  /\ UNCHANGED <<storageVars, obj, nActive, queueVars, clientVars>>

\* deleteLater: the last reference to the Subscription is gone, and with it the lambdas
\* of the clients that are in it.
DeleteSub(o) ==
  /\ ntf = Quiet
  /\ o \in Live
  /\ \A k \in Key : subs[k] # o
  /\ \A c \in Client : req[c].at = "got" => req[c].sub # o
  /\ obj' = Restrict(obj, Live \ {o})
  /\ gone' = {g \in gone : g[1] # o}
  /\ lost' = lost + Cardinality(obj[o].ids)
  /\ UNCHANGED <<storageVars, subs, nActive, queueVars, up, req, job, inbox, countVars, toldVars>>

\* Mutant: the lambda erases the id and leaves the count.
ClientDestroyedUncounted(o, c) ==
  /\ ntf = Quiet /\ <<o, c>> \in gone
  /\ gone' = gone \ {<<o, c>>}
  /\ obj' = [obj EXCEPT ![o].ids = @ \ {c}]
  /\ UNCHANGED <<storageVars, subs, nActive, queueVars, up, req, job, inbox, countVars, toldVars, lost>>

\* The lambda connected to QObject::destroyed runs in the Subscription's thread.
ClientDestroyed(o, c) ==
  /\ ntf = Quiet /\ <<o, c>> \in gone
  /\ gone' = gone \ {<<o, c>>}
  /\ nActive' = nActive - 1
  /\ obj' = [obj EXCEPT ![o].ids = @ \ {c}]
  /\ UNCHANGED <<storageVars, subs, queueVars, up, req, job, inbox, countVars, toldVars, lost>>

\* DSProofSubsMgr::expireSubsNotInMempool and unsubscribeClientsForKeys: the txid of key k is
\* not in the mempool, so it has no proof (status 0).  The clients unsubscribe themselves.
\* Bound: a client has handled one such signal before the next.
ExpireSubs(k) ==
  /\ IsDSProof /\ ntf = Quiet
  /\ truth[k] = 0
  /\ \E o \in SubOf(k) :
       /\ obj[o].ids # {}
       /\ \A c \in obj[o].unsub : \A i \in DOMAIN inbox[c] : inbox[c][i].kind # "unsubscribe"
       /\ obj' = [obj EXCEPT ![o].cached = None]
       /\ inbox' = [c \in Client |->
                      IF c \in obj[o].unsub THEN Append(inbox[c], [kind |-> "unsubscribe", key |-> k])
                      ELSE inbox[c]]
  /\ UNCHANGED <<storageVars, subs, nActive, queueVars, up, req, job, gone, countVars, toldVars, lost>>

-----------------------------------------------------------------------------
(* A client's request to subscribe: Server::impl_generic_subscribe.        *)

\* Bound: a client awaits the answer to its last subscribe before it sends another.
Awaits(c) == job[c] # NoJob \/ \E i \in DOMAIN inbox[c] : inbox[c][i].kind = "result"

\* The first check of the address's limit.
Subscribe(c, k) ==
  /\ c \in up /\ req[c] = NoReq /\ ~Awaits(c) /\ lost < MaxLost
  /\ perIP + 1 <= options.maxSubsPerIP
  /\ req' = [req EXCEPT ![c] = [at |-> "begun", key |-> k]]
  /\ witness' = [witness EXCEPT ![c] = @ \ {k}]
  /\ UNCHANGED <<storageVars, subs, obj, nActive, queueVars, up, job, inbox, gone, countVars,
                 told, wants, crossed, stranded, lost>>

\* Subscription::nGlobalInstances, of all managers.
NumGlobalSubscriptions == Cardinality(Live) + MapThenSumSet(LAMBDA c : elsewhere[c], Client)

IsSubsLimitExceeded == NumGlobalSubscriptions >= options.maxSubsGlobally

\* The global limit is checked before the lock is taken: the request fails, ...
LimitReached(c) ==
  /\ req[c].at = "begun" /\ IsSubsLimitExceeded
  /\ req' = [req EXCEPT ![c] = NoReq]
  /\ UNCHANGED <<storageVars, subs, obj, nActive, queueVars, up, job, inbox, gone, countVars,
                 toldVars, lost>>

\* ... or goes on.
LimitNotReached(c) ==
  /\ req[c].at = "begun" /\ ~IsSubsLimitExceeded
  /\ req' = [req EXCEPT ![c].at = "checked"]
  /\ UNCHANGED <<storageVars, subs, obj, nActive, queueVars, up, job, inbox, gone, countVars,
                 toldVars, lost>>

\* The rest of getOrMakeSubRef, under p->mut.
GetOrMakeSubRef(c) ==
  /\ req[c].at = "checked"
  /\ LET k == req[c].key
         found == subs[k] # NoSub
     IN /\ found \/ options.objects \ Live # {}
        /\ LET o == IF found THEN subs[k] ELSE CHOOSE x \in options.objects \ Live : TRUE
           IN /\ subs' = [subs EXCEPT ![k] = o]
              /\ obj' = [x \in Live \cup {o} |->
                           IF x \in Live THEN obj[x]
                           ELSE [key |-> k, ids |-> {}, unsub |-> {}, last |-> None, cached |-> None]]
              /\ req' = [req EXCEPT ![c] = [at |-> "got", key |-> k, sub |-> o]]
  /\ UNCHANGED <<storageVars, nActive, queueVars, up, job, inbox, gone, countVars, toldVars, lost>>

\* SubsMgr::subscribe, under the Subscription's mut.
Attach(c) ==
  /\ req[c].at = "got"
  /\ LET o == req[c].sub
         k == req[c].key
         wasNew == c \notin obj[o].ids
         crossing == OnItsWay(k) \/ \E i \in DOMAIN inbox[c] : inbox[c][i].key = k
     IN /\ obj' = [obj EXCEPT ![o].ids = @ \cup {c}]
        /\ nActive' = IF wasNew THEN nActive + 1 ELSE nActive
        /\ req' = [req EXCEPT ![c] = [at |-> "attached", key |-> k, wasNew |-> wasNew,
                                      status |-> IF UseStatusCache THEN obj[o].cached ELSE None]]
        /\ stranded' = IF subs[k] = o THEN stranded \ {<<c, k>>} ELSE stranded \cup {<<c, k>>}
        /\ crossed' = [crossed EXCEPT ![c] = IF crossing THEN @ \cup {k} ELSE @ \ {k}]
  /\ UNCHANGED <<storageVars, subs, queueVars, up, job, inbox, gone, countVars, told, wants,
                 witness, lost>>

\* DSProofSubsMgr::subscribe goes on with the Subscription the table has by now, if any.
ConnectUnsubscribe(c) ==
  obj' = [o \in Live |-> IF IsDSProof /\ req[c].wasNew /\ o \in SubOf(req[c].key)
                         THEN [obj[o] EXCEPT !.unsub = @ \cup {c}] ELSE obj[o]]

\* SubsMgr::unsubscribe: what it does to the Subscription of key k, if c is subscribed to it.
Detach(c, k) ==
  /\ obj' = [o \in Live |-> IF o \in SubOf(k) /\ c \in obj[o].ids
                            THEN [obj[o] EXCEPT !.ids = @ \ {c}, !.unsub = @ \ {c}] ELSE obj[o]]
  /\ nActive' = IF Subscribed(c, k) THEN nActive - 1 ELSE nActive

Count(c, n) ==
  /\ nShSubs' = [nShSubs EXCEPT ![c] = @ + n]
  /\ perIP' = perIP + n

\* Mutant: the limit is not checked again once the subscription is counted.
OverLimitNever(c) == FALSE

\* The second CheckSubsLimit, after this request's own increment of perIP.
OverLimit(c) == req[c].wasNew /\ perIP + 1 > options.maxSubsPerIP

\* What the client was told of the keys K no longer matters.
Forget(c, K) ==
  /\ told' = [told EXCEPT ![c] = [k \in Key |-> IF k \in K THEN None ELSE @[k]]]
  /\ wants' = [wants EXCEPT ![c] = @ \ K]
  /\ witness' = [witness EXCEPT ![c] = @ \ K]
  /\ crossed' = [crossed EXCEPT ![c] = @ \ K]
  /\ stranded' = stranded \ ({c} \X K)

\* A new subscription is counted, also one that is stranded.
CountNew(c) ==
  /\ IF req[c].wasNew THEN Count(c, 1) ELSE UNCHANGED <<nShSubs, perIP>>
  /\ uncounted' = IF req[c].wasNew /\ <<c, req[c].key>> \in stranded
                  THEN [uncounted EXCEPT ![c] = @ + 1] ELSE uncounted
  /\ UNCHANGED elsewhere

\* Over the limit: unsubscribed again; a stranded client cannot be, and stays counted.
Denied(c) ==
  /\ req[c].at = "attached" /\ OverLimit(c)
  /\ Detach(c, req[c].key)
  /\ IF Subscribed(c, req[c].key) THEN UNCHANGED countVars ELSE CountNew(c)
  /\ req' = [req EXCEPT ![c] = NoReq]
  /\ Forget(c, {req[c].key})
  /\ UNCHANGED <<storageVars, subs, queueVars, up, job, inbox, gone, lost>>

AnswerCached(c) ==
  /\ req[c].at = "attached" /\ ~OverLimit(c) /\ req[c].status # None
  /\ CountNew(c) /\ ConnectUnsubscribe(c)
  /\ told' = [told EXCEPT ![c][req[c].key] = req[c].status]
  /\ wants' = [wants EXCEPT ![c] = @ \cup {req[c].key}]
  /\ req' = [req EXCEPT ![c] = NoReq]
  /\ UNCHANGED <<storageVars, subs, nActive, queueVars, up, job, inbox, gone, witness, crossed,
                 stranded, lost>>

AnswerAsync(c) ==
  /\ req[c].at = "attached" /\ ~OverLimit(c) /\ req[c].status = None
  /\ CountNew(c) /\ ConnectUnsubscribe(c)
  /\ job' = [job EXCEPT ![c] = [at |-> "status", key |-> req[c].key]]
  /\ wants' = [wants EXCEPT ![c] = @ \cup {req[c].key}]
  /\ req' = [req EXCEPT ![c] = NoReq]
  /\ UNCHANGED <<storageVars, subs, nActive, queueVars, up, inbox, gone, told, witness, crossed,
                 stranded, lost>>

\* The job, in a thread of the pool: getFullStatus, ...
JobStatus(c) ==
  /\ job[c].at = "status"
  /\ job' = [job EXCEPT ![c] = [at |-> "cache", key |-> job[c].key, status |-> truth[job[c].key]]]
  /\ UNCHANGED <<storageVars, subs, obj, nActive, queueVars, up, req, inbox, gone, countVars,
                 toldVars, lost>>

\* ... then maybeCacheStatusResult, and the completion posted to the client if it is still there.
JobDone(c) ==
  /\ job[c].at = "cache"
  /\ obj' = [o \in Live |->
               IF /\ UseStatusCache /\ o \in SubOf(job[c].key)
                  /\ obj[o].last = None /\ obj[o].cached = None
               THEN [obj[o] EXCEPT !.cached = job[c].status]
               ELSE obj[o]]
  /\ inbox' = IF c \in up
              THEN [inbox EXCEPT ![c] = Append(@, [kind |-> "result", key |-> job[c].key,
                                                   status |-> job[c].status])]
              ELSE inbox
  /\ job' = [job EXCEPT ![c] = NoJob]
  /\ UNCHANGED <<storageVars, subs, nActive, queueVars, up, req, gone, countVars, toldVars, lost>>

-----------------------------------------------------------------------------
(* The rest of a client's life.                                            *)

\* A notification or a result reaches the client, which may have unsubscribed by then.
DeliverStatus(c) ==
  /\ c \in up /\ req[c] = NoReq /\ inbox[c] # <<>>
  /\ Head(inbox[c]).kind # "unsubscribe"
  /\ LET e == Head(inbox[c])
     IN told' = IF e.key \in wants[c] THEN [told EXCEPT ![c][e.key] = e.status] ELSE told
  /\ inbox' = [inbox EXCEPT ![c] = Tail(@)]
  /\ UNCHANGED <<storageVars, subs, obj, nActive, queueVars, up, req, job, gone, countVars,
                 wants, witness, crossed, stranded, lost>>

\* The lambda connected to unsubscribeRequested: no count is touched.
DeliverUnsubscribe(c) ==
  /\ c \in up /\ req[c] = NoReq /\ inbox[c] # <<>>
  /\ Head(inbox[c]).kind = "unsubscribe"
  /\ LET k == Head(inbox[c]).key
     IN /\ Detach(c, k)
        /\ Forget(c, {k})
        /\ uncounted' = IF Subscribed(c, k) THEN [uncounted EXCEPT ![c] = @ + 1] ELSE uncounted
  /\ inbox' = [inbox EXCEPT ![c] = Tail(@)]
  /\ UNCHANGED <<storageVars, subs, queueVars, up, req, job, gone, nShSubs, perIP, elsewhere, lost>>

\* impl_generic_unsubscribe.
Unsubscribe(c, k) ==
  /\ c \in up /\ req[c] = NoReq
  /\ Detach(c, k)
  /\ IF Subscribed(c, k) THEN Count(c, -1) ELSE UNCHANGED <<nShSubs, perIP>>
  /\ Forget(c, {k})
  /\ UNCHANGED <<storageVars, subs, queueVars, up, req, job, inbox, gone, elsewhere, uncounted, lost>>

\* The same counts are kept for the subscriptions with the other managers: one step each.
SubscribeElsewhere(c) ==
  /\ c \in up /\ req[c] = NoReq /\ elsewhere[c] < options.elsewhere
  /\ perIP + 1 <= options.maxSubsPerIP /\ ~IsSubsLimitExceeded
  /\ Count(c, 1)
  /\ elsewhere' = [elsewhere EXCEPT ![c] = @ + 1]
  /\ UNCHANGED <<storageVars, subs, obj, nActive, queueVars, up, req, job, inbox, gone, uncounted,
                 toldVars, lost>>

UnsubscribeElsewhere(c) ==
  /\ c \in up /\ req[c] = NoReq /\ elsewhere[c] > 0
  /\ Count(c, -1)
  /\ elsewhere' = [elsewhere EXCEPT ![c] = @ - 1]
  /\ UNCHANGED <<storageVars, subs, obj, nActive, queueVars, up, req, job, inbox, gone, uncounted,
                 toldVars, lost>>

\* The client goes away (or SrvMgr::globalSubsLimitReached kicks its address).
Disconnect(c) ==
  /\ c \in up /\ req[c] = NoReq
  /\ up' = up \ {c}
  /\ perIP' = perIP - nShSubs[c]
  /\ nShSubs' = [nShSubs EXCEPT ![c] = 0]
  /\ elsewhere' = [elsewhere EXCEPT ![c] = 0]
  /\ uncounted' = [uncounted EXCEPT ![c] = 0]
  /\ gone' = gone \cup {<<o, c>> : o \in {x \in Live : c \in obj[x].ids}}
  /\ obj' = [o \in Live |-> [obj[o] EXCEPT !.unsub = @ \ {c}]]
  /\ inbox' = [inbox EXCEPT ![c] = <<>>]
  /\ Forget(c, Key)
  /\ UNCHANGED <<storageVars, subs, nActive, queueVars, req, job, lost>>

\* A new client; it may reuse the name once nothing in the program refers to the old one.
Connect(c) ==
  /\ c \in options.clients \ up /\ job[c] = NoJob /\ \A g \in gone : g[2] # c
  /\ \A o \in Live : c \notin obj[o].ids
  /\ up' = up \cup {c}
  /\ UNCHANGED <<storageVars, subs, obj, nActive, queueVars, req, job, inbox, gone, countVars,
                 toldVars, lost>>

Next ==
  \/ \E k \in Key : ExpireSubs(k) \/ \E s \in Status : Change(k, s)
  \/ EnqueueNotifications
  \/ QueueNoLongerEmpty \/ NotifyCollect \/ NotifyStatus \/ NotifyEmit \/ NotifyDone
  \/ \E o \in SubObj : NotifySkip(o) \/ NotifyCheck(o) \/ DeleteSub(o)
  \/ \E Z \in SUBSET Key : RemoveZombies(Z)
  \/ \E o \in SubObj, c \in Client : ClientDestroyed(o, c)
  \/ \E c \in Client :
       \/ \E k \in Key : Subscribe(c, k) \/ Unsubscribe(c, k)
       \/ LimitReached(c) \/ LimitNotReached(c) \/ GetOrMakeSubRef(c) \/ Attach(c)
       \/ Denied(c) \/ AnswerCached(c) \/ AnswerAsync(c)
       \/ JobStatus(c) \/ JobDone(c) \/ DeliverStatus(c) \/ DeliverUnsubscribe(c)
       \/ SubscribeElsewhere(c) \/ UnsubscribeElsewhere(c)
       \/ Disconnect(c) \/ Connect(c)

Spec == Init /\ [][Next]_vars

-----------------------------------------------------------------------------
(* Properties.                                                             *)

\* The state keeps its shape.
TypeOK ==
  /\ options \in Setting
  /\ truth \in [Key -> Status] /\ staged \subseteq Key /\ pending \subseteq Key
  /\ subs \in [Key -> SubObj \cup {NoSub}]
  /\ \A o \in Live :
       /\ obj[o].key \in Key /\ obj[o].ids \subseteq Client /\ obj[o].unsub \subseteq up
       /\ obj[o].last \in Status \cup {None} /\ obj[o].cached \in Status \cup {None}
  /\ \A k \in Key : \A o \in SubOf(k) : o \in Live /\ obj[o].key = k
  /\ signals \in Nat /\ timer \in BOOLEAN /\ ntf.left \subseteq Live
  /\ up \subseteq Client /\ gone \subseteq Live \X Client
  /\ nShSubs \in [Client -> Nat] /\ perIP \in Nat /\ nActive \in Nat
  /\ told \in [Client -> [Key -> Status \cup {None}]]

\* Nothing is left for the program to do about notifications and answers.
AtRest ==
  /\ staged = {} /\ signals = 0 /\ ~timer /\ ntf = Quiet
  /\ \A c \in Client : req[c] = NoReq /\ job[c] = NoJob /\ (c \in up => inbox[c] = <<>>)

\* A client whose subscribe request had been answered when a key changed has, once the program
\* is at rest, last been told the status the key has now (enqueueNotifications, the timer and
\* doNotifyAllPending lose no wakeup and no client), with two exceptions: the client of a
\* Subscription that removeZombies took out of the table while subscribe() was about to use it
\* (stranded); and a key that returns to the status last notified before the manager looks,
\* where the client's answer had crossed an earlier change and told it another (Returns).
SubscribersHearChanges ==
  AtRest => \A c \in up : \A k \in witness[c] : told[c][k] = truth[k]

\* numActiveClientSubscriptions counts the clients in all Subscriptions, and beyond these only
\* the ones whose Subscription was deleted under them, which nothing takes off the count again.
ActiveCountMatches == nActive = MapThenSumSet(LAMBDA o : Cardinality(obj[o].ids), Live) + lost

\* Once no request is under way: each client is counted for its subscriptions with this manager
\* and with the others, and beyond these only for those it lost by a removal of zombies during
\* its subscribe() or, of double-spend proofs, by expiry, which Servers.cpp does not learn of;
\* the count of the address is the sum of its clients'; and without the lost ones it respects
\* max_subs_per_ip.
PerIPCountMatches ==
  (\A c \in Client : req[c] = NoReq) =>
    /\ \A c \in up :
         nShSubs[c] = elsewhere[c] + Cardinality({k \in Key : Subscribed(c, k)}) + uncounted[c]
    /\ perIP = MapThenSumSet(LAMBDA c : nShSubs[c], up)
    /\ perIP - MapThenSumSet(LAMBDA c : uncounted[c], up) <= options.maxSubsPerIP
=============================================================================
