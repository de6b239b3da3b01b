---------------------------- MODULE BitcoinDMgr ----------------------------
(***************************************************************************)
(* Requests to bitcoind (BitcoinDMgr::submitRequest) and the signals that  *)
(* say which of its connections are good.  Four kinds of threads take part:*)
(* the sender of the requests, BitcoinDMgr, one thread per connection      *)
(* (BitcoinD), and the Controller, which stops when all are lost.  Signals *)
(* between threads are events in the receiver's queue; isGood() is read by *)
(* BitcoinDMgr at once, so that it may be newer than the event handled.    *)
(*                                                                         *)
(* The context of a request is owned by the lambdas connected to its       *)
(* signals, by events that are to run one of them, and by the event of     *)
(* submitRequest; the table has a weak reference only.                     *)
(*                                                                         *)
(* BitcoinDMgr submits requests of its own, too.  A signal to itself is a  *)
(* call: the handler runs before its thread does anything else.            *)
(*                                                                         *)
(* The connections are plain TCP, as they are without --bitcoind-tls.      *)
(***************************************************************************)
EXTENDS Naturals, Sequences, SequencesExt

CONSTANTS Clients,         \* the connections to bitcoind (nClients of them)
          Requests,        \* ids of requests, unique by newId()
          MaxConnects      \* bound: how often a connection is established

VARIABLES
    up,         \* per connection: status = Connected (0 or 1)
    hooked,     \* per connection: connectedConns are connected
    needAuth,   \* per connection
    badAuth,    \* per connection
    calls,      \* per connection: queued calls of _sendRequest
    wire,       \* per connection: requests that bitcoind may answer
    connects,   \* bound: number of connections established
    mgr,        \* BitcoinDMgr's event queue
    goodSet,
    chkTimer,   \* is the timer checkNoMoreBitcoinDs active?
    table,      \* keys of reqContextTable
    bd,         \* per request: the connection that services it
    timedOut,   \* requests whose context is flagged
    own,        \* requests whose sender is BitcoinDMgr itself
    fresh,      \* requests not submitted yet
    linked,     \* contexts whose lambdas are connected to the sender
    replied,    \* contexts flagged as replied
    cleanup,    \* contexts whose signal destroyed is connected to BitcoinDMgr
    inbox,      \* per request: the signals queued for the sender
    answers,    \* per request: (ghost) the callbacks that were called
    alive,      \* the sender of the others exists (0 or 1)
    controller, \* the Controller's event queue
    lostConn    \* Controller::lostConn

connection == <<up, hooked, needAuth, badAuth, calls, wire, connects>>
requests == <<table, bd, timedOut, own, fresh, linked, replied, cleanup, inbox, answers, alive>>
good == <<goodSet, chkTimer, controller, lostConn>>
vars == <<connection, mgr, good, requests>>

isGood(c) == badAuth[c] = 0 /\ needAuth[c] = 0 /\ up[c] = 1

\* Is there still a shared_ptr to the context of r?
Owned(r, ls, ib, q) ==
    r \in ls \/ ib[r] # <<>> \/ Contains(q, [type |-> "submit", id |-> r])

\* The queue of BitcoinDMgr once the contexts of rs may have lost an owner:
\* the deleter calls deleteLater, which leads to destroyed().
Released(rs, ls, ib, q) ==
    q \o SetToSeq({[type |-> "destroyed", id |-> r] :
                     r \in {x \in rs : ~Owned(x, ls, ib, q)}})

\* emit context->...: queued for the sender, if still connected
Emitted(rs, signal) ==
    [r \in Requests |-> IF r \in rs \cap linked THEN Append(inbox[r], signal)
                                                ELSE inbox[r]]

Init ==
    /\ up = [c \in Clients |-> 0] /\ hooked = [c \in Clients |-> 0]
    /\ needAuth = [c \in Clients |-> 1] /\ badAuth = [c \in Clients |-> 0]
    /\ calls = [c \in Clients |-> <<>>] /\ wire = [c \in Clients |-> {}]
    /\ connects = 0
    /\ mgr = <<>> /\ goodSet = {} /\ chkTimer = 0
    /\ table = {} /\ bd = [r \in Requests |-> "none"] /\ timedOut = {}
    /\ own \in SUBSET Requests
    /\ fresh = Requests /\ linked = {} /\ replied = {} /\ cleanup = {}
    /\ inbox = [r \in Requests |-> <<>>] /\ answers = [r \in Requests |-> <<>>]
    /\ alive = 1
    /\ controller = <<>> /\ lostConn = 1

-----------------------------------------------------------------------------
(* The threads of the connections *)

\* on_socketState: the socket that reconnect() has made is connected.  The
\* flags of the last connection are still there.
SocketConnected(c) ==
    /\ up[c] = 0 /\ hooked[c] = 0
    /\ connects < MaxConnects
    /\ connects' = connects + 1
    /\ up' = [up EXCEPT ![c] = 1]
    /\ UNCHANGED <<hooked, needAuth, badAuth, calls, wire, mgr, good, requests>>

\* A mutant for on_connected: the flags of the last connection are kept.
on_connectedKeepsAuth(c) ==
    /\ up[c] = 1 /\ hooked[c] = 0
    /\ hooked' = [hooked EXCEPT ![c] = 1]
    /\ UNCHANGED <<up, needAuth, badAuth, calls, wire, connects, mgr, good, requests>>

\* BitcoinD::on_connected; do_ping's reply is in GotMessage.
on_connected(c) ==
    /\ up[c] = 1 /\ hooked[c] = 0
    /\ hooked' = [hooked EXCEPT ![c] = 1]
    /\ badAuth' = [badAuth EXCEPT ![c] = 0]
    /\ needAuth' = [needAuth EXCEPT ![c] = 1]
    /\ UNCHANGED <<up, calls, wire, connects, mgr, good, requests>>

\* on_socketState: the connection is lost, or do_disconnect, or reconnect(),
\* by the timer or because the connection is stale, deletes the socket.
SocketUnconnected(c) ==
    /\ up[c] = 1 /\ hooked[c] = 1
    /\ up' = [up EXCEPT ![c] = 0]
    /\ UNCHANGED <<hooked, needAuth, badAuth, calls, wire, connects, mgr, good,
                   requests>>

\* on_disconnected, and lostConnection, to which BitcoinDMgr has two slots
on_disconnected(c) ==
    /\ up[c] = 0 /\ hooked[c] = 1
    /\ hooked' = [hooked EXCEPT ![c] = 0]
    /\ wire' = [wire EXCEPT ![c] = {}]
    /\ mgr' = mgr \o <<[type |-> "lostRequests", id |-> c],
                       [type |-> "lostConnection", id |-> c]>>
    /\ UNCHANGED <<up, needAuth, badAuth, calls, connects, good, requests>>

\* Between the two halves of connecting and disconnecting, no event is handled.
\* (With TLS, which is not modelled, on_connected waits for the handshake.)
Settled(c) == up[c] = hooked[c]

\* _sendRequest; do_disconnect does nothing to a connection that is not up.
SendRequest(c) ==
    /\ Settled(c) /\ calls[c] # <<>>
    /\ calls' = [calls EXCEPT ![c] = Tail(@)]
    /\ wire' = IF up[c] = 1 THEN [wire EXCEPT ![c] = @ \cup {Head(calls[c])}]
                            ELSE wire
    /\ UNCHANGED <<up, hooked, needAuth, badAuth, connects, mgr, good, requests>>

\* gotMessage, connected in connectMiscSignals: the first good reply after
\* on_connected (to the ping, or to a request) emits authenticated, ahead of
\* the event for the message itself.
Authenticate(c, event) ==
    /\ needAuth' = [needAuth EXCEPT ![c] = 0]
    /\ badAuth' = [badAuth EXCEPT ![c] = 0]
    /\ mgr' = mgr \o (IF needAuth[c] = 1 \/ badAuth[c] = 1
                      THEN <<[type |-> "authenticated", id |-> c]>> ELSE <<>>) \o event

\* bitcoind answers the ping.
PingReply(c) ==
    /\ Settled(c) /\ up[c] = 1
    /\ needAuth[c] = 1 \/ badAuth[c] = 1
    /\ Authenticate(c, <<>>)
    /\ UNCHANGED <<up, hooked, calls, wire, connects, good, requests>>

\* bitcoind answers a request: gotMessage
GotMessage(c, r) ==
    /\ Settled(c) /\ r \in wire[c]
    /\ wire' = [wire EXCEPT ![c] = @ \ {r}]
    /\ Authenticate(c, <<[type |-> "results", id |-> r]>>)
    /\ UNCHANGED <<up, hooked, calls, connects, good, requests>>

\* bitcoind answers a request with an error: gotErrorMessage
GotErrorMessage(c, r) ==
    /\ Settled(c) /\ r \in wire[c]
    /\ wire' = [wire EXCEPT ![c] = @ \ {r}]
    /\ mgr' = Append(mgr, [type |-> "error", id |-> r])
    /\ UNCHANGED <<up, hooked, needAuth, badAuth, calls, connects, good, requests>>

\* authFailure: bitcoind rejects the credentials of the first request.
AuthFailure(c) ==
    /\ Settled(c) /\ up[c] = 1 /\ needAuth[c] = 1 /\ badAuth[c] = 0
    /\ badAuth' = [badAuth EXCEPT ![c] = 1]
    /\ UNCHANGED <<up, hooked, needAuth, calls, wire, connects, mgr, good, requests>>

-----------------------------------------------------------------------------
(* The sender *)

\* submitRequest connects the context's signals and calls AsyncOnObject.
submitRequest(r) ==
    /\ r \in fresh /\ (alive = 1 \/ r \in own)
    /\ fresh' = fresh \ {r}
    /\ linked' = linked \cup {r}
    /\ mgr' = Append(mgr, [type |-> "submit", id |-> r])
    /\ UNCHANGED <<connection, good, table, bd, timedOut, own, replied, cleanup, inbox,
                   answers, alive>>

\* A mutant for Handler: replied is not looked at.
HandlerUnguarded(r) ==
    /\ inbox[r] # <<>>
    /\ answers' = [answers EXCEPT ![r] = Append(@, Head(inbox[r]))]
    /\ replied' = replied \cup {r}
    /\ linked' = linked \ {r}
    /\ inbox' = [inbox EXCEPT ![r] = Tail(@)]
    /\ cleanup' = IF r \in own THEN cleanup \ {r} ELSE cleanup
    /\ mgr' = Released({r}, linked', inbox', mgr)
    /\ UNCHANGED <<connection, good, table, bd, timedOut, own, fresh, alive>>

\* The lambda for results, error or fail runs in the sender's thread.  What is
\* queued already still runs after the disconnect.  If the sender is BitcoinDMgr,
\* context->disconnect(nullptr, sender) disconnects the slot for destroyed, too.
Handler(r) ==
    /\ inbox[r] # <<>>
    /\ answers' = IF r \in replied THEN answers
                  ELSE [answers EXCEPT ![r] = Append(@, Head(inbox[r]))]
    /\ replied' = replied \cup {r}
    /\ linked' = linked \ {r}
    /\ inbox' = [inbox EXCEPT ![r] = Tail(@)]
    /\ cleanup' = IF r \in own THEN cleanup \ {r} ELSE cleanup
    /\ mgr' = Released({r}, linked', inbox', mgr)
    /\ UNCHANGED <<connection, good, table, bd, timedOut, own, fresh, alive>>

\* The sender is deleted, and with it its connections and events.
SenderDeleted ==
    /\ alive = 1
    /\ alive' = 0
    /\ linked' = linked \cap own
    /\ inbox' = [r \in Requests |-> IF r \in own THEN inbox[r] ELSE <<>>]
    /\ mgr' = Released({r \in Requests \ own : Owned(r, linked, inbox, mgr)},
                       linked', inbox', mgr)
    /\ UNCHANGED <<connection, good, table, bd, timedOut, own, fresh, replied, cleanup,
                   answers>>

-----------------------------------------------------------------------------
(* BitcoinDMgr's thread *)

\* No handler of a request of its own has been called and not returned.
NoCall == \A r \in own : inbox[r] = <<>>

Handles(type, id) == NoCall /\ mgr # <<>> /\ Head(mgr) = [type |-> type, id |-> id]

\* getBitcoinD; round-robin is left open
getBitcoinD == {c \in goodSet : isGood(c)}

\* A mutant for Submitted: destroyed is not connected.
SubmittedNoCleanup(r) ==
    /\ Handles("submit", r)
    /\ \/ /\ getBitcoinD = {}
          /\ inbox' = Emitted({r}, "fail")
          /\ UNCHANGED <<bd, table, cleanup, calls>>
       \/ \E c \in getBitcoinD :
             /\ bd' = [bd EXCEPT ![r] = c]
             /\ table' = table \cup {r}
             /\ cleanup' = cleanup
             /\ calls' = IF hooked[c] = 1 THEN [calls EXCEPT ![c] = Append(@, r)]
                                          ELSE calls
             /\ UNCHANGED inbox
    /\ mgr' = Released({r}, linked, inbox', Tail(mgr))
    /\ UNCHANGED <<up, hooked, needAuth, badAuth, wire, connects, good, timedOut,
                   own, fresh, linked, replied, answers, alive>>

\* The event of submitRequest; sendRequest reaches a connection only while it
\* is connected to _sendRequest.
Submitted(r) ==
    /\ Handles("submit", r)
    /\ \/ /\ getBitcoinD = {}
          /\ inbox' = Emitted({r}, "fail")
          /\ UNCHANGED <<bd, table, cleanup, calls>>
       \/ \E c \in getBitcoinD :
             /\ bd' = [bd EXCEPT ![r] = c]
             /\ table' = table \cup {r}
             /\ cleanup' = cleanup \cup {r}
             /\ calls' = IF hooked[c] = 1 THEN [calls EXCEPT ![c] = Append(@, r)]
                                          ELSE calls
             /\ UNCHANGED inbox
    /\ mgr' = Released({r}, linked, inbox', Tail(mgr))
    /\ UNCHANGED <<up, hooked, needAuth, badAuth, wire, connects, good, timedOut,
                   own, fresh, linked, replied, answers, alive>>

\* The context is deleted: the slot for destroyed, if it is still connected.
Destroyed(r) ==
    /\ Handles("destroyed", r)
    /\ table' = IF r \in cleanup THEN table \ {r} ELSE table
    /\ mgr' = Tail(mgr)
    /\ UNCHANGED <<connection, good, bd, timedOut, own, fresh, linked, replied, cleanup,
                   inbox, answers, alive>>

\* on_Message, on_ErrorMessage: handleMessageCommon
handleMessageCommon(r, signal) ==
    /\ Handles(signal, r)
    /\ table' = table \ {r}
    /\ inbox' = IF r \in table THEN Emitted({r}, signal) ELSE inbox
    /\ mgr' = Tail(mgr)
    /\ UNCHANGED <<connection, good, bd, timedOut, own, fresh, linked, replied, cleanup,
                   answers, alive>>

\* The contexts in the table that lock() finds alive
Extant == {r \in table : Owned(r, linked, inbox, mgr)}

\* A mutant for requestTimeoutChecker: only what has reached bitcoind times out.
requestTimeoutCheckerWaits(rs) ==
    /\ NoCall /\ rs # {} /\ rs \subseteq Extant \ timedOut
    /\ \A r \in rs : r \in wire[bd[r]]
    /\ timedOut' = timedOut \cup rs
    /\ inbox' = Emitted(rs, "fail")
    /\ UNCHANGED <<connection, mgr, good, table, bd, own, fresh, linked, replied, cleanup,
                   answers, alive>>

\* The time-out of the requests rs has passed.
requestTimeoutChecker(rs) ==
    /\ NoCall /\ rs # {} /\ rs \subseteq Extant \ timedOut
    /\ timedOut' = timedOut \cup rs
    /\ inbox' = Emitted(rs, "fail")
    /\ UNCHANGED <<connection, mgr, good, table, bd, own, fresh, linked, replied, cleanup,
                   answers, alive>>

\* The first slot for lostConnection
notifyFailForRequestsMatchingBitcoinD(c) ==
    /\ Handles("lostRequests", c)
    /\ inbox' = Emitted({r \in Extant : bd[r] = c}, "fail")
    /\ mgr' = Tail(mgr)
    /\ UNCHANGED <<connection, good, table, bd, timedOut, own, fresh, linked, replied,
                   cleanup, answers, alive>>

\* The slot for authenticated
Authenticated(c) ==
    /\ Handles("authenticated", c)
    /\ goodSet' = IF isGood(c) THEN goodSet \cup {c} ELSE goodSet
    /\ controller' = IF isGood(c) /\ goodSet = {} THEN Append(controller, "good")
                                                  ELSE controller
    /\ mgr' = Tail(mgr)
    /\ UNCHANGED <<connection, chkTimer, lostConn, requests>>

\* A mutant for LostConnection: the connection stays in goodSet.
LostConnectionKeepsGood(c) ==
    /\ Handles("lostConnection", c)
    /\ chkTimer' = IF isGood(c) THEN chkTimer ELSE 1
    /\ mgr' = Tail(mgr)
    /\ UNCHANGED <<connection, goodSet, controller, lostConn, requests>>

\* The second slot for lostConnection
LostConnection(c) ==
    /\ Handles("lostConnection", c)
    /\ IF isGood(c) THEN UNCHANGED <<goodSet, chkTimer>>
       ELSE goodSet' = goodSet \ {c} /\ chkTimer' = 1
    /\ mgr' = Tail(mgr)
    /\ UNCHANGED <<connection, controller, lostConn, requests>>

\* A mutant for checkNoMoreBitcoinDs: goodSet is not looked at again.
checkNoMoreBitcoinDsBlind ==
    /\ NoCall /\ chkTimer = 1
    /\ chkTimer' = 0
    /\ controller' = Append(controller, "lost")
    /\ UNCHANGED <<connection, mgr, goodSet, lostConn, requests>>

\* The timer checkNoMoreBitcoinDs
checkNoMoreBitcoinDs ==
    /\ NoCall /\ chkTimer = 1
    /\ chkTimer' = 0
    /\ controller' = IF goodSet = {} THEN Append(controller, "lost") ELSE controller
    /\ UNCHANGED <<connection, mgr, goodSet, lostConn, requests>>

-----------------------------------------------------------------------------
(* The Controller's slots for allConnectionsLost and gotFirstGoodConnection *)

ControllerHears ==
    /\ controller # <<>>
    /\ lostConn' = IF Head(controller) = "lost" THEN 1 ELSE 0
    /\ controller' = Tail(controller)
    /\ UNCHANGED <<connection, mgr, goodSet, chkTimer, requests>>

-----------------------------------------------------------------------------

ClientStep(c) ==
    \/ on_connected(c) \/ on_disconnected(c) \/ SendRequest(c)

NetworkStep(c) ==
    \/ SocketConnected(c) \/ SocketUnconnected(c) \/ PingReply(c) \/ AuthFailure(c)
    \/ \E r \in Requests : GotMessage(c, r) \/ GotErrorMessage(c, r)

MgrStep ==
    \/ \E r \in Requests :
          \/ Submitted(r) \/ Destroyed(r)
          \/ \E signal \in {"results", "error"} : handleMessageCommon(r, signal)
    \/ \E c \in Clients : \/ notifyFailForRequestsMatchingBitcoinD(c)
                          \/ Authenticated(c) \/ LostConnection(c)

SenderStep == \E r \in Requests : submitRequest(r) \/ Handler(r)

Next ==
    \/ \E c \in Clients : ClientStep(c) \/ NetworkStep(c)
    \/ MgrStep \/ checkNoMoreBitcoinDs \/ ControllerHears
    \/ SenderStep \/ SenderDeleted
    \/ \E rs \in SUBSET Requests : requestTimeoutChecker(rs)

Spec == Init /\ [][Next]_vars

(***************************************************************************)
(* The event loops of the threads run and their timers fire, among them    *)
(* the reconnect timer of a connection that is not authenticated.  Nothing *)
(* is assumed of bitcoind and the network.                                 *)
(***************************************************************************)
FairSpec ==
    /\ Spec
    /\ \A c \in Clients :
          /\ WF_vars(ClientStep(c))
          /\ WF_vars(~isGood(c) /\ SocketUnconnected(c))
    /\ WF_vars(MgrStep) /\ WF_vars(checkNoMoreBitcoinDs) /\ WF_vars(ControllerHears)
    /\ \A r \in Requests :
          /\ WF_vars(Handler(r))
          /\ WF_vars(\E rs \in SUBSET Requests : r \in rs /\ requestTimeoutChecker(rs))

-----------------------------------------------------------------------------

\* The variables have their types.
TypeOK ==
    /\ {up, hooked, needAuth, badAuth} \subseteq [Clients -> {0, 1}]
    /\ \A c \in Clients : IsInjective(calls[c]) /\ Range(calls[c]) \subseteq Requests
    /\ wire \in [Clients -> SUBSET Requests]
    /\ connects \in 0..MaxConnects
    /\ \A i \in DOMAIN mgr :
          \/ /\ mgr[i].type \in {"submit", "destroyed", "results", "error"}
             /\ mgr[i].id \in Requests
          \/ /\ mgr[i].type \in {"lostRequests", "lostConnection", "authenticated"}
             /\ mgr[i].id \in Clients
    /\ goodSet \subseteq Clients /\ {chkTimer, alive, lostConn} \subseteq {0, 1}
    /\ {table, timedOut, own, fresh, linked, replied, cleanup} \subseteq SUBSET Requests
    /\ \A r \in table : bd[r] \in Clients
    /\ \A r \in Requests :
          Range(inbox[r]) \cup Range(answers[r]) \subseteq {"results", "error", "fail"}
    /\ Range(controller) \subseteq {"good", "lost"}

(***************************************************************************)
(* Of a request's callbacks at most one is called, and at most once,       *)
(* though a reply, a time-out and a lost connection may all be signalled.  *)
(***************************************************************************)
AnsweredOnce == \A r \in Requests : Len(answers[r]) <= 1

(***************************************************************************)
(* An entry of reqContextTable whose context is gone is about to be        *)
(* removed, except those of BitcoinDMgr's own requests that have failed:   *)
(* their handler has disconnected the slot that would remove them, and     *)
(* only a late reply with the same id does.                                *)
(***************************************************************************)
NoEntryLeftBehind ==
    \A r \in table : \/ r \in Extant
                     \/ Contains(mgr, [type |-> "destroyed", id |-> r])
                     \/ r \in own /\ answers[r] = <<"fail">>

(***************************************************************************)
(* goodSet knows every connection that is authenticated, once its signals  *)
(* are handled, however late they were handled and whichever were taken to *)
(* be stale.                                                               *)
(***************************************************************************)
GoodConnectionsKnown ==
    \A c \in Clients :
        isGood(c) /\ Settled(c) /\ ~Contains(mgr, [type |-> "authenticated", id |-> c])
            => c \in goodSet

\* One of the callbacks is called, as long as the sender exists, whatever
\* bitcoind and the connections do.
EventuallyAnswered ==
    \A r \in Requests :
        r \notin fresh ~> answers[r] # <<>> \/ (r \notin own /\ alive = 0)

\* The Controller resumes when a connection stays good.
LearnsOfConnection ==
    (\E c \in Clients : <>[]isGood(c)) => <>[](lostConn = 0)

\* The Controller stops when no connection is good any more.
LearnsOfLoss == <>[](\A c \in Clients : ~isGood(c)) => <>[](lostConn = 1)

=============================================================================
