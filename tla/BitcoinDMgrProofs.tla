------------------------- MODULE BitcoinDMgrProofs -------------------------
(***************************************************************************)
(* Proofs about BitcoinDMgr for any number of connections, of requests and *)
(* of reconnections.                                                       *)
(***************************************************************************)
EXTENDS BitcoinDMgr, FiniteSetTheorems, TLAPS

Signal == {"results", "error", "fail"}

ConnEvent == [type : {"lostRequests", "lostConnection", "authenticated", "results", "error"},
              id : Requests \cup Clients]

Event == [type : {"lostRequests", "lostConnection", "authenticated", "results", "error",
                  "submit", "destroyed"},
          id : Requests \cup Clients]

\* What the proofs need of the types.
Shape ==
    /\ up \in [Clients -> {0, 1}] /\ hooked \in [Clients -> {0, 1}]
    /\ needAuth \in [Clients -> {0, 1}] /\ badAuth \in [Clients -> {0, 1}]
    /\ mgr \in Seq(Event)
    /\ table \subseteq Requests /\ fresh \subseteq Requests /\ linked \subseteq Requests
    /\ inbox \in [Requests -> Seq(Signal)] /\ answers \in [Requests -> Seq(Signal)]

\* A callback has been called only if the context is flagged.
Unanswered == \A r \in Requests : r \notin replied => answers[r] = <<>>

\* At any time finitely many requests have been submitted, and only they have a context.
Submission ==
    /\ IsFiniteSet(Requests \ fresh)
    /\ \A r \in fresh : ~Owned(r, linked, inbox, mgr)

\* e is in the queue q at most once.
Once(q, e) == \A i, j \in 1..Len(q) : q[i] = e /\ q[j] = e => i = j

\* A request is submitted once, and until that event is handled BitcoinDMgr knows nothing
\* of it.
Waiting ==
    \A r \in Requests :
        /\ Once(mgr, [type |-> "submit", id |-> r])
        /\ r \in fresh \/ Contains(mgr, [type |-> "submit", id |-> r])
              => r \notin table /\ r \notin replied /\ inbox[r] = <<>>

AllFail(sq) == \A i \in 1..Len(sq) : sq[i] = "fail"

\* A reply takes the entry out of the table: while it is there, only failures have been
\* signalled.  The slot for destroyed is connected until a handler of BitcoinDMgr's own has run.
Entries ==
    \A r \in table :
        /\ AllFail(inbox[r])
        /\ r \in replied => answers[r] = <<"fail">>
        /\ r \notin cleanup => r \in own /\ r \in replied

\* The inductive invariant: what happens to a request needs nothing of goodSet.
RequestInv ==
    /\ Shape /\ Unanswered /\ AnsweredOnce
    /\ Submission /\ Waiting /\ Entries /\ NoEntryLeftBehind

-----------------------------------------------------------------------------
(* Queues.                                                                 *)

\* An element of a queue that others are added to was there or is one of them.
LEMMA ConcatContains ==
    ASSUME NEW S, NEW p \in Seq(S), NEW q \in Seq(S), NEW e
    PROVE  Contains(p \o q, e) <=> Contains(p, e) \/ Contains(q, e)
<1>1. ASSUME NEW i \in 1..Len(p), p[i] = e PROVE Contains(p \o q, e)
  <2>1. i \in 1..Len(p \o q) /\ (p \o q)[i] = e
    BY <1>1
  <2> QED BY <2>1 DEF Contains
<1>2. ASSUME NEW i \in 1..Len(q), q[i] = e PROVE Contains(p \o q, e)
  <2>1. Len(p) + i \in 1..Len(p \o q) /\ (p \o q)[Len(p) + i] = e
    BY <1>2
  <2> QED BY <2>1 DEF Contains
<1>3. ASSUME NEW i \in 1..Len(p \o q), (p \o q)[i] = e
      PROVE  Contains(p, e) \/ Contains(q, e)
  <2>1. CASE i <= Len(p)
    <3>1. i \in 1..Len(p) /\ p[i] = e
      BY <1>3, <2>1
    <3> QED BY <3>1 DEF Contains
  <2>2. CASE i > Len(p)
    <3>1. i - Len(p) \in 1..Len(q) /\ q[i - Len(p)] = e
      BY <1>3, <2>2
    <3> QED BY <3>1 DEF Contains
  <2> QED BY <2>1, <2>2
<1> QED BY <1>1, <1>2, <1>3 DEF Contains

\* An element of a queue is its head or is left when the head is taken.
LEMMA TailContains ==
    ASSUME NEW S, NEW q \in Seq(S), q # <<>>, NEW e
    PROVE  Contains(q, e) <=> Head(q) = e \/ Contains(Tail(q), e)
<1>1. ASSUME NEW i \in 1..Len(q), q[i] = e PROVE Head(q) = e \/ Contains(Tail(q), e)
  <2>1. CASE i = 1
    BY <1>1, <2>1
  <2>2. CASE i # 1
    <3>1. i - 1 \in 1..Len(Tail(q)) /\ Tail(q)[i - 1] = e
      BY <1>1, <2>2
    <3> QED BY <3>1, Zenon DEF Contains
  <2> QED BY <2>1, <2>2
<1>2. ASSUME Head(q) = e PROVE Contains(q, e)
  <2>1. 1 \in 1..Len(q) /\ q[1] = e
    BY <1>2
  <2> QED BY <2>1 DEF Contains
<1>3. ASSUME NEW i \in 1..Len(Tail(q)), Tail(q)[i] = e PROVE Contains(q, e)
  <2>1. i + 1 \in 1..Len(q) /\ q[i + 1] = e
    BY <1>3
  <2> QED BY <2>1 DEF Contains
<1> QED BY <1>1, <1>2, <1>3 DEF Contains

\* One event more in a queue.
LEMMA AppendContains ==
    ASSUME NEW S, NEW q \in Seq(S), NEW x \in S
    PROVE  /\ Append(q, x) \in Seq(S)
           /\ \A e : Contains(Append(q, x), e) <=> Contains(q, e) \/ x = e
<1>1. Append(q, x) \in Seq(S) /\ Append(q, x) = q \o <<x>> /\ <<x>> \in Seq(S)
  OBVIOUS
<1>2. \A e : Contains(<<x>>, e) <=> x = e
  BY DEF Contains
<1>3. \A e : Contains(q \o <<x>>, e) <=> Contains(q, e) \/ Contains(<<x>>, e)
  <2> DEFINE last == <<x>>
  <2>1. last \in Seq(S)
    BY <1>1
  <2> HIDE DEF last
  <2>2. \A e : Contains(q \o last, e) <=> Contains(q, e) \/ Contains(last, e)
    BY <2>1, ConcatContains, Zenon
  <2> QED BY <2>2 DEF last
<1> QED BY <1>1, <1>2, <1>3, Zenon

\* What is not added again stays single.
LEMMA ConcatOnce ==
    ASSUME NEW S, NEW p \in Seq(S), NEW q \in Seq(S), NEW e, Once(p, e), ~ Contains(q, e)
    PROVE  Once(p \o q, e)
<1> SUFFICES ASSUME NEW i \in 1..Len(p \o q), NEW j \in 1..Len(p \o q),
                    (p \o q)[i] = e, (p \o q)[j] = e
             PROVE  i = j
  BY DEF Once
<1>1. ASSUME NEW k \in 1..Len(p \o q), (p \o q)[k] = e PROVE k \in 1..Len(p) /\ p[k] = e
  <2>1. CASE k > Len(p)
    <3>1. k - Len(p) \in 1..Len(q) /\ q[k - Len(p)] = e
      BY <1>1, <2>1
    <3> QED BY <3>1 DEF Contains
  <2>2. CASE k <= Len(p)
    BY <1>1, <2>2
  <2> QED BY <2>1, <2>2
<1> QED BY <1>1 DEF Once

\* A new element is single.
LEMMA AppendOnce ==
    ASSUME NEW S, NEW q \in Seq(S), NEW x \in S, NEW e, Once(q, e),
           x = e => ~ Contains(q, e)
    PROVE  Once(Append(q, x), e)
<1> SUFFICES ASSUME NEW i \in 1..(Len(q) + 1), NEW j \in 1..(Len(q) + 1),
                    Append(q, x)[i] = e, Append(q, x)[j] = e
             PROVE  i = j
  BY DEF Once
<1>1. \A k \in 1..Len(q) : Append(q, x)[k] = q[k]
  OBVIOUS
<1>2. Append(q, x)[Len(q) + 1] = x
  OBVIOUS
<1>3. CASE x = e
  BY <1>1, <1>3 DEF Contains
<1>4. CASE x # e
  BY <1>1, <1>2, <1>4 DEF Once
<1> QED BY <1>3, <1>4

\* A single element is gone when it is taken.
LEMMA TailOnce ==
    ASSUME NEW S, NEW q \in Seq(S), q # <<>>, NEW e, Once(q, e)
    PROVE  Once(Tail(q), e) /\ (Head(q) = e => ~ Contains(Tail(q), e))
<1>1. \A k \in 1..Len(Tail(q)) : Tail(q)[k] = q[k + 1] /\ k + 1 \in 1..Len(q)
  OBVIOUS
<1>2. Once(Tail(q), e)
  <2> SUFFICES ASSUME NEW i \in 1..Len(Tail(q)), NEW j \in 1..Len(Tail(q)),
                      Tail(q)[i] = e, Tail(q)[j] = e
               PROVE  i = j
    BY DEF Once
  <2>1. i + 1 = j + 1
    BY <1>1 DEF Once
  <2> QED BY <2>1
<1>3. ASSUME Head(q) = e, NEW k \in 1..Len(Tail(q)), Tail(q)[k] = e PROVE FALSE
  <2>1. 1 \in 1..Len(q) /\ q[1] = e
    BY <1>3
  <2>2. k + 1 = 1
    BY <1>1, <1>3, <2>1 DEF Once
  <2> QED BY <2>2
<1> QED BY <1>2, <1>3 DEF Contains

\* A finite set written as a sequence.
LEMMA SetToSeqContains ==
    ASSUME NEW S, IsFiniteSet(S)
    PROVE  /\ SetToSeq(S) \in Seq(S)
           /\ \A e : Contains(SetToSeq(S), e) <=> e \in S
<1>1. PICK n \in Nat : ExistsBijection(1..n, S)
  BY FS_NatBijection
<1>2. Cardinality(S) = n
  BY <1>1, FS_CountingElements
<1> DEFINE g == SetToSeq(S)
<1>3. g \in [1..n -> S] /\ IsInjective(g)
  <2>1. \E f \in [1..n -> S] : IsInjective(f)
    BY <1>1 DEF ExistsBijection, Bijection, Injection, IsInjective
  <2> QED BY <1>2, <2>1 DEF SetToSeq
<1> HIDE DEF g
<1>4. Range(g) = S
  <2>1. g \in Bijection(1..n, Range(g))
    BY <1>3 DEF Bijection, Injection, Surjection, IsInjective, Range
  <2>2. Cardinality(Range(g)) = n
    BY <2>1, FS_CountingElements DEF ExistsBijection
  <2>3. Range(g) \subseteq S
    BY <1>3 DEF Range
  <2> QED BY <1>2, <2>2, <2>3, FS_Subset
<1>5. g \in Seq(S) /\ Len(g) = n
  BY <1>3
<1>6. \A e : Contains(g, e) <=> e \in S
  BY <1>3, <1>4, <1>5 DEF Contains, Range
<1> QED BY <1>5, <1>6 DEF g

\* Released only adds destroyed events, one for every context that has lost its owners.
LEMMA ReleasedQueue ==
    ASSUME NEW rs \in SUBSET Requests, IsFiniteSet(rs), NEW ls, NEW ib, NEW q \in Seq(Event)
    PROVE  /\ Released(rs, ls, ib, q) \in Seq(Event)
           /\ \A e : Contains(q, e) => Contains(Released(rs, ls, ib, q), e)
           /\ \A e : Contains(Released(rs, ls, ib, q), e) => Contains(q, e) \/ e.type = "destroyed"
           /\ \A r \in rs : \/ Owned(r, ls, ib, q)
                            \/ Contains(Released(rs, ls, ib, q), [type |-> "destroyed", id |-> r])
           /\ \A e : Once(q, e) /\ e.type # "destroyed" => Once(Released(rs, ls, ib, q), e)
<1> DEFINE lost == {x \in rs : ~Owned(x, ls, ib, q)}
           D == {[type |-> "destroyed", id |-> r] : r \in lost}
<1>1. IsFiniteSet(D)
  <2>1. IsFiniteSet(lost)
    BY FS_Subset
  <2>2. [r \in lost |-> [type |-> "destroyed", id |-> r]] \in Surjection(lost, D)
    BY DEF Surjection
  <2> HIDE DEF lost, D
  <2> QED BY <2>1, <2>2, FS_Surjection
<1>2. D \subseteq Event
  BY DEF Event
<1>3. Released(rs, ls, ib, q) = q \o SetToSeq(D)
  BY DEF Released
<1>4. ASSUME NEW r \in rs, ~Owned(r, ls, ib, q)
      PROVE  [type |-> "destroyed", id |-> r] \in D
  BY <1>4
<1>5. \A e \in D : e.type = "destroyed"
  OBVIOUS
<1> HIDE DEF D
<1>6. SetToSeq(D) \in Seq(D) /\ \A e : Contains(SetToSeq(D), e) <=> e \in D
  BY <1>1, SetToSeqContains, Zenon
<1>7. SetToSeq(D) \in Seq(Event)
  BY <1>2, <1>6
<1>8. q \o SetToSeq(D) \in Seq(Event)
  BY <1>7
<1>9. \A e : Contains(q \o SetToSeq(D), e) <=> Contains(q, e) \/ e \in D
  BY <1>6, <1>7, ConcatContains, Zenon
<1>10. ASSUME NEW e, Once(q, e), e.type # "destroyed" PROVE Once(q \o SetToSeq(D), e)
  <2>1. ~ Contains(SetToSeq(D), e)
    BY <1>5, <1>6, <1>10, Zenon
  <2> QED BY <1>7, <1>10, <2>1, ConcatOnce, Zenon
<1> QED BY <1>3, <1>4, <1>5, <1>8, <1>9, <1>10, Zenon

-----------------------------------------------------------------------------
(* What the steps have in common.                                          *)

\* The connections add events to BitcoinDMgr's queue and know nothing of contexts.
LEMMA ConnectionStep ==
    ASSUME Shape, NEW c \in Clients, ClientStep(c) \/ NetworkStep(c)
    PROVE  /\ UNCHANGED <<good, requests>>
           /\ \E ev \in Seq(ConnEvent) : mgr' = mgr \o ev
<1> USE DEF ConnEvent
<1>0. mgr = mgr \o <<>> /\ <<>> \in Seq(ConnEvent)
  BY DEF Shape
<1>1. CASE on_connected(c) \/ SendRequest(c) \/ SocketConnected(c) \/ SocketUnconnected(c)
           \/ AuthFailure(c)
  <2>1. UNCHANGED <<mgr, good, requests>>
    BY <1>1, Zenon DEF on_connected, SendRequest, SocketConnected, SocketUnconnected, AuthFailure
  <2> QED BY <1>0, <2>1, Zenon
<1>2. CASE on_disconnected(c)
  <2> DEFINE ev == <<[type |-> "lostRequests", id |-> c], [type |-> "lostConnection", id |-> c]>>
  <2>1. ev \in Seq(ConnEvent)
    OBVIOUS
  <2>2. mgr' = mgr \o ev /\ UNCHANGED <<good, requests>>
    BY <1>2, Zenon DEF on_disconnected
  <2> QED BY <2>1, <2>2, Zenon
<1>3. ASSUME NEW event \in Seq(ConnEvent), Authenticate(c, event)
      PROVE  \E ev \in Seq(ConnEvent) : mgr' = mgr \o ev
  <2> DEFINE a == IF needAuth[c] = 1 \/ badAuth[c] = 1
                    THEN <<[type |-> "authenticated", id |-> c]>> ELSE <<>>
  <2>1. a \in Seq(ConnEvent)
    <3>1. <<[type |-> "authenticated", id |-> c]>> \in Seq(ConnEvent)
      OBVIOUS
    <3> QED BY <1>0, <3>1, Zenon
  <2>2. mgr' = mgr \o a \o event
    BY <1>3 DEF Authenticate
  <2> HIDE DEF a
  <2>3. a \o event \in Seq(ConnEvent) /\ mgr' = mgr \o (a \o event)
    <3>1. mgr \in Seq(Event)
      BY DEF Shape
    <3> HIDE DEF ConnEvent
    <3>2. ASSUME NEW p \in Seq(Event), NEW u \in Seq(ConnEvent), NEW v \in Seq(ConnEvent)
          PROVE  u \o v \in Seq(ConnEvent) /\ p \o u \o v = p \o (u \o v)
      OBVIOUS
    <3> QED BY <2>1, <2>2, <3>1, <3>2, Zenon
  <2> QED BY <2>3, Zenon
<1>4. CASE PingReply(c)
  BY <1>0, <1>3, <1>4, Zenon DEF PingReply
<1>5. ASSUME NEW r \in Requests, GotMessage(c, r)
      PROVE  /\ UNCHANGED <<good, requests>>
             /\ \E ev \in Seq(ConnEvent) : mgr' = mgr \o ev
  <2>1. <<[type |-> "results", id |-> r]>> \in Seq(ConnEvent)
    OBVIOUS
  <2>2. Authenticate(c, <<[type |-> "results", id |-> r]>>) /\ UNCHANGED <<good, requests>>
    BY <1>5, Zenon DEF GotMessage
  <2> QED BY <1>3, <2>1, <2>2, Zenon
<1>6. ASSUME NEW r \in Requests, GotErrorMessage(c, r)
      PROVE  /\ UNCHANGED <<good, requests>>
             /\ \E ev \in Seq(ConnEvent) : mgr' = mgr \o ev
  <2>1. <<[type |-> "error", id |-> r]>> \in Seq(ConnEvent)
    OBVIOUS
  <2>2. mgr' = Append(mgr, [type |-> "error", id |-> r]) /\ UNCHANGED <<good, requests>>
    BY <1>6, Zenon DEF GotErrorMessage
  <2>3. mgr' = mgr \o <<[type |-> "error", id |-> r]>>
    BY <2>2 DEF Shape
  <2> QED BY <2>1, <2>2, <2>3, Zenon
<1> QED BY <1>1, <1>2, <1>4, <1>5, <1>6, Zenon DEF ClientStep, NetworkStep

\* An event is taken off BitcoinDMgr's queue.
LEMMA HeadHandled ==
    ASSUME Shape, NEW type, NEW id, Handles(type, id)
    PROVE  /\ Tail(mgr) \in Seq(Event)
           /\ \A e : Contains(Tail(mgr), e) => Contains(mgr, e)
           /\ \A e : Contains(mgr, e) => e = [type |-> type, id |-> id] \/ Contains(Tail(mgr), e)
           /\ \A e : Once(mgr, e) => /\ Once(Tail(mgr), e)
                                     /\ e = [type |-> type, id |-> id] => ~ Contains(Tail(mgr), e)
<1>1. mgr \in Seq(Event) /\ mgr # <<>> /\ Head(mgr) = [type |-> type, id |-> id]
  BY DEF Shape, Handles
<1>2. Tail(mgr) \in Seq(Event)
  BY <1>1
<1>3. \A e : Contains(mgr, e) <=> Head(mgr) = e \/ Contains(Tail(mgr), e)
  BY <1>1, TailContains, Zenon
<1>4. \A e : Once(mgr, e) => Once(Tail(mgr), e) /\ (Head(mgr) = e => ~ Contains(Tail(mgr), e))
  BY <1>1, TailOnce, Zenon
<1> QED BY <1>1, <1>2, <1>3, <1>4, Zenon

\* Events that are none of the requests' come to the end of the queue.
LEMMA EventsAdded ==
    ASSUME Shape, NEW ev \in Seq(ConnEvent)
    PROVE  /\ mgr \o ev \in Seq(Event)
           /\ \A e : Contains(mgr, e) => Contains(mgr \o ev, e)
           /\ \A r \in Requests :
                 Contains(mgr \o ev, [type |-> "submit", id |-> r]) =>
                 Contains(mgr, [type |-> "submit", id |-> r])
           /\ \A r \in Requests :
                 Once(mgr, [type |-> "submit", id |-> r]) =>
                 Once(mgr \o ev, [type |-> "submit", id |-> r])
<1>1. ConnEvent \subseteq Event
  BY DEF ConnEvent, Event
<1>2. ev \in Seq(Event) /\ mgr \in Seq(Event) /\ mgr \o ev \in Seq(Event)
  BY <1>1 DEF Shape
<1>3. ASSUME NEW r \in Requests PROVE ~ Contains(ev, [type |-> "submit", id |-> r])
  <2> SUFFICES ASSUME NEW n \in 1..Len(ev), ev[n] = [type |-> "submit", id |-> r] PROVE FALSE
    BY DEF Contains
  <2>1. ev[n] \in ConnEvent
    OBVIOUS
  <2> QED BY <2>1 DEF ConnEvent
<1>4. \A e : Contains(mgr \o ev, e) <=> Contains(mgr, e) \/ Contains(ev, e)
  BY <1>2, ConcatContains, Zenon
<1>5. \A e : Once(mgr, e) /\ ~ Contains(ev, e) => Once(mgr \o ev, e)
  BY <1>2, ConcatOnce, Zenon
<1> QED BY <1>2, <1>3, <1>4, <1>5, Zenon

\* A signal is queued for the senders that are still connected.
LEMMA EmittedInbox ==
    ASSUME Shape, NEW rs, NEW signal \in Signal
    PROVE  /\ Emitted(rs, signal) \in [Requests -> Seq(Signal)]
           /\ \A r \in Requests : inbox[r] # <<>> => Emitted(rs, signal)[r] # <<>>
           /\ \A r \in Requests : Emitted(rs, signal)[r] # <<>> => inbox[r] # <<>> \/ r \in linked
           /\ \A r \in Requests \ rs : Emitted(rs, signal)[r] = inbox[r]
           /\ signal = "fail" => \A r \in Requests :
                 AllFail(inbox[r]) => AllFail(Emitted(rs, signal)[r])
<1>1. ASSUME NEW r \in Requests
      PROVE  Append(inbox[r], signal) \in Seq(Signal) /\ Append(inbox[r], signal) # <<>>
  <2>1. inbox[r] \in Seq(Signal)
    BY DEF Shape
  <2> QED BY <2>1
<1>2. \A r \in Requests : inbox[r] \in Seq(Signal)
  BY DEF Shape
<1>3. ASSUME signal = "fail", NEW r \in Requests, AllFail(inbox[r])
      PROVE  AllFail(Append(inbox[r], signal))
  <2>1. inbox[r] \in Seq(Signal)
    BY <1>2
  <2> QED BY <1>3, <2>1 DEF AllFail
<1> QED BY <1>1, <1>2, <1>3 DEF Emitted

\* Steps that leave the contexts alone.
LEMMA ContextsAlone ==
    ASSUME RequestInv, UNCHANGED requests,
           \A r \in Requests :
              /\ Contains(mgr, [type |-> "submit", id |-> r])
                    <=> Contains(mgr', [type |-> "submit", id |-> r])
              /\ Contains(mgr, [type |-> "destroyed", id |-> r])
                    => Contains(mgr', [type |-> "destroyed", id |-> r])
              /\ Once(mgr', [type |-> "submit", id |-> r])
    PROVE  Unanswered' /\ AnsweredOnce' /\ Submission' /\ Waiting' /\ Entries' /\ NoEntryLeftBehind'
<1>0. UNCHANGED <<table, own, fresh, linked, replied, cleanup, inbox, answers>>
      /\ table \subseteq Requests /\ fresh \subseteq Requests
  BY DEF requests, RequestInv, Shape
<1>1. Unanswered' /\ AnsweredOnce'
  BY <1>0 DEF RequestInv, Unanswered, AnsweredOnce
<1>2. \A r \in Requests : Owned(r, linked, inbox, mgr)' <=> Owned(r, linked, inbox, mgr)
  BY <1>0, Zenon DEF Owned
<1>3. Submission'
  BY <1>0, <1>2 DEF RequestInv, Submission
<1>4. NoEntryLeftBehind'
  BY <1>0, <1>2, Zenon DEF RequestInv, NoEntryLeftBehind, Extant
<1>5. Waiting'
  BY <1>0, Zenon DEF RequestInv, Waiting
<1>6. Entries'
  BY <1>0, Zenon DEF RequestInv, Entries
<1> QED BY <1>1, <1>3, <1>4, <1>5, <1>6

\* Of the types, those that only requests and BitcoinDMgr's queue have.
LEMMA ShapeOf ==
    ASSUME Shape, UNCHANGED connection, mgr' \in Seq(Event),
           table' \subseteq Requests, fresh' \subseteq Requests, linked' \subseteq Requests,
           inbox' \in [Requests -> Seq(Signal)], answers' \in [Requests -> Seq(Signal)]
    PROVE  Shape'
BY Zenon DEF Shape, connection

-----------------------------------------------------------------------------
(* RequestInv is inductive: one lemma per action that touches a context.   *)

\* A request is submitted.
LEMMA SubmitRequestStep ==
    ASSUME RequestInv, NEW r \in Requests, submitRequest(r)
    PROVE  RequestInv'
<1>0. Shape /\ mgr \in Seq(Event) /\ table \subseteq Requests
  BY DEF RequestInv, Shape
<1>1. /\ fresh' = fresh \ {r} /\ linked' = linked \cup {r} /\ r \in fresh
      /\ mgr' = Append(mgr, [type |-> "submit", id |-> r])
      /\ UNCHANGED <<connection, table, own, replied, cleanup, inbox, answers>>
  BY Zenon DEF submitRequest
<1>2. /\ mgr' \in Seq(Event)
      /\ \A e : Contains(mgr', e) <=> Contains(mgr, e) \/ [type |-> "submit", id |-> r] = e
      /\ \A e : Once(mgr, e) /\ ([type |-> "submit", id |-> r] = e => ~ Contains(mgr, e))
                 => Once(mgr', e)
  <2>1. [type |-> "submit", id |-> r] \in Event
    BY DEF Event
  <2> DEFINE x == [type |-> "submit", id |-> r]
  <2>2. x \in Event /\ mgr' = Append(mgr, x)
    BY <1>1, <2>1
  <2>3. /\ mgr' \in Seq(Event)
        /\ \A e : Contains(mgr', e) <=> Contains(mgr, e) \/ x = e
        /\ \A e : Once(mgr, e) /\ (x = e => ~ Contains(mgr, e)) => Once(mgr', e)
    <3> HIDE DEF x
    <3>1. mgr' \in Seq(Event) /\ \A e : Contains(mgr', e) <=> Contains(mgr, e) \/ x = e
      BY <1>0, <2>2, AppendContains
    <3>2. \A e : Once(mgr, e) /\ (x = e => ~ Contains(mgr, e)) => Once(mgr', e)
      BY <1>0, <2>2, AppendOnce, Zenon
    <3> QED BY <3>1, <3>2
  <2> QED BY <2>3
<1>3. Shape'
  <2>1. /\ table' \subseteq Requests /\ fresh' \subseteq Requests /\ linked' \subseteq Requests
        /\ inbox' \in [Requests -> Seq(Signal)] /\ answers' \in [Requests -> Seq(Signal)]
    BY <1>0, <1>1 DEF Shape
  <2> QED BY <1>0, <1>1, <1>2, <2>1, ShapeOf, Zenon
<1>4. Unanswered' /\ AnsweredOnce'
  BY <1>1 DEF RequestInv, Unanswered, AnsweredOnce
<1>5. Submission'
  <2>1. IsFiniteSet(Requests \ fresh')
    <3>1. Requests \ fresh' = (Requests \ fresh) \cup {r}
      BY <1>1
    <3> QED BY <3>1, FS_AddElement DEF RequestInv, Submission
  <2>2. ASSUME NEW q \in fresh' PROVE ~ Owned(q, linked', inbox', mgr')
    <3>1. q # r /\ q \in fresh /\ ~ Owned(q, linked, inbox, mgr)
      BY <1>1 DEF RequestInv, Submission
    <3>2. [type |-> "submit", id |-> r] # [type |-> "submit", id |-> q]
      BY <3>1
    <3> QED BY <1>1, <1>2, <3>1, <3>2, Zenon DEF Owned
  <2> QED BY <2>1, <2>2 DEF Submission
<1>6. NoEntryLeftBehind'
  <2>1. \A q : Owned(q, linked, inbox, mgr) => Owned(q, linked', inbox', mgr')
    BY <1>1, <1>2 DEF Owned
  <2> QED BY <1>1, <1>2, <2>1, Zenon DEF RequestInv, NoEntryLeftBehind, Extant
<1>7. Waiting'
  <2>1. ~ Contains(mgr, [type |-> "submit", id |-> r])
    BY <1>1 DEF RequestInv, Submission, Owned
  <2>2. ASSUME NEW q \in Requests PROVE Once(mgr', [type |-> "submit", id |-> q])
    <3>1. Once(mgr, [type |-> "submit", id |-> q])
      BY DEF RequestInv, Waiting
    <3>2. [type |-> "submit", id |-> r] = [type |-> "submit", id |-> q]
             => ~ Contains(mgr, [type |-> "submit", id |-> q])
      BY <2>1
    <3> QED BY <1>2, <3>1, <3>2, Zenon
  <2>3. ASSUME NEW q \in Requests,
               q \in fresh' \/ Contains(mgr', [type |-> "submit", id |-> q])
        PROVE  q \notin table /\ q \notin replied /\ inbox[q] = <<>>
    <3>1. [type |-> "submit", id |-> r] = [type |-> "submit", id |-> q] => q = r
      OBVIOUS
    <3>2. q \in fresh \/ Contains(mgr, [type |-> "submit", id |-> q])
      BY <1>1, <1>2, <2>3, <3>1
    <3> QED BY <3>2 DEF RequestInv, Waiting
  <2> QED BY <1>1, <2>2, <2>3, Zenon DEF Waiting
<1>8. Entries'
  BY <1>1, Zenon DEF RequestInv, Entries
<1> QED BY <1>3, <1>4, <1>5, <1>6, <1>7, <1>8 DEF RequestInv

\* The contexts rs may have lost an owner: what the queue becomes keeps Submission and
\* NoEntryLeftBehind.
LEMMA ReleaseStep ==
    ASSUME RequestInv, NEW rs \in SUBSET Requests, IsFiniteSet(rs), NEW q \in Seq(Event),
           mgr' = Released(rs, linked', inbox', q),
           \A e : Contains(q, e) => Contains(mgr, e),
           \A r \in Requests \ rs :
              /\ Owned(r, linked, inbox, mgr) => Owned(r, linked', inbox', q)
              /\ Contains(mgr, [type |-> "destroyed", id |-> r])
                    => Contains(q, [type |-> "destroyed", id |-> r]),
           \A r \in Requests : r \in linked' => r \in linked,
           \A r \in Requests : Once(q, [type |-> "submit", id |-> r]),
           \A r \in Requests :
              r \in fresh \/ Contains(q, [type |-> "submit", id |-> r])
                 => r \notin table' /\ r \notin replied' /\ inbox'[r] = <<>>,
           \A r \in Requests \ rs : answers'[r] = answers[r],
           table' \subseteq table \cup rs, fresh' = fresh, own' = own
    PROVE  mgr' \in Seq(Event) /\ Submission' /\ Waiting' /\ NoEntryLeftBehind'
<1>0. table \subseteq Requests /\ fresh \subseteq Requests
  BY DEF RequestInv, Shape
<1>1. /\ mgr' \in Seq(Event)
      /\ \A e : Contains(q, e) => Contains(mgr', e)
      /\ \A e : Contains(mgr', e) => Contains(q, e) \/ e.type = "destroyed"
      /\ \A r \in rs : \/ Owned(r, linked', inbox', q)
                       \/ Contains(mgr', [type |-> "destroyed", id |-> r])
      /\ \A e : Once(q, e) /\ e.type # "destroyed" => Once(mgr', e)
  <2> DEFINE R == Released(rs, linked', inbox', q)
  <2>1. /\ R \in Seq(Event)
        /\ \A e : Contains(q, e) => Contains(R, e)
        /\ \A e : Contains(R, e) => Contains(q, e) \/ e.type = "destroyed"
        /\ \A r \in rs : \/ Owned(r, linked', inbox', q)
                         \/ Contains(R, [type |-> "destroyed", id |-> r])
        /\ \A e : Once(q, e) /\ e.type # "destroyed" => Once(R, e)
    BY ReleasedQueue
  <2>2. mgr' = R
    OBVIOUS
  <2> HIDE DEF R
  <2> QED BY <2>1, <2>2
<1>2. \A r : Owned(r, linked', inbox', q) => Owned(r, linked', inbox', mgr')
  BY <1>1 DEF Owned
<1>3. Submission'
  <2>1. ASSUME NEW r \in fresh PROVE ~ Owned(r, linked', inbox', mgr')
    <3>1. ~ Owned(r, linked, inbox, mgr)
      BY DEF RequestInv, Submission
    <3>2. [type |-> "submit", id |-> r].type # "destroyed"
      OBVIOUS
    <3> QED BY <1>0, <1>1, <3>1, <3>2, Zenon DEF Owned
  <2> QED BY <2>1 DEF RequestInv, Submission
<1>4. NoEntryLeftBehind'
  <2> SUFFICES ASSUME NEW r \in table'
               PROVE  \/ Owned(r, linked', inbox', mgr')
                      \/ Contains(mgr', [type |-> "destroyed", id |-> r])
                      \/ r \in own' /\ answers'[r] = <<"fail">>
    BY Zenon DEF NoEntryLeftBehind, Extant
  <2>1. CASE r \in rs
    BY <1>1, <1>2, <2>1, Zenon
  <2>2. CASE r \notin rs
    <3>1. r \in table /\ r \in Requests \ rs
      BY <1>0, <2>2
    <3>2. \/ Owned(r, linked, inbox, mgr)
          \/ Contains(mgr, [type |-> "destroyed", id |-> r])
          \/ r \in own /\ answers[r] = <<"fail">>
      BY <3>1 DEF RequestInv, NoEntryLeftBehind, Extant
    <3> QED BY <1>1, <1>2, <3>1, <3>2, Zenon
  <2> QED BY <2>1, <2>2
<1>5. Waiting'
  <2>1. \A r : [type |-> "submit", id |-> r].type # "destroyed"
    OBVIOUS
  <2> QED BY <1>1, <2>1, Zenon DEF Waiting
<1> QED BY <1>1, <1>3, <1>4, <1>5

\* A callback runs, or is told that it comes too late.
LEMMA HandlerStep ==
    ASSUME RequestInv, NEW r \in Requests, Handler(r)
    PROVE  RequestInv'
<1>0. /\ Shape /\ mgr \in Seq(Event) /\ table \subseteq Requests /\ fresh \subseteq Requests
      /\ linked \subseteq Requests /\ inbox \in [Requests -> Seq(Signal)]
      /\ answers \in [Requests -> Seq(Signal)]
  BY DEF RequestInv, Shape
<1>1. /\ inbox[r] # <<>> /\ linked' = linked \ {r} /\ replied' = replied \cup {r}
      /\ inbox' = [inbox EXCEPT ![r] = Tail(@)]
      /\ mgr' = Released({r}, linked', inbox', mgr)
      /\ cleanup' = IF r \in own THEN cleanup \ {r} ELSE cleanup
      /\ UNCHANGED <<connection, table, own, fresh>>
  BY Zenon DEF Handler
<1>2. inbox[r] \in Seq(Signal) /\ Head(inbox[r]) \in Signal /\ Tail(inbox[r]) \in Seq(Signal)
  BY <1>0, <1>1
<1>3. inbox' \in [Requests -> Seq(Signal)] /\ \A q \in Requests \ {r} : inbox'[q] = inbox[q]
  BY <1>0, <1>1, <1>2
<1>4. \A q \in Requests \ {r} : answers'[q] = answers[q]
  BY <1>0 DEF Handler
<1>7. mgr' \in Seq(Event) /\ Submission' /\ Waiting' /\ NoEntryLeftBehind'
  <2>1. {r} \in SUBSET Requests /\ IsFiniteSet({r})
    BY FS_Singleton, Zenon
  <2>2. \A q \in Requests \ {r} :
           Owned(q, linked, inbox, mgr) => Owned(q, linked', inbox', mgr)
    BY <1>1, <1>3 DEF Owned
  <2>3. ASSUME NEW q \in Requests,
               q \in fresh \/ Contains(mgr, [type |-> "submit", id |-> q])
        PROVE  q \notin table' /\ q \notin replied' /\ inbox'[q] = <<>>
    <3>1. q \notin table /\ q \notin replied /\ inbox[q] = <<>>
      BY <2>3 DEF RequestInv, Waiting
    <3>2. q # r
      BY <1>1, <3>1
    <3> QED BY <1>1, <1>3, <3>1, <3>2
  <2>4. \A q \in Requests : q \in linked' => q \in linked
    BY <1>1
  <2>5. table' \subseteq table \cup {r} /\ fresh' = fresh /\ own' = own
    BY <1>1
  <2>6. \A q \in Requests : Once(mgr, [type |-> "submit", id |-> q])
    BY Zenon DEF RequestInv, Waiting
  <2> QED BY <1>0, <1>1, <1>4, <2>1, <2>2, <2>3, <2>4, <2>5, <2>6, ReleaseStep, Zenon
<1>5. answers' \in [Requests -> Seq(Signal)] /\ Unanswered' /\ AnsweredOnce'
  <2>1. CASE r \in replied
    <3>1. answers' = answers
      BY <2>1 DEF Handler
    <3> QED BY <1>0, <1>1, <3>1 DEF RequestInv, Unanswered, AnsweredOnce
  <2>2. CASE r \notin replied
    <3>1. answers[r] = <<>>
      BY <2>2 DEF RequestInv, Unanswered
    <3>2. answers' = [answers EXCEPT ![r] = <<Head(inbox[r])>>]
      BY <1>0, <2>2, <3>1 DEF Handler
    <3>3. <<Head(inbox[r])>> \in Seq(Signal) /\ Len(<<Head(inbox[r])>>) = 1
      BY <1>2
    <3>4. answers' \in [Requests -> Seq(Signal)]
      BY <1>0, <3>2, <3>3
    <3>5. \A q \in Requests : answers'[q] = IF q = r THEN <<Head(inbox[r])>> ELSE answers[q]
      BY <1>0, <3>2
    <3>6. Unanswered'
      BY <1>1, <3>5 DEF RequestInv, Unanswered
    <3>7. AnsweredOnce'
      <4>1. ASSUME NEW q \in Requests PROVE Len(answers'[q]) <= 1
        <5>1. CASE q = r
          <6>1. Len(answers'[q]) = 1
            BY <3>3, <3>5, <5>1, Zenon
          <6> QED BY <6>1
        <5>2. CASE q # r
          BY <3>5, <5>2 DEF RequestInv, AnsweredOnce
        <5> QED BY <5>1, <5>2
      <4> QED BY <4>1 DEF AnsweredOnce
    <3> QED BY <3>4, <3>6, <3>7
  <2> QED BY <2>1, <2>2
<1>6. Shape'
  <2>1. table' \subseteq Requests /\ fresh' \subseteq Requests /\ linked' \subseteq Requests
    BY <1>0, <1>1
  <2> QED BY <1>0, <1>1, <1>3, <1>5, <1>7, <2>1, ShapeOf, Zenon
<1>8. Entries'
  <2> SUFFICES ASSUME NEW q \in table
               PROVE  /\ AllFail(inbox'[q])
                      /\ q \in replied' => answers'[q] = <<"fail">>
                      /\ q \notin cleanup' => q \in own /\ q \in replied'
    BY <1>1, Zenon DEF Entries
  <2>1. /\ AllFail(inbox[q])
        /\ q \in replied => answers[q] = <<"fail">>
        /\ q \notin cleanup => q \in own /\ q \in replied
    BY DEF RequestInv, Entries
  <2>2. CASE q # r
    <3>1. inbox'[q] = inbox[q] /\ answers'[q] = answers[q]
      BY <1>0, <1>3, <1>4, <2>2
    <3> QED BY <1>1, <2>1, <2>2, <3>1
  <2>3. CASE q = r
    <3>1. AllFail(Tail(inbox[r])) /\ Head(inbox[r]) = "fail"
      BY <1>1, <1>2, <2>1, <2>3 DEF AllFail
    <3>2. AllFail(inbox'[q])
      BY <1>0, <1>1, <2>3, <3>1
    <3>3. answers'[q] = <<"fail">>
      <4>1. CASE r \in replied
        BY <2>1, <2>3, <4>1 DEF Handler
      <4>2. CASE r \notin replied
        <5>1. answers[r] = <<>>
          BY <4>2 DEF RequestInv, Unanswered
        <5> QED BY <1>0, <2>3, <3>1, <4>2, <5>1 DEF Handler
      <4> QED BY <4>1, <4>2
    <3>4. q \notin cleanup' => q \in own /\ q \in replied'
      BY <1>1, <2>1, <2>3
    <3> QED BY <3>2, <3>3, <3>4
  <2> QED BY <2>2, <2>3
<1> QED BY <1>5, <1>6, <1>7, <1>8 DEF RequestInv

\* The sender goes, and with it all its contexts that nobody else owns.
LEMMA SenderDeletedStep ==
    ASSUME RequestInv, SenderDeleted
    PROVE  RequestInv'
<1> DEFINE rs == {r \in Requests \ own : Owned(r, linked, inbox, mgr)}
<1>0. /\ Shape /\ mgr \in Seq(Event) /\ table \subseteq Requests /\ fresh \subseteq Requests
      /\ linked \subseteq Requests /\ inbox \in [Requests -> Seq(Signal)]
      /\ answers \in [Requests -> Seq(Signal)]
  BY DEF RequestInv, Shape
<1>1. /\ linked' = linked \cap own
      /\ inbox' = [r \in Requests |-> IF r \in own THEN inbox[r] ELSE <<>>]
      /\ mgr' = Released(rs, linked', inbox', mgr)
      /\ UNCHANGED <<connection, table, own, fresh, replied, cleanup, answers>>
  BY Zenon DEF SenderDeleted
<1>2. rs \in SUBSET Requests /\ IsFiniteSet(rs)
  <2>1. rs \subseteq Requests \ fresh
    BY DEF RequestInv, Submission
  <2>2. IsFiniteSet(Requests \ fresh)
    BY DEF RequestInv, Submission
  <2> QED BY <2>1, <2>2, FS_Subset
<1>3. mgr' \in Seq(Event) /\ Submission' /\ Waiting' /\ NoEntryLeftBehind'
  <2>1. ASSUME NEW r \in Requests \ rs, Owned(r, linked, inbox, mgr)
        PROVE  Owned(r, linked', inbox', mgr)
    <3>1. r \in own /\ inbox'[r] = inbox[r] /\ (r \in linked => r \in linked')
      BY <1>1, <2>1
    <3> QED BY <2>1, <3>1, Zenon DEF Owned
  <2>2. ASSUME NEW q \in Requests,
               q \in fresh \/ Contains(mgr, [type |-> "submit", id |-> q])
        PROVE  q \notin table' /\ q \notin replied' /\ inbox'[q] = <<>>
    <3>1. q \notin table /\ q \notin replied /\ inbox[q] = <<>>
      BY <2>2 DEF RequestInv, Waiting
    <3> QED BY <1>1, <3>1
  <2>3. \A r \in Requests : r \in linked' => r \in linked
    BY <1>1
  <2>4. table' \subseteq table \cup rs /\ fresh' = fresh /\ own' = own
    BY <1>1
  <2>5. \A q \in Requests : Once(mgr, [type |-> "submit", id |-> q])
    BY Zenon DEF RequestInv, Waiting
  <2>6. answers' = answers
    BY <1>1
  <2> HIDE DEF rs
  <2> QED BY <1>0, <1>1, <1>2, <2>1, <2>2, <2>3, <2>4, <2>5, <2>6, ReleaseStep, Zenon
<1>4. Unanswered' /\ AnsweredOnce'
  BY <1>1 DEF RequestInv, Unanswered, AnsweredOnce
<1>5. Shape'
  <2>1. /\ table' \subseteq Requests /\ fresh' \subseteq Requests /\ linked' \subseteq Requests
        /\ inbox' \in [Requests -> Seq(Signal)] /\ answers' \in [Requests -> Seq(Signal)]
    BY <1>0, <1>1
  <2> QED BY <1>0, <1>1, <1>3, <2>1, ShapeOf, Zenon
<1>6. Entries'
  <2>1. AllFail(<<>>)
    BY DEF AllFail
  <2>2. \A q \in table : AllFail(inbox'[q])
    BY <1>0, <1>1, <2>1 DEF RequestInv, Entries
  <2> QED BY <1>1, <2>2, Zenon DEF RequestInv, Entries
<1> QED BY <1>3, <1>4, <1>5, <1>6 DEF RequestInv

\* The request gets a connection and an entry in the table, or fails.
LEMMA SubmittedStep ==
    ASSUME RequestInv, NEW r \in Requests, Submitted(r)
    PROVE  RequestInv'
<1>0. /\ Shape /\ mgr \in Seq(Event) /\ table \subseteq Requests /\ fresh \subseteq Requests
      /\ linked \subseteq Requests /\ answers \in [Requests -> Seq(Signal)]
  BY DEF RequestInv, Shape
<1>1. /\ Handles("submit", r)
      /\ inbox' = inbox \/ inbox' = Emitted({r}, "fail")
      /\ table' \subseteq table \cup {r}
      /\ mgr' = Released({r}, linked, inbox', Tail(mgr))
      /\ UNCHANGED <<up, hooked, needAuth, badAuth, own, fresh, linked, replied, answers>>
      /\ \/ UNCHANGED <<table, cleanup>>
         \/ table' = table \cup {r} /\ cleanup' = cleanup \cup {r} /\ inbox' = inbox
  BY Zenon DEF Submitted
<1>2. /\ Tail(mgr) \in Seq(Event)
      /\ \A e : Contains(Tail(mgr), e) => Contains(mgr, e)
      /\ \A e : Contains(mgr, e) => e = [type |-> "submit", id |-> r] \/ Contains(Tail(mgr), e)
      /\ \A e : Once(mgr, e) => /\ Once(Tail(mgr), e)
                                /\ e = [type |-> "submit", id |-> r] => ~ Contains(Tail(mgr), e)
  BY <1>0, <1>1, HeadHandled, Zenon
<1>3. /\ inbox' \in [Requests -> Seq(Signal)]
      /\ \A q \in Requests \ {r} : inbox'[q] = inbox[q]
  <2>1. "fail" \in Signal
    BY DEF Signal
  <2>2. CASE inbox' = inbox
    BY <1>0, <2>2 DEF Shape
  <2>3. CASE inbox' = Emitted({r}, "fail")
    BY <1>0, <2>1, <2>3, EmittedInbox, Zenon
  <2> QED BY <1>1, <2>2, <2>3
<1>4. r \notin fresh /\ r \notin table /\ r \notin replied /\ inbox[r] = <<>>
  <2>1. Contains(mgr, [type |-> "submit", id |-> r])
    <3>1. mgr # <<>> /\ Head(mgr) = [type |-> "submit", id |-> r]
      BY <1>1 DEF Handles
    <3> QED BY <1>0, <3>1, TailContains, Zenon
  <2>2. r \notin fresh
    BY <2>1 DEF RequestInv, Submission, Owned
  <2> QED BY <2>1, <2>2 DEF RequestInv, Waiting
<1>5. mgr' \in Seq(Event) /\ Submission' /\ Waiting' /\ NoEntryLeftBehind'
  <2>1. {r} \in SUBSET Requests /\ IsFiniteSet({r})
    BY FS_Singleton, Zenon
  <2>2. ASSUME NEW q \in Requests \ {r}
        PROVE  /\ Owned(q, linked, inbox, mgr) => Owned(q, linked', inbox', Tail(mgr))
               /\ Contains(mgr, [type |-> "destroyed", id |-> q])
                     => Contains(Tail(mgr), [type |-> "destroyed", id |-> q])
    <3>1. /\ [type |-> "submit", id |-> q] # [type |-> "submit", id |-> r]
          /\ [type |-> "destroyed", id |-> q] # [type |-> "submit", id |-> r]
      OBVIOUS
    <3>2. /\ Contains(mgr, [type |-> "submit", id |-> q])
                => Contains(Tail(mgr), [type |-> "submit", id |-> q])
          /\ Contains(mgr, [type |-> "destroyed", id |-> q])
                => Contains(Tail(mgr), [type |-> "destroyed", id |-> q])
      BY <1>2, <3>1, Zenon
    <3> QED BY <1>1, <1>3, <3>2, Zenon DEF Owned
  <2>3. ASSUME NEW q \in Requests,
               q \in fresh \/ Contains(Tail(mgr), [type |-> "submit", id |-> q])
        PROVE  q \notin table' /\ q \notin replied' /\ inbox'[q] = <<>>
    <3>1. q # r
      <4>1. Once(mgr, [type |-> "submit", id |-> r])
        BY DEF RequestInv, Waiting
      <4> QED BY <1>2, <1>4, <2>3, <4>1, Zenon
    <3>2. q \notin table /\ q \notin replied /\ inbox[q] = <<>>
      BY <1>2, <2>3, Zenon DEF RequestInv, Waiting
    <3> QED BY <1>1, <1>3, <3>1, <3>2
  <2>4. linked' = linked /\ fresh' = fresh /\ table' \subseteq table \cup {r}
        /\ own' = own /\ answers' = answers
    BY <1>1
  <2>5. \A q \in Requests : Once(Tail(mgr), [type |-> "submit", id |-> q])
    BY <1>2, Zenon DEF RequestInv, Waiting
  <2> QED BY <1>1, <1>2, <2>1, <2>2, <2>3, <2>4, <2>5, ReleaseStep, Zenon
<1>6. Unanswered' /\ AnsweredOnce'
  BY <1>1 DEF RequestInv, Unanswered, AnsweredOnce
<1>7. Shape'
  <2>1. /\ table' \subseteq Requests /\ fresh' \subseteq Requests /\ linked' \subseteq Requests
        /\ answers' \in [Requests -> Seq(Signal)]
    BY <1>0, <1>1
  <2>2. /\ up' \in [Clients -> {0, 1}] /\ hooked' \in [Clients -> {0, 1}]
        /\ needAuth' \in [Clients -> {0, 1}] /\ badAuth' \in [Clients -> {0, 1}]
    BY <1>0, <1>1 DEF Shape
  <2> QED BY <1>3, <1>5, <2>1, <2>2, Zenon DEF Shape
<1>8. Entries'
  <2> SUFFICES ASSUME NEW q \in table'
               PROVE  /\ AllFail(inbox'[q])
                      /\ q \in replied => answers[q] = <<"fail">>
                      /\ q \notin cleanup' => q \in own /\ q \in replied
    BY <1>1, Zenon DEF Entries
  <2>1. CASE q = r
    <3>1. r \in cleanup' /\ inbox' = inbox
      BY <1>1, <1>4, <2>1
    <3>2. AllFail(<<>>)
      BY DEF AllFail
    <3> QED BY <1>4, <2>1, <3>1, <3>2
  <2>2. CASE q # r
    <3>1. q \in table /\ q \in Requests \ {r} /\ (q \in cleanup => q \in cleanup')
      BY <1>0, <1>1, <2>2
    <3> QED BY <1>3, <3>1 DEF RequestInv, Entries
  <2> QED BY <2>1, <2>2
<1> QED BY <1>5, <1>6, <1>7, <1>8 DEF RequestInv

\* Only events of BitcoinDMgr's own are lost or signals added: contexts keep their owners.
LEMMA OwnersStay ==
    ASSUME RequestInv, UNCHANGED <<own, fresh, linked, replied, cleanup, answers>>,
           inbox' \in [Requests -> Seq(Signal)], mgr' \in Seq(Event),
           \A r \in Requests : inbox[r] # <<>> => inbox'[r] # <<>>,
           \A r \in Requests : inbox'[r] # <<>> => inbox[r] # <<>> \/ r \in linked,
           \A r \in Requests :
              Contains(mgr, [type |-> "submit", id |-> r])
                 <=> Contains(mgr', [type |-> "submit", id |-> r]),
           \A r \in Requests : Once(mgr', [type |-> "submit", id |-> r]),
           table' \subseteq table,
           \A r \in Requests \ table : inbox'[r] = inbox[r],
           \A r \in table' : AllFail(inbox'[r]),
           \A r \in table' :
              Contains(mgr, [type |-> "destroyed", id |-> r])
                 => \/ Contains(mgr', [type |-> "destroyed", id |-> r])
                    \/ r \in own /\ answers[r] = <<"fail">>
    PROVE  Unanswered' /\ AnsweredOnce' /\ Submission' /\ Waiting' /\ Entries' /\ NoEntryLeftBehind'
<1>0. table \subseteq Requests /\ fresh \subseteq Requests
  BY DEF RequestInv, Shape
<1>1. Unanswered' /\ AnsweredOnce'
  BY DEF RequestInv, Unanswered, AnsweredOnce
<1>2. \A r \in Requests : Owned(r, linked', inbox', mgr') <=> Owned(r, linked, inbox, mgr)
  BY Zenon DEF Owned
<1>3. Submission'
  BY <1>0, <1>2 DEF RequestInv, Submission
<1>4. NoEntryLeftBehind'
  BY <1>0, <1>2, Zenon DEF RequestInv, NoEntryLeftBehind, Extant
<1>5. Waiting'
  <2>1. ASSUME NEW r \in Requests,
               r \in fresh \/ Contains(mgr', [type |-> "submit", id |-> r])
        PROVE  r \notin table' /\ r \notin replied /\ inbox'[r] = <<>>
    <3>1. r \notin table /\ r \notin replied /\ inbox[r] = <<>>
      BY <2>1, Zenon DEF RequestInv, Waiting
    <3> QED BY <3>1
  <2> QED BY <2>1, Zenon DEF Waiting
<1>6. Entries'
  BY Zenon DEF RequestInv, Entries
<1> QED BY <1>1, <1>3, <1>4, <1>5, <1>6

\* A context's destruction removes its entry.
LEMMA DestroyedStep ==
    ASSUME RequestInv, NEW r \in Requests, Destroyed(r)
    PROVE  RequestInv'
<1>0. Shape
  BY DEF RequestInv
<1>1. /\ Handles("destroyed", r) /\ mgr' = Tail(mgr)
      /\ table' = IF r \in cleanup THEN table \ {r} ELSE table
      /\ UNCHANGED <<connection, own, fresh, linked, replied, cleanup, inbox, answers>>
  BY Zenon DEF Destroyed
<1>2. /\ mgr' \in Seq(Event)
      /\ \A e : Contains(mgr', e) => Contains(mgr, e)
      /\ \A e : Contains(mgr, e) => e = [type |-> "destroyed", id |-> r] \/ Contains(mgr', e)
      /\ \A e : Once(mgr, e) => Once(mgr', e)
  BY <1>0, <1>1, HeadHandled, Zenon
<1>3. Unanswered' /\ AnsweredOnce' /\ Submission' /\ Waiting' /\ Entries' /\ NoEntryLeftBehind'
  <2>1. \A q : [type |-> "submit", id |-> q] # [type |-> "destroyed", id |-> r]
    OBVIOUS
  <2>2. table' \subseteq table /\ inbox' \in [Requests -> Seq(Signal)]
    BY <1>0, <1>1 DEF Shape
  <2>3. ASSUME NEW q \in table', Contains(mgr, [type |-> "destroyed", id |-> q])
        PROVE  \/ Contains(mgr', [type |-> "destroyed", id |-> q])
               \/ q \in own /\ answers[q] = <<"fail">>
    <3>1. CASE q = r
      <4>1. q \in table /\ q \notin cleanup
        BY <1>1, <3>1
      <4> QED BY <4>1 DEF RequestInv, Entries
    <3>2. CASE q # r
      <4>1. [type |-> "destroyed", id |-> q] # [type |-> "destroyed", id |-> r]
        BY <3>2
      <4> QED BY <1>2, <2>3, <4>1, Zenon
    <3> QED BY <3>1, <3>2
  <2>4. \A q \in table' : AllFail(inbox'[q])
    BY <1>1, <2>2 DEF RequestInv, Entries
  <2>5. \A q \in Requests : Once(mgr', [type |-> "submit", id |-> q])
    BY <1>2, Zenon DEF RequestInv, Waiting
  <2> QED BY <1>1, <1>2, <2>1, <2>2, <2>3, <2>4, <2>5, OwnersStay, Zenon
<1>4. Shape'
  <2>1. /\ table' \subseteq Requests /\ fresh' \subseteq Requests /\ linked' \subseteq Requests
        /\ inbox' \in [Requests -> Seq(Signal)] /\ answers' \in [Requests -> Seq(Signal)]
    BY <1>0, <1>1 DEF Shape
  <2> QED BY <1>0, <1>1, <1>2, <2>1, ShapeOf, Zenon
<1> QED BY <1>3, <1>4 DEF RequestInv

\* A reply, a lost connection, a time-out: a signal for the contexts in the table.
LEMMA SignalStep ==
    ASSUME RequestInv, NEW rs, NEW signal \in Signal, NEW type, NEW id,
           \/ inbox' = inbox
           \/ /\ inbox' = Emitted(rs, signal) /\ rs \subseteq table
              /\ signal = "fail" \/ rs \cap table' = {},
           \/ mgr' = mgr
           \/ type \notin {"submit", "destroyed"} /\ Handles(type, id) /\ mgr' = Tail(mgr),
           table' \subseteq table,
           UNCHANGED <<connection, own, fresh, linked, replied, cleanup, answers>>
    PROVE  RequestInv'
<1>0. Shape
  BY DEF RequestInv
<1>1. /\ inbox' \in [Requests -> Seq(Signal)]
      /\ \A r \in Requests : inbox[r] # <<>> => inbox'[r] # <<>>
      /\ \A r \in Requests : inbox'[r] # <<>> => inbox[r] # <<>> \/ r \in linked
      /\ \A r \in Requests \ table : inbox'[r] = inbox[r]
      /\ \A r \in table' : AllFail(inbox'[r])
  <2>0. table \subseteq Requests /\ \A r \in table' : r \in table /\ AllFail(inbox[r])
    BY <1>0 DEF Shape, RequestInv, Entries
  <2>1. CASE inbox' = inbox
    BY <1>0, <2>0, <2>1 DEF Shape
  <2>2. CASE /\ inbox' = Emitted(rs, signal) /\ rs \subseteq table
             /\ signal = "fail" \/ rs \cap table' = {}
    <3>1. /\ inbox' \in [Requests -> Seq(Signal)]
          /\ \A r \in Requests : inbox[r] # <<>> => inbox'[r] # <<>>
          /\ \A r \in Requests : inbox'[r] # <<>> => inbox[r] # <<>> \/ r \in linked
          /\ \A r \in Requests \ rs : inbox'[r] = inbox[r]
          /\ signal = "fail" => \A r \in Requests : AllFail(inbox[r]) => AllFail(inbox'[r])
      BY <1>0, <2>2, EmittedInbox, Zenon
    <3>2. \A r \in Requests \ table : inbox'[r] = inbox[r]
      BY <2>2, <3>1
    <3>3. \A r \in table' : AllFail(inbox'[r])
      <4>1. CASE signal = "fail"
        BY <2>0, <3>1, <4>1
      <4>2. CASE rs \cap table' = {}
        BY <2>0, <3>1, <4>2
      <4> QED BY <2>2, <4>1, <4>2
    <3> QED BY <3>1, <3>2, <3>3
  <2> QED BY <2>1, <2>2
<1>2. /\ mgr' \in Seq(Event)
      /\ \A r \in Requests :
           /\ Contains(mgr, [type |-> "submit", id |-> r])
                 <=> Contains(mgr', [type |-> "submit", id |-> r])
           /\ Contains(mgr, [type |-> "destroyed", id |-> r])
                 => Contains(mgr', [type |-> "destroyed", id |-> r])
           /\ Once(mgr', [type |-> "submit", id |-> r])
  <2>1. CASE mgr' = mgr
    BY <1>0, <2>1 DEF Shape, RequestInv, Waiting
  <2>2. CASE type \notin {"submit", "destroyed"} /\ Handles(type, id) /\ mgr' = Tail(mgr)
    <3>1. /\ mgr' \in Seq(Event)
          /\ \A e : Contains(mgr', e) => Contains(mgr, e)
          /\ \A e : Contains(mgr, e) => e = [type |-> type, id |-> id] \/ Contains(mgr', e)
          /\ \A e : Once(mgr, e) => Once(mgr', e)
      BY <1>0, <2>2, HeadHandled, Zenon
    <3>2. \A r : /\ [type |-> "submit", id |-> r] # [type |-> type, id |-> id]
                 /\ [type |-> "destroyed", id |-> r] # [type |-> type, id |-> id]
      BY <2>2
    <3>3. \A r \in Requests : Once(mgr, [type |-> "submit", id |-> r])
      BY Zenon DEF RequestInv, Waiting
    <3> QED BY <3>1, <3>2, <3>3, Zenon
  <2> QED BY <2>1, <2>2
<1>3. table' \subseteq Requests
  BY <1>0 DEF Shape
<1>4. Unanswered' /\ AnsweredOnce' /\ Submission' /\ Waiting' /\ Entries' /\ NoEntryLeftBehind'
  BY <1>1, <1>2, <1>3, OwnersStay, Zenon
<1>5. Shape'
  <2>1. /\ fresh' \subseteq Requests /\ linked' \subseteq Requests
        /\ answers' \in [Requests -> Seq(Signal)]
    BY <1>0 DEF Shape
  <2> QED BY <1>0, <1>1, <1>2, <1>3, <2>1, ShapeOf, Zenon
<1> QED BY <1>4, <1>5 DEF RequestInv

\* The connections' steps keep the types of their flags.
LEMMA FlagTypes ==
    ASSUME Shape, NEW c \in Clients, ClientStep(c) \/ NetworkStep(c)
    PROVE  /\ up' \in [Clients -> {0, 1}] /\ hooked' \in [Clients -> {0, 1}]
           /\ needAuth' \in [Clients -> {0, 1}] /\ badAuth' \in [Clients -> {0, 1}]
<1> USE DEF Shape
<1>1. CASE ClientStep(c)
  BY <1>1, Zenon DEF ClientStep, on_connected, on_disconnected, SendRequest
<1>2. CASE NetworkStep(c)
  BY <1>2, Zenon DEF NetworkStep, SocketConnected, SocketUnconnected, PingReply, AuthFailure,
             GotMessage, GotErrorMessage, Authenticate
<1> QED BY <1>1, <1>2

\* So do those of a connection, which know nothing of contexts.
LEMMA ConnectionsStep ==
    ASSUME RequestInv, NEW c \in Clients, ClientStep(c) \/ NetworkStep(c)
    PROVE  RequestInv'
<1>0. Shape
  BY DEF RequestInv
<1>1. PICK ev \in Seq(ConnEvent) : mgr' = mgr \o ev
  BY <1>0, ConnectionStep, Zenon
<1>2. UNCHANGED requests
  BY <1>0, ConnectionStep, Zenon
<1>3. /\ mgr' \in Seq(Event)
      /\ \A e : Contains(mgr, e) => Contains(mgr', e)
      /\ \A r \in Requests :
            Contains(mgr', [type |-> "submit", id |-> r]) =>
            Contains(mgr, [type |-> "submit", id |-> r])
      /\ \A r \in Requests : Once(mgr', [type |-> "submit", id |-> r])
  <2>1. \A r \in Requests : Once(mgr, [type |-> "submit", id |-> r])
    BY Zenon DEF RequestInv, Waiting
  <2> QED BY <1>0, <1>1, <2>1, EventsAdded, Zenon
<1>4. Unanswered' /\ AnsweredOnce' /\ Submission' /\ Waiting' /\ Entries' /\ NoEntryLeftBehind'
  BY <1>2, <1>3, ContextsAlone, Zenon
<1>5. Shape'
  <2>1. /\ table' \subseteq Requests /\ fresh' \subseteq Requests /\ linked' \subseteq Requests
        /\ inbox' \in [Requests -> Seq(Signal)] /\ answers' \in [Requests -> Seq(Signal)]
    BY <1>0, <1>2 DEF Shape, requests
  <2> QED BY <1>0, <1>3, <2>1, FlagTypes, Zenon DEF Shape
<1> QED BY <1>4, <1>5 DEF RequestInv

\* RequestInv is inductive.
LEMMA RequestInvInit == Init => RequestInv
<1> SUFFICES ASSUME Init PROVE RequestInv
  OBVIOUS
<1>1. Shape
  BY DEF Init, Shape
<1>2. Unanswered /\ AnsweredOnce
  BY DEF Init, Unanswered, AnsweredOnce
<1>3. Submission
  <2>1. Requests \ fresh = {}
    BY DEF Init
  <2>2. IsFiniteSet(Requests \ fresh)
    BY <2>1, FS_EmptySet
  <2>3. \A e : ~ Contains(mgr, e)
    BY DEF Init, Contains
  <2>4. \A r \in Requests : inbox[r] = <<>> /\ r \notin linked
    BY DEF Init
  <2>5. fresh = Requests
    BY DEF Init
  <2> QED BY <2>2, <2>3, <2>4, <2>5, Zenon DEF Submission, Owned
<1>4. NoEntryLeftBehind /\ Entries
  BY DEF Init, NoEntryLeftBehind, Entries
<1>5. Waiting
  BY DEF Init, Waiting, Once
<1> QED BY <1>1, <1>2, <1>3, <1>4, <1>5 DEF RequestInv

\* Every handler, in the manager's thread or a sender's, keeps the invariant.
LEMMA RequestInvNext ==
    ASSUME RequestInv, [Next]_vars
    PROVE  RequestInv'
<1>0. "results" \in Signal /\ "error" \in Signal /\ "fail" \in Signal
  BY DEF Signal
<1>1. ASSUME NEW c \in Clients, ClientStep(c) \/ NetworkStep(c) PROVE RequestInv'
  BY <1>1, ConnectionsStep
<1>2. ASSUME NEW r \in Requests, submitRequest(r) \/ Handler(r) \/ Submitted(r) \/ Destroyed(r)
      PROVE  RequestInv'
  BY <1>2, SubmitRequestStep, HandlerStep, SubmittedStep, DestroyedStep
<1>3. CASE SenderDeleted
  BY <1>3, SenderDeletedStep
<1>4. ASSUME NEW r \in Requests, NEW signal \in {"results", "error"},
             handleMessageCommon(r, signal)
      PROVE  RequestInv'
  <2>1. /\ Handles(signal, r) /\ mgr' = Tail(mgr)
        /\ inbox' = inbox \/ (inbox' = Emitted({r}, signal) /\ r \in table)
        /\ UNCHANGED <<connection, own, fresh, linked, replied, cleanup, answers>>
        /\ table' = table \ {r}
    BY <1>4, Zenon DEF handleMessageCommon
  <2>2. /\ table' \subseteq table /\ {r} \cap table' = {}
        /\ r \in table => {r} \subseteq table
    BY <2>1
  <2>3. signal \in Signal /\ signal \notin {"submit", "destroyed"}
    BY <1>0
  <2> QED BY <2>1, <2>2, <2>3, SignalStep, Zenon
<1>5. ASSUME NEW c \in Clients, notifyFailForRequestsMatchingBitcoinD(c) PROVE RequestInv'
  <2>1. /\ Handles("lostRequests", c) /\ mgr' = Tail(mgr)
        /\ inbox' = Emitted({r \in Extant : bd[r] = c}, "fail")
        /\ UNCHANGED <<connection, table, own, fresh, linked, replied, cleanup, answers>>
    BY <1>5, Zenon DEF notifyFailForRequestsMatchingBitcoinD
  <2>2. /\ table' \subseteq table /\ "lostRequests" \notin {"submit", "destroyed"}
        /\ {r \in Extant : bd[r] = c} \subseteq table
    BY <2>1 DEF Extant
  <2> QED BY <1>0, <2>1, <2>2, SignalStep, Zenon
<1>6. ASSUME NEW rs \in SUBSET Requests, requestTimeoutChecker(rs) PROVE RequestInv'
  <2>1. /\ mgr' = mgr /\ inbox' = Emitted(rs, "fail")
        /\ UNCHANGED <<connection, table, own, fresh, linked, replied, cleanup, answers>>
    BY <1>6, Zenon DEF requestTimeoutChecker
  <2>2. table' \subseteq table /\ rs \subseteq table
    BY <1>6, <2>1 DEF requestTimeoutChecker, Extant
  <2> QED BY <1>0, <2>1, <2>2, SignalStep, Zenon
<1>7. ASSUME NEW c \in Clients, Authenticated(c) \/ LostConnection(c) PROVE RequestInv'
  <2>1. /\ UNCHANGED <<connection, requests>> /\ mgr' = Tail(mgr)
        /\ Handles("authenticated", c) \/ Handles("lostConnection", c)
    BY <1>7, Zenon DEF Authenticated, LostConnection
  <2>2. UNCHANGED <<connection, table, own, fresh, linked, replied, cleanup, answers, inbox>>
    BY <2>1 DEF requests
  <2>3. table' \subseteq table /\ "authenticated" \notin {"submit", "destroyed"}
        /\ "lostConnection" \notin {"submit", "destroyed"}
    BY <2>2
  <2> QED BY <1>0, <2>1, <2>2, <2>3, SignalStep, Zenon
<1>8. CASE checkNoMoreBitcoinDs \/ ControllerHears \/ UNCHANGED vars
  <2>1. UNCHANGED <<connection, mgr, requests>>
    BY <1>8, Zenon DEF checkNoMoreBitcoinDs, ControllerHears, vars
  <2>2. UNCHANGED <<connection, table, own, fresh, linked, replied, cleanup, answers, inbox>>
    BY <2>1 DEF requests
  <2>3. table' \subseteq table
    BY <2>2
  <2> QED BY <1>0, <2>1, <2>2, <2>3, SignalStep, Zenon
<1> QED BY <1>1, <1>2, <1>3, <1>4, <1>5, <1>6, <1>7, <1>8, Zenon DEF Next, MgrStep, SenderStep

\* The invariant of the requests holds in every behaviour.
LEMMA RequestInvariance == Spec => []RequestInv
BY RequestInvInit, RequestInvNext, PTL DEF Spec

\* For any number of requests, connections and reconnections, and whatever order replies,
\* time-outs and lost connections are signalled in: at most one callback of a request is
\* called, and at most once.
THEOREM CallbackOnce == Spec => []AnsweredOnce
<1>1. RequestInv => AnsweredOnce
  BY DEF RequestInv
<1> QED BY <1>1, RequestInvariance, PTL

\* Whoever drops the last reference to a context, the sender's callback, the sender's death
\* or BitcoinDMgr itself: its entry in reqContextTable is removed or about to be, unless the
\* request is one of BitcoinDMgr's own and has failed.
THEOREM NoEntryLeaks == Spec => []NoEntryLeftBehind
<1>1. RequestInv => NoEntryLeftBehind
  BY DEF RequestInv
<1> QED BY <1>1, RequestInvariance, PTL

-----------------------------------------------------------------------------
(* The good connections.                                                   *)

\* The queue does not lose an authenticated event that is not handled.
LEMMA AuthenticatedStays ==
    ASSUME RequestInv, NEW c \in Clients,
           Contains(mgr, [type |-> "authenticated", id |-> c]), [Next]_vars,
           ~ Authenticated(c)
    PROVE  Contains(mgr', [type |-> "authenticated", id |-> c])
<1> DEFINE a == [type |-> "authenticated", id |-> c]
<1>0. Shape /\ mgr \in Seq(Event)
  BY DEF RequestInv, Shape
<1>1. ASSUME NEW d \in Clients, ClientStep(d) \/ NetworkStep(d) PROVE Contains(mgr', a)
  BY <1>0, <1>1, ConnectionStep, EventsAdded, Zenon
<1>2. ASSUME NEW r \in Requests, submitRequest(r) PROVE Contains(mgr', a)
  <2>1. [type |-> "submit", id |-> r] \in Event
    BY DEF Event
  <2> QED BY <1>0, <1>2, <2>1, AppendContains DEF submitRequest
<1>3. ASSUME NEW r \in Requests, Handler(r) PROVE Contains(mgr', a)
  <2>1. IsFiniteSet({r}) /\ {r} \in SUBSET Requests /\ mgr' = Released({r}, linked', inbox', mgr)
    BY <1>3, FS_Singleton, Zenon DEF Handler
  <2> QED BY <1>0, <2>1, ReleasedQueue, Zenon
<1>4. CASE SenderDeleted
  <2> DEFINE rs == {r \in Requests \ own : Owned(r, linked, inbox, mgr)}
  <2>1. mgr' = Released(rs, linked', inbox', mgr)
    BY <1>4, Zenon DEF SenderDeleted
  <2>2. rs \in SUBSET Requests /\ IsFiniteSet(rs)
    BY FS_Subset DEF RequestInv, Submission
  <2> HIDE DEF rs
  <2> QED BY <1>0, <2>1, <2>2, ReleasedQueue, Zenon
<1>5. ASSUME NEW type, NEW id, Handles(type, id), type # "authenticated" \/ id # c
      PROVE  Tail(mgr) \in Seq(Event) /\ Contains(Tail(mgr), a)
  <2>1. a # [type |-> type, id |-> id]
    BY <1>5
  <2> HIDE DEF a
  <2> QED BY <1>0, <1>5, <2>1, HeadHandled DEF a
<1>6. ASSUME NEW r \in Requests, Submitted(r) PROVE Contains(mgr', a)
  <2>1. Handles("submit", r) /\ mgr' = Released({r}, linked, inbox', Tail(mgr))
    BY <1>6, Zenon DEF Submitted
  <2>2. Tail(mgr) \in Seq(Event) /\ Contains(Tail(mgr), a)
    BY <1>5, <2>1
  <2>3. IsFiniteSet({r}) /\ {r} \in SUBSET Requests
    BY FS_Singleton, Zenon
  <2> QED BY <2>1, <2>2, <2>3, ReleasedQueue, Zenon
<1>7. ASSUME NEW r \in Requests, Destroyed(r) PROVE Contains(mgr', a)
  BY <1>5, <1>7 DEF Destroyed
<1>8. ASSUME NEW r \in Requests, NEW signal \in {"results", "error"}, handleMessageCommon(r, signal)
      PROVE  Contains(mgr', a)
  BY <1>5, <1>8 DEF handleMessageCommon
<1>9. ASSUME NEW d \in Clients, notifyFailForRequestsMatchingBitcoinD(d) \/ LostConnection(d)
      PROVE  Contains(mgr', a)
  BY <1>5, <1>9, Zenon DEF notifyFailForRequestsMatchingBitcoinD, LostConnection
<1>10. ASSUME NEW d \in Clients, Authenticated(d) PROVE Contains(mgr', a)
  <2>1. d # c
    BY <1>10
  <2> QED BY <1>5, <1>10, <2>1 DEF Authenticated
<1>11. CASE checkNoMoreBitcoinDs \/ ControllerHears \/ UNCHANGED vars
            \/ \E rs \in SUBSET Requests : requestTimeoutChecker(rs)
  <2>1. mgr' = mgr
    BY <1>11, Zenon DEF checkNoMoreBitcoinDs, ControllerHears, vars, requestTimeoutChecker
  <2> QED BY <2>1
<1> QED BY <1>1, <1>2, <1>3, <1>4, <1>6, <1>7, <1>8, <1>9, <1>10, <1>11
        DEF Next, MgrStep, SenderStep

\* GoodConnectionsKnown is inductive: a connection only ever becomes good again by an
\* authentication that follows on_connected, and that is signalled.
LEMMA GoodStep ==
    ASSUME RequestInv, GoodConnectionsKnown, [Next]_vars
    PROVE  GoodConnectionsKnown'
<1> SUFFICES ASSUME NEW c \in Clients, isGood(c)', Settled(c)',
                    ~ Contains(mgr', [type |-> "authenticated", id |-> c])
             PROVE  c \in goodSet'
  BY Zenon DEF GoodConnectionsKnown
<1> DEFINE Flags == <<up[c], hooked[c], needAuth[c], badAuth[c]>>
<1>0. /\ Shape /\ mgr \in Seq(Event)
      /\ up \in [Clients -> {0, 1}] /\ hooked \in [Clients -> {0, 1}]
      /\ needAuth \in [Clients -> {0, 1}] /\ badAuth \in [Clients -> {0, 1}]
  BY DEF RequestInv, Shape
<1>1. CASE Authenticated(c)
  <2>1. /\ UNCHANGED <<up, needAuth, badAuth>>
        /\ goodSet' = IF isGood(c) THEN goodSet \cup {c} ELSE goodSet
    BY <1>1 DEF Authenticated, connection
  <2>2. isGood(c)
    BY <2>1 DEF isGood
  <2> QED BY <2>1, <2>2
<1>2. ASSUME ~ Authenticated(c), UNCHANGED Flags, c \in goodSet => c \in goodSet'
      PROVE  c \in goodSet'
  <2>1. ~ Contains(mgr, [type |-> "authenticated", id |-> c])
    BY <1>2, AuthenticatedStays, Zenon
  <2>2. isGood(c) /\ Settled(c)
    BY <1>2, Zenon DEF isGood, Settled
  <2> QED BY <1>2, <2>1, <2>2, Zenon DEF GoodConnectionsKnown
<1>3. ASSUME NEW d \in Clients, ClientStep(d) \/ NetworkStep(d), ~ Authenticated(c)
      PROVE  c \in goodSet'
  <2>1. goodSet' = goodSet
    BY <1>0, <1>3, ConnectionStep DEF good
  <2>2. CASE d # c
    <3>1. UNCHANGED Flags
      <4>1. CASE ClientStep(d)
        BY <1>0, <2>2, <4>1 DEF ClientStep, on_connected, on_disconnected, SendRequest
      <4>2. CASE NetworkStep(d)
        BY <1>0, <2>2, <4>2, Zenon DEF NetworkStep, SocketConnected, SocketUnconnected, PingReply,
                                AuthFailure, GotMessage, GotErrorMessage, Authenticate
      <4> QED BY <1>3, <4>1, <4>2
    <3> QED BY <1>2, <1>3, <2>1, <3>1
  <2>3. CASE d = c /\ ClientStep(c)
    <3>1. UNCHANGED Flags
      <4>1. ~ on_connected(c)
        BY <1>0 DEF on_connected, isGood
      <4>2. ~ on_disconnected(c)
        BY <1>0 DEF on_disconnected, isGood
      <4> QED BY <2>3, <4>1, <4>2, Zenon DEF ClientStep, SendRequest
    <3> QED BY <1>2, <1>3, <2>1, <3>1
  <2>4. ASSUME NEW event \in Seq(ConnEvent), Authenticate(c, event)
        PROVE  needAuth[c] = 0 /\ badAuth[c] = 0 /\ needAuth' = needAuth /\ badAuth' = badAuth
    <3>1. ASSUME needAuth[c] = 1 \/ badAuth[c] = 1 PROVE FALSE
      <4> DEFINE a == [type |-> "authenticated", id |-> c]
      <4>1. mgr' = mgr \o <<a>> \o event
        BY <2>4, <3>1, Zenon DEF Authenticate
      <4>2. <<a>> \in Seq(Event) /\ event \in Seq(Event) /\ mgr \o <<a>> \in Seq(Event)
        <5>1. a \in Event /\ ConnEvent \subseteq Event
          BY DEF Event, ConnEvent
        <5> HIDE DEF a
        <5>2. <<a>> \in Seq(Event) /\ event \in Seq(Event)
          BY <5>1
        <5> QED BY <1>0, <5>2
      <4>3. Contains(<<a>>, a)
        BY DEF Contains
      <4> HIDE DEF a
      <4>4. Contains(mgr', a)
        BY <1>0, <4>1, <4>2, <4>3, ConcatContains, Zenon
      <4> QED BY <4>4 DEF a
    <3>2. needAuth[c] = 0 /\ badAuth[c] = 0
      BY <1>0, <3>1
    <3> QED BY <1>0, <2>4, <3>2 DEF Authenticate
  <2>5. CASE d = c /\ NetworkStep(c)
    <3>1. ~ SocketConnected(c) /\ ~ SocketUnconnected(c) /\ ~ AuthFailure(c)
      BY <1>0 DEF SocketConnected, SocketUnconnected, AuthFailure, isGood, Settled
    <3>2. ASSUME PingReply(c) PROVE FALSE
      <4>1. <<>> \in Seq(ConnEvent)
        OBVIOUS
      <4>2. Authenticate(c, <<>>) /\ (needAuth[c] = 1 \/ badAuth[c] = 1)
        BY <3>2, Zenon DEF PingReply
      <4>3. needAuth[c] = 0 /\ badAuth[c] = 0
        BY <2>4, <4>1, <4>2, Zenon
      <4>4. 0 # 1
        OBVIOUS
      <4> QED BY <4>2, <4>3, <4>4, Zenon
    <3>3. ASSUME NEW r \in Requests, GotMessage(c, r) PROVE UNCHANGED Flags
      <4>1. <<[type |-> "results", id |-> r]>> \in Seq(ConnEvent)
        BY DEF ConnEvent
      <4>2. /\ Authenticate(c, <<[type |-> "results", id |-> r]>>)
            /\ up' = up /\ hooked' = hooked
        BY <3>3, Zenon DEF GotMessage
      <4>3. needAuth' = needAuth /\ badAuth' = badAuth
        BY <2>4, <4>1, <4>2, Zenon
      <4> QED BY <4>2, <4>3, Zenon
    <3>4. ASSUME NEW r \in Requests, GotErrorMessage(c, r) PROVE UNCHANGED Flags
      BY <3>4 DEF GotErrorMessage
    <3>5. UNCHANGED Flags
      BY <2>5, <3>1, <3>2, <3>3, <3>4, Zenon DEF NetworkStep
    <3> QED BY <1>2, <1>3, <2>1, <3>5
  <2> QED BY <1>3, <2>2, <2>3, <2>5
<1>4. ASSUME NEW d \in Clients, LostConnection(d), ~ Authenticated(c)
      PROVE  c \in goodSet'
  <2>1. UNCHANGED Flags /\ UNCHANGED <<up, needAuth, badAuth>>
    BY <1>4 DEF LostConnection, connection
  <2>2. isGood(c)
    BY <2>1 DEF isGood
  <2>3. c \in goodSet => c \in goodSet'
    BY <1>4, <2>2 DEF LostConnection
  <2> QED BY <1>2, <1>4, <2>1, <2>3, Zenon
<1>5. ASSUME NEW d \in Clients, Authenticated(d), ~ Authenticated(c)
      PROVE  c \in goodSet'
  <2>1. UNCHANGED Flags /\ (c \in goodSet => c \in goodSet')
    BY <1>5, Zenon DEF Authenticated, connection
  <2> QED BY <1>2, <1>5, <2>1, Zenon
<1>6. ASSUME NEW r \in Requests, Submitted(r), ~ Authenticated(c) PROVE c \in goodSet'
  <2>1. UNCHANGED <<up, hooked, needAuth, badAuth, good>>
    BY <1>6, Zenon DEF Submitted
  <2> QED BY <1>2, <1>6, <2>1, Zenon DEF good
<1>7. ASSUME UNCHANGED <<connection, goodSet>>, ~ Authenticated(c) PROVE c \in goodSet'
  BY <1>2, <1>7 DEF connection
<1>8. ASSUME NEW r \in Requests,
             \/ submitRequest(r) \/ Handler(r) \/ Destroyed(r)
             \/ \E signal \in {"results", "error"} : handleMessageCommon(r, signal)
      PROVE  UNCHANGED <<connection, goodSet>>
  <2>1. UNCHANGED <<connection, good>>
    BY <1>8, Zenon DEF submitRequest, Handler, Destroyed, handleMessageCommon
  <2> QED BY <2>1 DEF good
<1>9. ASSUME SenderDeleted \/ (\E d \in Clients : notifyFailForRequestsMatchingBitcoinD(d))
             \/ (\E rs \in SUBSET Requests : requestTimeoutChecker(rs)) \/ UNCHANGED vars
      PROVE  UNCHANGED <<connection, goodSet>>
  <2>1. UNCHANGED <<connection, good>>
    BY <1>9, Zenon DEF SenderDeleted, notifyFailForRequestsMatchingBitcoinD,
                       requestTimeoutChecker, vars
  <2> QED BY <2>1 DEF good
<1>10. ASSUME checkNoMoreBitcoinDs \/ ControllerHears
       PROVE  UNCHANGED <<connection, goodSet>>
  BY <1>10, Zenon DEF checkNoMoreBitcoinDs, ControllerHears
<1>11. CASE ~ Authenticated(c)
  BY <1>3, <1>4, <1>5, <1>6, <1>7, <1>8, <1>9, <1>10, <1>11, Zenon
  DEF Next, MgrStep, SenderStep
<1> QED BY <1>1, <1>11

\* However late BitcoinDMgr handles the signals of its connections, and whichever of them are
\* stale by then: a connection that is authenticated is in goodSet once they are handled.
THEOREM GoodConnectionsFound == Spec => []GoodConnectionsKnown
<1>1. Init => GoodConnectionsKnown
  BY DEF Init, GoodConnectionsKnown, isGood
<1> QED BY <1>1, GoodStep, RequestInvariance, PTL DEF Spec
=============================================================================
