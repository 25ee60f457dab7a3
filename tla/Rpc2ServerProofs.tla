-------------------------- MODULE Rpc2ServerProofs --------------------------
(***************************************************************************)
(* Proofs about the v2 server for any clients, connections and requests.   *)
(* What the queues do is not proved again: the server is shown to use them *)
(* as ItemQueue prescribes, and what ItemQueueProofs proves of ItemQueue   *)
(* is then cited for the server's queues.                                  *)
(***************************************************************************)
EXTENDS Rpc2Server, TLAPS

QP == INSTANCE ItemQueueProofs WITH
        Queues  <- {ConnQueue} \cup Entries,
        QueueOf <- [w \in Waiters |-> IF w = Acceptor THEN ConnQueue ELSE w],
        Copying <- {Acceptor},
        Items   <- Entries \cup Requests

\* The constants the server gives to ItemQueue are as ItemQueue wants them.
LEMMA QueueAssumptions ==
    /\ [w \in Waiters |-> IF w = Acceptor THEN ConnQueue ELSE w]
          \in [Waiters -> {ConnQueue} \cup Entries]
    /\ NoItem \notin Entries \cup Requests
    /\ NoWaiter \notin Waiters
BY NamesAssumption DEF Waiters

\* Q is an instance of ItemQueue and QP one of its proofs, with the same
\* constants: their definitions are the same formulas.
LEMMA SameInit == Q!Init <=> QP!Init
BY DEF Q!Init, QP!Init

LEMMA SameNext == [Q!Next]_(Q!vars) <=> [QP!Next]_(QP!vars)
BY DEF Q!Next, QP!Next, Q!vars, QP!vars, Q!push, QP!push, Q!set, QP!set, Q!WaiterStep, QP!WaiterStep,
   Q!reset, QP!reset, Q!async_pop, QP!async_pop, Q!take, QP!take, Q!PushStore, QP!PushStore,
   Q!PushHandOver, QP!PushHandOver, Q!PopWait, QP!PopWait, Q!PopReady, QP!PopReady,
   Q!Back, QP!Back, Q!PopBack, QP!PopBack

LEMMA SameTypes == Q!TypeOK <=> QP!TypeOK
BY DEF Q!TypeOK, QP!TypeOK

LEMMA QueueInvariant == Q!Spec => []QP!IInv
BY SameInit, SameNext, QueueAssumptions, QP!Invariant, PTL DEF Q!Spec, QP!Spec

(***************************************************************************)
(* The map and the links.                                                  *)
(***************************************************************************)

\* TypeOK without the queues' variables.
ServerTypes ==
    /\ conns_ \in [Clients -> Entries \cup {NoItem}]
    /\ connects \in [Clients -> Nat] /\ \A c \in Clients : connects[c] <= MaxConnects[c]
    /\ link \in [Clients -> {"down", "up"}]
    /\ rpc \in [Requests -> Phases]
    /\ sent \in [Requests -> Entries \cup {NoItem}]
    /\ content \in [Requests -> Replies \cup {NoItem}]
    /\ answer \in [Requests -> Replies \cup {NoItem}]
    /\ terminated \in BOOLEAN

\* NoTerminate is inductive once an open link is known to have an entry.
LinkInv ==
    /\ ServerTypes
    /\ NoTerminate
    /\ \A c \in Clients : link[c] = "up" => connects[c] >= 1

LEMMA CurrentEntry ==
    ASSUME LinkInv, NEW c \in Clients, link[c] = "up"
    PROVE  <<c, connects[c]>> \in Entries /\ conns_[c] = <<c, connects[c]>> /\ conns_[c] # NoItem
<1>1. connects[c] \in 1 .. MaxConnects[c] /\ conns_[c] = <<c, connects[c]>>
  BY MaxConnectsAssumption DEF LinkInv, ServerTypes, NoTerminate
<1>2. <<c, connects[c]>> \in Entries
  BY <1>1 DEF Entries
<1> QED BY <1>1, <1>2, NamesAssumption

LEMMA LinkInvInit == Init => LinkInv
<1> SUFFICES ASSUME Init PROVE LinkInv
  OBVIOUS
<1>1. \A c \in Clients : connects[c] = 0 /\ link[c] = "down" /\ conns_[c] = NoItem
  BY DEF Init
<1>2. \A c \in Clients : connects[c] <= MaxConnects[c]
  <2> SUFFICES ASSUME NEW c \in Clients PROVE connects[c] <= MaxConnects[c]
    OBVIOUS
  <2>1. connects[c] = 0 /\ MaxConnects[c] \in Nat
    BY <1>1, MaxConnectsAssumption
  <2> QED BY <2>1
<1>3. ServerTypes
  BY <1>2 DEF Init, ServerTypes, Phases
<1>4. NoTerminate
  BY <1>1 DEF Init, NoTerminate
<1> QED BY <1>1, <1>3, <1>4 DEF LinkInv

LEMMA ConnectKeepsLinkInv ==
    ASSUME LinkInv, NEW c \in Clients, BeginProcessConnect(c)
    PROVE  LinkInv' /\ Q!push(ConnQueue, <<c, connects[c] + 1>>) /\ <<c, connects[c] + 1>> \in Entries
<1> DEFINE e == <<c, connects[c] + 1>>
<1>1. connects[c] \in Nat /\ connects[c] < MaxConnects[c] /\ MaxConnects[c] \in Nat
  BY MaxConnectsAssumption DEF LinkInv, ServerTypes, BeginProcessConnect
<1>2. e \in Entries
  <2>1. connects[c] + 1 \in 1 .. MaxConnects[c]
    BY <1>1
  <2> QED BY <2>1 DEF Entries
<1>3. conns_' = [conns_ EXCEPT ![c] = e]
  BY DEF BeginProcessConnect, add_conn, insert, LinkInv, NoTerminate
<1>4. connects' = [connects EXCEPT ![c] = @ + 1] /\ link' = [link EXCEPT ![c] = "up"]
  BY DEF BeginProcessConnect
<1>5. ServerTypes'
  BY <1>1, <1>2, <1>3, <1>4 DEF LinkInv, ServerTypes, BeginProcessConnect, requestVars
<1>6. NoTerminate'
  BY <1>3, <1>4 DEF LinkInv, ServerTypes, NoTerminate, BeginProcessConnect
<1>7. \A d \in Clients : link'[d] = "up" => connects'[d] >= 1
  BY <1>1, <1>4 DEF LinkInv, ServerTypes
<1>8. Q!push(ConnQueue, e)
  BY DEF BeginProcessConnect, add_conn
<1> QED BY <1>2, <1>5, <1>6, <1>7, <1>8 DEF LinkInv

LEMMA DisconnectKeepsLinkInv ==
    ASSUME LinkInv, NEW c \in Clients, BeginProcessDisconnect(c)
    PROVE  LinkInv'
<1>1. conns_[c] # NoItem
  BY CurrentEntry DEF BeginProcessDisconnect
<1>2. ServerTypes'
  BY DEF LinkInv, ServerTypes, BeginProcessDisconnect, disconnect, requestVars
<1>3. NoTerminate'
  BY <1>1 DEF LinkInv, ServerTypes, NoTerminate, BeginProcessDisconnect, disconnect
<1> QED BY <1>2, <1>3 DEF LinkInv, ServerTypes, BeginProcessDisconnect

LEMMA RequestKeepsLinkInv ==
    ASSUME LinkInv, NEW c \in Clients, NEW r \in Requests, BeginProcessRequest(c, r)
    PROVE  LinkInv' /\ Q!push(<<c, connects[c]>>, r)
<1>1. <<c, connects[c]>> \in Entries /\ conns_[c] = <<c, connects[c]>> /\ conns_[c] # NoItem
  BY CurrentEntry DEF BeginProcessRequest
<1>2. Q!push(<<c, connects[c]>>, r) /\ terminated' = terminated
  BY <1>1 DEF BeginProcessRequest, post_request
<1>3. ServerTypes'
  BY <1>1, <1>2 DEF LinkInv, ServerTypes, BeginProcessRequest, Phases
<1>4. NoTerminate'
  BY <1>2 DEF LinkInv, NoTerminate, BeginProcessRequest
<1> QED BY <1>2, <1>3, <1>4 DEF LinkInv, BeginProcessRequest

\* The other steps leave the map and the links alone.
OtherStep ==
    \/ \E q \in {ConnQueue} \cup Entries : Signal(q)
    \/ \E r \in Requests : EndProcessRequest(r) \/ RequestTask(r)
    \/ AcceptLoop
    \/ \E e \in Entries : ConnLoop(e)
    \/ UNCHANGED vars

LEMMA OtherKeepsLinkInv ==
    ASSUME LinkInv, OtherStep
    PROVE  LinkInv'
<1>1. UNCHANGED <<conns_, connects, link, terminated>>
  BY DEF OtherStep, Signal, EndProcessRequest, RequestTask, execute, complete, throw, AcceptLoop, ConnLoop, vars
<1>2. ServerTypes'
  <2>1. ASSUME NEW r \in Requests, EndProcessRequest(r) \/ RequestTask(r) PROVE ServerTypes'
    BY <2>1 DEF LinkInv, ServerTypes, EndProcessRequest, RequestTask, execute, complete, throw, Phases
  <2>2. ASSUME NEW e \in Entries, ConnLoop(e) PROVE ServerTypes'
    BY <2>2 DEF LinkInv, ServerTypes, ConnLoop, Phases
  <2>3. ASSUME UNCHANGED requestVars PROVE ServerTypes'
    BY <2>3, <1>1 DEF LinkInv, ServerTypes, requestVars
  <2> QED
    BY <2>1, <2>2, <2>3 DEF OtherStep, Signal, AcceptLoop, vars
<1> QED BY <1>1, <1>2 DEF LinkInv, NoTerminate

LEMMA LinkInvStep == LinkInv /\ [Next]_vars => LinkInv'
BY ConnectKeepsLinkInv, DisconnectKeepsLinkInv, RequestKeepsLinkInv, OtherKeepsLinkInv
   DEF Next, Transport, OtherStep

LEMMA LinkInvariant == Spec => []LinkInv
BY LinkInvInit, LinkInvStep, PTL DEF Spec

\* No handler throws out of a noexcept function, and the map agrees with the
\* transport, however clients connect, send and disconnect.
THEOREM NoTerminateCorrect == Spec => []NoTerminate
BY LinkInvariant, PTL DEF LinkInv

(***************************************************************************)
(* The server uses the queues as ItemQueue prescribes.                     *)
(***************************************************************************)

LEMMA StepsQueue ==
    ASSUME LinkInv, [Next]_vars
    PROVE  [Q!Next]_(Q!vars)
<1>1. ASSUME NEW c \in Clients, BeginProcessConnect(c) PROVE Q!Next
  BY <1>1, ConnectKeepsLinkInv DEF Q!Next
<1>2. ASSUME NEW c \in Clients, BeginProcessDisconnect(c) PROVE UNCHANGED Q!vars
  BY <1>2 DEF BeginProcessDisconnect, queue, Q!vars
<1>3. ASSUME NEW c \in Clients, NEW r \in Requests, BeginProcessRequest(c, r) PROVE Q!Next
  BY <1>3, RequestKeepsLinkInv, CurrentEntry DEF Q!Next, BeginProcessRequest
<1>4. ASSUME NEW q \in {ConnQueue} \cup Entries, Signal(q) PROVE Q!Next
  BY <1>4 DEF Signal, Q!Next
<1>5. ASSUME NEW r \in Requests, EndProcessRequest(r) \/ RequestTask(r) PROVE UNCHANGED Q!vars
  BY <1>5 DEF EndProcessRequest, RequestTask, execute, complete, throw, queue, Q!vars
<1>6. ASSUME AcceptLoop PROVE Q!Next
  BY <1>6 DEF AcceptLoop, Q!Next, Waiters
<1>7. ASSUME NEW e \in Entries, ConnLoop(e) PROVE Q!Next
  BY <1>7 DEF ConnLoop, Q!Next, Q!WaiterStep, Waiters
<1>8. ASSUME UNCHANGED vars PROVE UNCHANGED Q!vars
  BY <1>8 DEF vars, queue, Q!vars
<1> QED
  BY <1>1, <1>2, <1>3, <1>4, <1>5, <1>6, <1>7, <1>8 DEF Next, Transport

\* Connects, requests and the coroutines act on the queues only by push,
\* async_pop, set and the consumers' protocol: the server implements ItemQueue.
THEOREM QueueProtocolCorrect == Spec => QueueProtocol
<1>1. Init => Q!Init
  BY DEF Init
<1>2. LinkInv /\ [Next]_vars => [Q!Next]_(Q!vars)
  BY StepsQueue
<1> QED BY <1>1, <1>2, LinkInvariant, PTL DEF Spec, QueueProtocol, Q!Spec

LEMMA QueueInvariantHere == Spec => []QP!IInv
BY QueueProtocolCorrect, QueueInvariant, PTL DEF QueueProtocol

\* In the server no wakeup is lost and no item is lost or handled twice: what
\* is proved of the queues holds of the server's.
THEOREM ServerQueuesCorrect == Spec => [](Q!NoLostWakeup /\ Q!ItemsOnce)
<1>1. QP!NoLostWakeup <=> Q!NoLostWakeup
  BY DEF QP!NoLostWakeup, Q!NoLostWakeup, QP!Listed, Q!Listed, QP!BeingSet, Q!BeingSet
<1>2. QP!ItemsOnce <=> Q!ItemsOnce
  BY DEF QP!ItemsOnce, Q!ItemsOnce, QP!StoredOnce, Q!StoredOnce, QP!Conserved, Q!Conserved,
     QP!OnePlace, Q!OnePlace, QP!InQueue, Q!InQueue, QP!InSlot, Q!InSlot, QP!InHands, Q!InHands,
     QP!Stored, Q!Stored, QP!Filled, Q!Filled
<1>3. QP!IInv => Q!NoLostWakeup /\ Q!ItemsOnce
  BY <1>1, <1>2 DEF QP!IInv, QP!WInv
<1> QED BY <1>3, QueueInvariantHere, PTL

\* Every variable of the server keeps its type.
THEOREM ServerTypeCorrect == Spec => []TypeOK
<1>1. LinkInv /\ QP!IInv => TypeOK
  BY SameTypes DEF LinkInv, ServerTypes, QP!IInv, QP!WInv, TypeOK
<1> QED BY <1>1, LinkInvariant, QueueInvariantHere, PTL

(***************************************************************************)
(* Requests and their connections.  What is pending on a queue, stored or  *)
(* in a slot, changes by the abstract hand-over's Put and Get only.        *)
(***************************************************************************)

\* Requests stay with the connection they were sent on, in its queue and in
\* the hands of its coroutine ...
OwnContents ==
    \A e \in Entries : QP!pending[e] \cup taken[e] \subseteq {r \in Requests : sent[r] = e}

\* ... and one that nobody has taken is untouched.
PendingPosted == \A e \in Entries : \A r \in QP!pending[e] : rpc[r] = "posted"

\* The reply is in the context from request::complete on, and what
\* EndProcessRequest returned is that reply.
ReplyInv ==
    \A r \in Requests :
        /\ content[r] = NoItem <=> rpc[r] \in {"new", "posted", "accepted", "dropped"}
        /\ rpc[r] = "ended" => answer[r] = content[r]

ServerInv == LinkInv /\ QP!IInv /\ OwnContents /\ PendingPosted /\ ReplyInv

\* One step of the server, between two states of the queues.
Stepping == ServerInv /\ QP!IInv'

LEMMA PushIsPutHere ==
    ASSUME QP!IInv, NEW q \in {ConnQueue} \cup Entries, NEW x \in Entries \cup Requests, Q!push(q, x)
    PROVE  QP!H!Put(q, x)
<1>1. QP!push(q, x)
  BY DEF Q!push, QP!push, Q!PushStore, QP!PushStore, Q!PushHandOver, QP!PushHandOver,
     Q!Back, QP!Back, Q!PopBack, QP!PopBack
<1> QED BY <1>1, QP!PushIsPut, QueueAssumptions

LEMMA TakeIsGetHere ==
    ASSUME QP!IInv, NEW w \in Waiters, Q!take(w)
    PROVE  msgout[w] \in Entries \cup Requests /\ QP!H!Get(w, msgout[w])
<1>1. QP!take(w)
  BY DEF Q!take, QP!take
<1> QED BY <1>1, QP!TakeIsGet, QueueAssumptions

LEMMA QuietHere ==
    ASSUME QP!IInv, QP!IInv',
           \/ \E w \in Waiters : Q!reset(w) \/ Q!async_pop(w)
           \/ \E q \in {ConnQueue} \cup Entries : Q!set(q)
    PROVE  QP!pending' = QP!pending /\ taken' = taken
<1>1. \/ \E w \in Waiters : QP!reset(w) \/ QP!async_pop(w)
      \/ \E q \in {ConnQueue} \cup Entries : QP!set(q)
  BY DEF Q!reset, QP!reset, Q!async_pop, QP!async_pop, Q!set, QP!set, Q!PopWait, QP!PopWait,
     Q!PopReady, QP!PopReady, Q!Back, QP!Back, Q!PopBack, QP!PopBack
<1>2. UNCHANGED QP!H!vars
  BY <1>1, QP!ResetStutters, QP!PopStutters, QP!SetStutters, QueueAssumptions
<1> QED BY <1>2 DEF QP!H!vars

LEMMA PendingTypeHere ==
    /\ QP!pending \in [{ConnQueue} \cup Entries -> SUBSET (Entries \cup Requests)]
    /\ (QP!pending \in [{ConnQueue} \cup Entries -> SUBSET (Entries \cup Requests)])'
BY DEF QP!pending

\* Where everybody's queue is.
LEMMA QueuesHere ==
    /\ \A e \in Entries : /\ e \in Waiters /\ e # Acceptor /\ e # ConnQueue
                          /\ [w \in Waiters |-> IF w = Acceptor THEN ConnQueue ELSE w][e] = e
    /\ Acceptor \in Waiters
    /\ [w \in Waiters |-> IF w = Acceptor THEN ConnQueue ELSE w][Acceptor] = ConnQueue
BY NamesAssumption DEF Waiters

LEMMA OwnConnectionFromInv == ServerInv => OwnConnection
BY DEF ServerInv, OwnContents, OwnConnection

LEMMA ContentsInit == Init /\ QP!IInv => OwnContents /\ PendingPosted /\ ReplyInv
<1> SUFFICES ASSUME Init, QP!IInv PROVE OwnContents /\ PendingPosted /\ ReplyInv
  OBVIOUS
<1>1. \A e \in Entries : QP!pending[e] = {} /\ taken[e] = {}
  <2> SUFFICES ASSUME NEW e \in Entries PROVE QP!pending[e] = {} /\ taken[e] = {}
    OBVIOUS
  <2>1. taken[e] = {}
    BY QueuesHere DEF Init, Q!Init
  <2>2. \A q \in {ConnQueue} \cup Entries : items_[q] = <<>>
    BY DEF Init, Q!Init
  <2>3. \A w \in Waiters : wpc[w] = "idle"
    BY DEF Init, Q!Init
  <2>4. \A x \in Entries \cup Requests : x \notin QP!pending[e]
    BY <2>2, <2>3 DEF QP!pending, QP!InQueue, QP!Stored, QP!InSlot, QP!Filled
  <2> QED BY <2>1, <2>4, PendingTypeHere
<1> QED BY <1>1, NamesAssumption DEF Init, OwnContents, PendingPosted, ReplyInv

\* A new connection is queued for the acceptor and touches no request.
LEMMA ConnectKeepsContents ==
    ASSUME Stepping, NEW c \in Clients, BeginProcessConnect(c)
    PROVE  OwnContents' /\ PendingPosted' /\ ReplyInv'
<1>1. QP!H!Put(ConnQueue, <<c, connects[c] + 1>>)
  BY ConnectKeepsLinkInv, PushIsPutHere DEF Stepping, ServerInv
<1>2. /\ \A e \in Entries : QP!pending'[e] = QP!pending[e]
      /\ taken' = taken
  BY <1>1, PendingTypeHere, QueuesHere DEF QP!H!Put
<1>3. UNCHANGED <<rpc, sent, content, answer>>
  BY DEF BeginProcessConnect, requestVars
<1> QED
  BY <1>2, <1>3 DEF Stepping, ServerInv, OwnContents, PendingPosted, ReplyInv

\* A request joins the queue of its client's current connection.
LEMMA RequestKeepsContents ==
    ASSUME Stepping, NEW c \in Clients, NEW r \in Requests, BeginProcessRequest(c, r)
    PROVE  OwnContents' /\ PendingPosted' /\ ReplyInv'
<1> DEFINE e0 == <<c, connects[c]>>
<1>1. e0 \in Entries /\ QP!H!Put(e0, r)
  BY CurrentEntry, RequestKeepsLinkInv, PushIsPutHere DEF Stepping, ServerInv, BeginProcessRequest
<1>2. /\ sent' = [sent EXCEPT ![r] = e0]
      /\ rpc' = [rpc EXCEPT ![r] = "posted"]
      /\ rpc[r] = "new"
      /\ UNCHANGED <<content, answer>>
      /\ sent \in [Requests -> Entries \cup {NoItem}]
      /\ rpc \in [Requests -> Phases]
  BY DEF BeginProcessRequest, Stepping, ServerInv, LinkInv, ServerTypes
<1> HIDE DEF e0
<1>3. /\ \A e \in Entries : QP!pending'[e] = IF e = e0 THEN QP!pending[e] \cup {r} ELSE QP!pending[e]
      /\ taken' = taken
  BY <1>1, PendingTypeHere DEF QP!H!Put
<1>4. \A e \in Entries : r \notin QP!pending[e] /\ r \notin taken[e]
  BY <1>1, QueuesHere DEF QP!H!Put, QP!H!Fresh
<1>5. OwnContents'
  <2> SUFFICES ASSUME NEW e \in Entries, NEW x \in QP!pending'[e] \cup taken'[e]
               PROVE  x \in Requests /\ sent'[x] = e
    BY DEF OwnContents
  <2>1. CASE x \in QP!pending[e] \cup taken[e]
    <3>1. x # r /\ x \in Requests /\ sent[x] = e
      BY <1>4, <2>1 DEF Stepping, ServerInv, OwnContents
    <3> QED BY <1>2, <3>1
  <2>2. CASE e = e0 /\ x = r
    BY <1>2, <2>2
  <2> QED BY <1>3, <2>1, <2>2
<1>6. PendingPosted'
  <2> SUFFICES ASSUME NEW e \in Entries, NEW x \in QP!pending'[e] PROVE rpc'[x] = "posted"
    BY DEF PendingPosted
  <2>1. CASE x \in QP!pending[e]
    <3>1. x # r /\ x \in Requests /\ rpc[x] = "posted"
      BY <1>4, <2>1 DEF Stepping, ServerInv, OwnContents, PendingPosted
    <3> QED BY <1>2, <3>1
  <2>2. CASE x = r
    BY <1>2, <2>2
  <2> QED BY <1>3, <2>1, <2>2
<1>7. ReplyInv'
  BY <1>2 DEF Stepping, ServerInv, ReplyInv
<1> QED BY <1>5, <1>6, <1>7

\* The accept loop takes connections from its own queue.
LEMMA AcceptKeepsContents ==
    ASSUME Stepping, AcceptLoop
    PROVE  OwnContents' /\ PendingPosted' /\ ReplyInv'
<1>1. UNCHANGED <<rpc, sent, content, answer>>
  BY DEF AcceptLoop, requestVars
<1>2. \A e \in Entries : QP!pending'[e] = QP!pending[e] /\ taken'[e] = taken[e]
  <2>1. CASE Q!take(Acceptor)
    <3>1. QP!H!Get(Acceptor, msgout[Acceptor])
      BY <2>1, TakeIsGetHere, QueuesHere DEF Stepping, ServerInv
    <3>2. taken \in [Waiters -> SUBSET (Entries \cup Requests)]
      BY DEF Stepping, ServerInv, QP!IInv, QP!WInv, QP!TypeOK
    <3> QED
      BY <3>1, <3>2, PendingTypeHere, QueuesHere DEF QP!H!Get
  <2>2. CASE Q!reset(Acceptor) \/ Q!async_pop(Acceptor)
    BY <2>2, QuietHere, QueuesHere DEF Stepping, ServerInv
  <2> QED BY <2>1, <2>2 DEF AcceptLoop, Q!WaiterStep
<1> QED
  BY <1>1, <1>2 DEF Stepping, ServerInv, OwnContents, PendingPosted, ReplyInv

\* A connection's coroutine takes a request that was sent on the connection
\* and that nobody has taken before.
LEMMA TakenRequest ==
    ASSUME Stepping, NEW e \in Entries, Q!take(e)
    PROVE  /\ msgout[e] \in Requests
           /\ sent[msgout[e]] = e
           /\ rpc[msgout[e]] = "posted"
           /\ \A p \in Entries :
                /\ QP!pending'[p] = QP!pending[p] \ {msgout[e]}
                /\ taken'[p] = IF p = e THEN taken[p] \cup {msgout[e]} ELSE taken[p]
<1> DEFINE r == msgout[e]
<1>1. QP!H!Get(e, r)
  BY TakeIsGetHere, QueuesHere DEF Stepping, ServerInv
<1> HIDE DEF r
<1>2. r \in QP!pending[e]
  BY <1>1, QueuesHere DEF QP!H!Get
<1>3. r \in Requests /\ sent[r] = e /\ rpc[r] = "posted"
  BY <1>2 DEF Stepping, ServerInv, OwnContents, PendingPosted
<1>4. \A p \in Entries : p # e => r \notin QP!pending[p]
  BY <1>3 DEF Stepping, ServerInv, OwnContents
<1>5. taken \in [Waiters -> SUBSET (Entries \cup Requests)]
  BY DEF Stepping, ServerInv, QP!IInv, QP!WInv, QP!TypeOK
<1>6. \A p \in Entries : QP!pending'[p] = QP!pending[p] \ {r}
  BY <1>1, <1>4, PendingTypeHere, QueuesHere DEF QP!H!Get
<1>7. \A p \in Entries : taken'[p] = IF p = e THEN taken[p] \cup {r} ELSE taken[p]
  BY <1>1, <1>5, QueuesHere DEF QP!H!Get
<1> QED BY <1>3, <1>6, <1>7 DEF r

LEMMA ConnLoopKeepsContents ==
    ASSUME Stepping, NEW e \in Entries, ConnLoop(e)
    PROVE  OwnContents' /\ PendingPosted' /\ ReplyInv'
<1>1. UNCHANGED <<sent, content, answer>>
  BY DEF ConnLoop
<1>2. CASE Q!take(e) /\ rpc' = [r \in Requests |-> IF r = msgout[e] THEN "accepted" ELSE rpc[r]]
  <2> DEFINE r == msgout[e]
  <2>1. /\ r \in Requests /\ sent[r] = e /\ rpc[r] = "posted"
        /\ \A p \in Entries : /\ QP!pending'[p] = QP!pending[p] \ {r}
                              /\ taken'[p] = IF p = e THEN taken[p] \cup {r} ELSE taken[p]
    BY <1>2, TakenRequest
  <2>2. \A x \in Requests : rpc'[x] = IF x = r THEN "accepted" ELSE rpc[x]
    BY <1>2
  <2> HIDE DEF r
  <2>3. OwnContents'
    <3> SUFFICES ASSUME NEW p \in Entries, NEW x \in QP!pending'[p] \cup taken'[p]
                 PROVE  x \in Requests /\ sent'[x] = p
      BY DEF OwnContents
    <3>0. /\ QP!pending'[p] = QP!pending[p] \ {r}
          /\ taken'[p] = IF p = e THEN taken[p] \cup {r} ELSE taken[p]
      BY <2>1
    <3>1. CASE x \in QP!pending[p] \cup taken[p]
      BY <1>1, <3>1 DEF Stepping, ServerInv, OwnContents
    <3>2. CASE p = e /\ x = r
      BY <1>1, <2>1, <3>2
    <3> QED BY <3>0, <3>1, <3>2
  <2>4. PendingPosted'
    <3> SUFFICES ASSUME NEW p \in Entries, NEW x \in QP!pending'[p] PROVE rpc'[x] = "posted"
      BY DEF PendingPosted
    <3>0. QP!pending'[p] = QP!pending[p] \ {r}
      BY <2>1
    <3>1. x \in QP!pending[p] /\ x # r
      BY <3>0
    <3>2. x \in Requests /\ rpc[x] = "posted"
      BY <3>1 DEF Stepping, ServerInv, OwnContents, PendingPosted
    <3> QED BY <2>2, <3>1, <3>2
  <2>5. ReplyInv'
    BY <1>1, <2>1, <2>2 DEF Stepping, ServerInv, ReplyInv
  <2> QED BY <2>3, <2>4, <2>5
<1>3. CASE (Q!reset(e) \/ Q!async_pop(e)) /\ rpc' = rpc
  <2>1. QP!pending' = QP!pending /\ taken' = taken
    BY <1>3, QuietHere, QueuesHere DEF Stepping, ServerInv
  <2> QED
    BY <1>1, <1>3, <2>1 DEF Stepping, ServerInv, OwnContents, PendingPosted, ReplyInv
<1> QED BY <1>2, <1>3 DEF ConnLoop

\* The request's task and the transport leave the queues alone, and they are
\* at a request that has left its queue.
LEMMA TaskKeepsContents ==
    ASSUME Stepping, NEW r \in Requests, EndProcessRequest(r) \/ RequestTask(r)
    PROVE  OwnContents' /\ PendingPosted' /\ ReplyInv'
<1>1. UNCHANGED queue /\ sent' = sent
  BY DEF EndProcessRequest, RequestTask, execute, complete, throw
<1>2. QP!pending' = QP!pending /\ taken' = taken
  BY <1>1 DEF queue, QP!pending, QP!InQueue, QP!Stored, QP!InSlot, QP!Filled
<1>3. rpc[r] # "posted" /\ \A x \in Requests : x # r => rpc'[x] = rpc[x]
  BY DEF EndProcessRequest, RequestTask, execute, complete, throw, Stepping, ServerInv, LinkInv, ServerTypes
<1>4. OwnContents' /\ PendingPosted'
  BY <1>1, <1>2, <1>3 DEF Stepping, ServerInv, OwnContents, PendingPosted
<1>5. ReplyInv'
  <2> USE DEF Stepping, ServerInv, LinkInv, ServerTypes, ReplyInv
  <2>1. CASE EndProcessRequest(r)
    BY <2>1 DEF EndProcessRequest
  <2>2. ASSUME NEW a \in Replies, execute(r, a) PROVE ReplyInv'
    BY <2>2, NamesAssumption DEF execute
  <2>3. CASE complete(r)
    BY <2>3 DEF complete
  <2>4. CASE throw(r)
    BY <2>4 DEF throw
  <2> QED BY <2>1, <2>2, <2>3, <2>4 DEF RequestTask
<1> QED BY <1>4, <1>5

LEMMA ServerInvStep == ServerInv /\ QP!IInv' /\ [Next]_vars => ServerInv'
<1> SUFFICES ASSUME Stepping, [Next]_vars PROVE OwnContents' /\ PendingPosted' /\ ReplyInv'
  BY LinkInvStep DEF ServerInv, Stepping
<1>1. ASSUME NEW c \in Clients, BeginProcessDisconnect(c)
      PROVE  OwnContents' /\ PendingPosted' /\ ReplyInv'
  BY <1>1 DEF BeginProcessDisconnect, queue, requestVars, Stepping, ServerInv, OwnContents, PendingPosted,
     ReplyInv, QP!pending, QP!InQueue, QP!Stored, QP!InSlot, QP!Filled
<1>2. ASSUME NEW q \in {ConnQueue} \cup Entries, Signal(q)
      PROVE  OwnContents' /\ PendingPosted' /\ ReplyInv'
  <2>1. QP!pending' = QP!pending /\ taken' = taken
    BY <1>2, QuietHere DEF Signal, Stepping, ServerInv
  <2> QED
    BY <1>2, <2>1 DEF Signal, requestVars, Stepping, ServerInv, OwnContents, PendingPosted, ReplyInv
<1>3. ASSUME UNCHANGED vars
      PROVE  OwnContents' /\ PendingPosted' /\ ReplyInv'
  BY <1>3 DEF vars, queue, requestVars, Stepping, ServerInv, OwnContents, PendingPosted,
     ReplyInv, QP!pending, QP!InQueue, QP!Stored, QP!InSlot, QP!Filled
<1> QED
  BY <1>1, <1>2, <1>3, ConnectKeepsContents, RequestKeepsContents, AcceptKeepsContents,
     ConnLoopKeepsContents, TaskKeepsContents DEF Next, Transport

LEMMA ServerInvariant == Spec => []ServerInv
<1>1. Init /\ QP!IInv => ServerInv
  BY LinkInvInit, ContentsInit DEF ServerInv
<1> QED BY <1>1, ServerInvStep, QueueInvariantHere, PTL DEF Spec

\* Whatever the order of connects, requests and disconnects, a request is
\* handled by the coroutine of the connection it was sent on.
THEOREM OwnConnectionCorrect == Spec => []OwnConnection
BY ServerInvariant, OwnConnectionFromInv, PTL

(***************************************************************************)
(* The server implements the transport's request/reply contract.           *)
(***************************************************************************)

\* A request whose phase does not change, with the reply it has.
SameView == phase' = phase /\ reply' = reply

LEMMA SameViewFromParts ==
    ASSUME \A r \in Requests : /\ (rpc'[r] = rpc[r] \/ {rpc[r], rpc'[r]} \subseteq {"posted", "accepted", "dropped"})
                               /\ content'[r] = content[r] /\ answer'[r] = answer[r]
    PROVE  SameView
<1>1. \A r \in Requests : phase'[r] = phase[r]
  BY DEF phase
<1>2. \A r \in Requests : reply'[r] = reply[r]
  BY DEF reply
<1> QED BY <1>1, <1>2 DEF SameView, phase, reply

\* Phases and replies after a step that concerns one request.
LEMMA ViewOf ==
    ASSUME NEW r \in Requests, ServerTypes, ServerTypes',
           \A x \in Requests \ {r} :
              rpc'[x] = rpc[x] /\ content'[x] = content[x] /\ answer'[x] = answer[x]
    PROVE  /\ phase' = [phase EXCEPT ![r] = phase'[r]]
           /\ reply' = [reply EXCEPT ![r] = reply'[r]]
<1>1. /\ phase = [x \in Requests |-> phase[x]] /\ phase' = [x \in Requests |-> phase'[x]]
      /\ reply = [x \in Requests |-> reply[x]] /\ reply' = [x \in Requests |-> reply'[x]]
  BY DEF phase, reply
<1>2. \A x \in Requests \ {r} : phase'[x] = phase[x] /\ reply'[x] = reply[x]
  BY DEF phase, reply
<1> HIDE DEF phase, reply
<1> QED BY <1>1, <1>2

LEMMA BeginIsBegin ==
    ASSUME ServerInv, ServerInv', NEW c \in Clients, NEW r \in Requests, BeginProcessRequest(c, r)
    PROVE  RR!Begin(r)
<1>1. /\ rpc[r] = "new" /\ rpc' = [rpc EXCEPT ![r] = "posted"]
      /\ content' = content /\ answer' = answer
      /\ ServerTypes /\ ServerTypes'
  BY DEF BeginProcessRequest, ServerInv, LinkInv
<1>2. rpc'[r] = "posted" /\ \A x \in Requests \ {r} : rpc'[x] = rpc[x]
  BY <1>1 DEF ServerTypes
<1>3. phase' = [phase EXCEPT ![r] = phase'[r]] /\ reply' = [reply EXCEPT ![r] = reply'[r]]
  BY <1>1, <1>2, ViewOf
<1>4. phase[r] = "idle" /\ phase'[r] = "begun" /\ reply'[r] = reply[r]
  BY <1>1, <1>2 DEF phase, reply
<1>5. reply' = reply
  BY <1>3, <1>4 DEF reply
<1> QED BY <1>3, <1>4, <1>5 DEF RR!Begin

LEMMA ExecuteIsDecide ==
    ASSUME ServerInv, ServerInv', NEW r \in Requests, NEW a \in Replies, execute(r, a)
    PROVE  RR!Decide(r, a)
<1>1. /\ rpc[r] = "accepted" /\ rpc' = [rpc EXCEPT ![r] = "completing"]
      /\ content' = [content EXCEPT ![r] = a] /\ answer' = answer
      /\ ServerTypes /\ ServerTypes' /\ content[r] = NoItem
  BY DEF execute, ServerInv, LinkInv, ReplyInv
<1>2. /\ rpc'[r] = "completing" /\ content'[r] = a
      /\ \A x \in Requests \ {r} : rpc'[x] = rpc[x] /\ content'[x] = content[x]
  BY <1>1 DEF ServerTypes
<1>3. phase' = [phase EXCEPT ![r] = phase'[r]] /\ reply' = [reply EXCEPT ![r] = reply'[r]]
  BY <1>1, <1>2, ViewOf
<1>4. phase[r] = "begun" /\ phase'[r] = "begun" /\ reply[r] = NoItem /\ reply'[r] = a
  BY <1>1, <1>2 DEF phase, reply
<1>5. phase' = phase
  BY <1>3, <1>4 DEF phase
<1> QED BY <1>3, <1>4, <1>5 DEF RR!Decide

LEMMA CompleteIsCallback ==
    ASSUME ServerInv, ServerInv', NEW r \in Requests, complete(r)
    PROVE  RR!Callback(r)
<1>1. /\ rpc[r] = "completing" /\ rpc' = [rpc EXCEPT ![r] = "invoked"]
      /\ content' = content /\ answer' = answer
      /\ ServerTypes /\ ServerTypes'
  BY DEF complete, ServerInv, LinkInv
<1>2. rpc'[r] = "invoked" /\ \A x \in Requests \ {r} : rpc'[x] = rpc[x]
  BY <1>1 DEF ServerTypes
<1>3. phase' = [phase EXCEPT ![r] = phase'[r]] /\ reply' = [reply EXCEPT ![r] = reply'[r]]
  BY <1>1, <1>2, ViewOf
<1>4. phase[r] = "begun" /\ phase'[r] = "called" /\ reply'[r] = reply[r]
  BY <1>1, <1>2 DEF phase, reply
<1>5. reply' = reply
  BY <1>3, <1>4 DEF reply
<1> QED BY <1>3, <1>4, <1>5 DEF RR!Callback

LEMMA EndIsEnd ==
    ASSUME ServerInv, ServerInv', NEW r \in Requests, EndProcessRequest(r)
    PROVE  RR!End(r, content[r]) /\ content[r] \in Replies
<1>1. /\ rpc[r] = "invoked" /\ rpc' = [rpc EXCEPT ![r] = "ended"]
      /\ content' = content /\ answer' = [answer EXCEPT ![r] = content[r]]
      /\ ServerTypes /\ ServerTypes' /\ content[r] \in Replies
  BY DEF EndProcessRequest, ServerInv, LinkInv, ReplyInv, ServerTypes
<1>2. /\ rpc'[r] = "ended" /\ answer'[r] = content[r]
      /\ \A x \in Requests \ {r} : rpc'[x] = rpc[x] /\ answer'[x] = answer[x]
  BY <1>1 DEF ServerTypes
<1>3. phase' = [phase EXCEPT ![r] = phase'[r]] /\ reply' = [reply EXCEPT ![r] = reply'[r]]
  BY <1>1, <1>2, ViewOf
<1>4. phase[r] = "called" /\ phase'[r] = "ended" /\ reply[r] = content[r] /\ reply'[r] = content[r]
  BY <1>1, <1>2 DEF phase, reply
<1> QED BY <1>1, <1>3, <1>4 DEF RR!End

LEMMA OtherStepsAreUnseen ==
    ASSUME ServerInv, QP!IInv',
           \/ \E c \in Clients : BeginProcessConnect(c) \/ BeginProcessDisconnect(c)
           \/ \E q \in {ConnQueue} \cup Entries : Signal(q)
           \/ AcceptLoop
           \/ \E e \in Entries : ConnLoop(e)
           \/ \E r \in Requests : throw(r)
           \/ UNCHANGED vars
    PROVE  UNCHANGED RR!vars
<1>1. ASSUME UNCHANGED requestVars PROVE SameView
  BY <1>1 DEF requestVars, SameView, phase, reply
<1>2. ASSUME NEW e \in Entries, ConnLoop(e) PROVE SameView
  <2>1. content' = content /\ answer' = answer
    BY <1>2 DEF ConnLoop
  <2>2. CASE Q!take(e) /\ rpc' = [r \in Requests |-> IF r = msgout[e] THEN "accepted" ELSE rpc[r]]
    <3>1. rpc[msgout[e]] = "posted"
      BY <2>2, TakenRequest DEF Stepping
    <3> QED BY <2>1, <2>2, <3>1, SameViewFromParts
  <2>3. CASE rpc' = rpc
    BY <2>1, <2>3, SameViewFromParts
  <2> QED BY <1>2, <2>2, <2>3 DEF ConnLoop
<1>3. ASSUME NEW r \in Requests, throw(r) PROVE SameView
  BY <1>3, SameViewFromParts DEF throw, ServerInv, LinkInv, ServerTypes
<1>4. SameView
  BY <1>1, <1>2, <1>3 DEF BeginProcessConnect, BeginProcessDisconnect, Signal, AcceptLoop, vars
<1> QED BY <1>4 DEF SameView, RR!vars

\* The v2 message handler, its queues and its coroutines keep the contract the
\* transport relies on: one callback per request, the reply decided once and
\* before EndProcessRequest, which hands over that reply.
THEOREM ServerRefinement == Spec => ImplementsRequestReply
<1>1. Init => RR!Init
  BY DEF Init, RR!Init, phase, reply
<1>2. ServerInv /\ ServerInv' /\ [Next]_vars => [RR!Next]_(RR!vars)
  <2> SUFFICES ASSUME ServerInv, ServerInv', [Next]_vars PROVE [RR!Next]_(RR!vars)
    OBVIOUS
  <2>0. QP!IInv'
    BY DEF ServerInv
  <2>1. ASSUME NEW c \in Clients, NEW r \in Requests, BeginProcessRequest(c, r) PROVE RR!Next
    BY <2>1, BeginIsBegin DEF RR!Next
  <2>2. ASSUME NEW r \in Requests, NEW a \in Replies, execute(r, a) PROVE RR!Next
    BY <2>2, ExecuteIsDecide DEF RR!Next
  <2>3. ASSUME NEW r \in Requests, complete(r) PROVE RR!Next
    BY <2>3, CompleteIsCallback DEF RR!Next
  <2>4. ASSUME NEW r \in Requests, EndProcessRequest(r) PROVE RR!Next
    BY <2>4, EndIsEnd DEF RR!Next
  <2> QED
    BY <2>0, <2>1, <2>2, <2>3, <2>4, OtherStepsAreUnseen DEF Next, Transport, RequestTask
<1> QED BY <1>1, <1>2, ServerInvariant, PTL DEF Spec, ImplementsRequestReply, RR!Spec
=============================================================================
