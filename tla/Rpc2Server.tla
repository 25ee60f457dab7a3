----------------------------- MODULE Rpc2Server -----------------------------
(***************************************************************************)
(* The server side of fabric_rpc2: the connection manager and its queues,  *)
(* the transport's connection and message handlers, and the coroutines of  *)
(* ex_server::serve (the accept loop, one loop per connection, one task    *)
(* per request).                                                           *)
(*                                                                         *)
(* Transport threads run BeginProcess...  and EndProcessRequest; the       *)
(* coroutines run on the io_context.  A conn_manager_entry is <<c, k>>:    *)
(* the k-th connection of client c.  It names its message queue and the    *)
(* server connection that accepts from that queue as well.                 *)
(***************************************************************************)
EXTENDS Integers, Sequences

CONSTANTS
    Clients,      \* client ids; an id can connect again after a disconnect
    MaxConnects,  \* bound: how often each client id connects
    Requests,     \* request objects
    Replies,      \* reply messages middleware::execute may produce
    NoItem,       \* a null pointer
    NoWaiter,     \* an unlocked mutex
    ConnQueue,    \* conn_queue_
    Acceptor      \* the accept loop, its event and entry_holder_

ASSUME MaxConnectsAssumption == MaxConnects \in [Clients -> Nat]

VARIABLES
    items_, queue_entries_, mtx_, msgout, event, wpc, pushed, taken,
    conns_,      \* conns_[c]: the entry mapped to the client id, or NoItem
    connects,    \* connects[c]: connections of c so far
    link,        \* link[c]: the transport's view of the client
    rpc,         \* rpc[r]: how far a request is
    sent,        \* history: the connection a request was sent on
    content,     \* content[r]: the reply in the request_context
    answer,      \* answer[r]: what EndProcessRequest returned
    terminated   \* an exception left a noexcept function

queue == <<items_, queue_entries_, mtx_, msgout, event, wpc, pushed, taken>>
requestVars == <<rpc, sent, content, answer>>
vars == <<queue, conns_, connects, link, requestVars, terminated>>

Entries == UNION {{c} \X (1 .. MaxConnects[c]) : c \in Clients}
Waiters == {Acceptor} \cup Entries

\* The objects are different objects, and null is none of them.
ASSUME NamesAssumption ==
    /\ NoItem \notin Entries \cup Requests \cup Replies
    /\ NoWaiter \notin Waiters
    /\ Entries \cap (Requests \cup {ConnQueue, Acceptor}) = {}

Q == INSTANCE ItemQueue WITH
        Queues  <- {ConnQueue} \cup Entries,
        QueueOf <- [w \in Waiters |-> IF w = Acceptor THEN ConnQueue ELSE w],
        Copying <- {Acceptor},
        Items   <- Entries \cup Requests

Init ==
    /\ Q!Init
    /\ conns_ = [c \in Clients |-> NoItem]
    /\ connects = [c \in Clients |-> 0]
    /\ link = [c \in Clients |-> "down"]
    /\ rpc = [r \in Requests |-> "new"]
    /\ sent = [r \in Requests |-> NoItem]
    /\ content = [r \in Requests |-> NoItem]
    /\ answer = [r \in Requests |-> NoItem]
    /\ terminated = FALSE

(***************************************************************************)
(* Transport threads.  The manager's mtx_ is held across the push into a   *)
(* queue, so it is free unless a push is between filling a slot and        *)
(* setting the event; async_pop takes the queue's mutex only.              *)
(***************************************************************************)
MgrUnlocked ==
    \A q \in {ConnQueue} \cup Entries : mtx_[q] # NoWaiter => wpc[mtx_[q]] = "armed"

\* Faulty variant: the new connection is queued but not entered in the map.
insertForgotten(c, e) == conns_

\* conns_.insert leaves an existing key alone.
insert(c, e) == [conns_ EXCEPT ![c] = IF @ = NoItem THEN e ELSE @]

add_conn(c, e) ==
    /\ MgrUnlocked
    /\ conns_' = insert(c, e)
    /\ Q!push(ConnQueue, e)

\* BeginProcessConnect: add_conn, then the context completes at once, which
\* lets the transport treat the client as connected.
BeginProcessConnect(c) ==
    /\ link[c] = "down"
    /\ connects[c] < MaxConnects[c]
    /\ add_conn(c, <<c, connects[c] + 1>>)
    /\ connects' = [connects EXCEPT ![c] = @ + 1]
    /\ link' = [link EXCEPT ![c] = "up"]
    /\ UNCHANGED <<requestVars, terminated>>

\* Faulty variant: the entry stays in the map.
disconnectKeepsEntry(c) ==
    /\ MgrUnlocked
    /\ UNCHANGED conns_
    /\ terminated' = (conns_[c] = NoItem)

\* conns_.at throws out of a noexcept function if the id is not mapped.
disconnect(c) ==
    /\ MgrUnlocked
    /\ conns_' = [conns_ EXCEPT ![c] = NoItem]
    /\ terminated' = (conns_[c] = NoItem)

\* Faulty variant: what is still queued on the connection is thrown away.
BeginProcessDisconnectDrops(c) ==
    /\ link[c] = "up"
    /\ disconnect(c)
    /\ link' = [link EXCEPT ![c] = "down"]
    /\ items_' = [items_ EXCEPT ![<<c, connects[c]>>] = <<>>]
    /\ UNCHANGED <<queue_entries_, mtx_, msgout, event, wpc, pushed, taken, connects, requestVars>>

BeginProcessDisconnect(c) ==
    /\ link[c] = "up"
    /\ disconnect(c)
    /\ link' = [link EXCEPT ![c] = "down"]
    /\ UNCHANGED <<queue, connects, requestVars>>

post_request(c, r) ==
    /\ MgrUnlocked
    /\ IF conns_[c] = NoItem
         THEN terminated' = TRUE /\ UNCHANGED queue
         ELSE Q!push(conns_[c], r) /\ UNCHANGED terminated

BeginProcessRequest(c, r) ==
    /\ link[c] = "up"
    /\ rpc[r] = "new"
    /\ post_request(c, r)
    /\ rpc' = [rpc EXCEPT ![r] = "posted"]
    /\ sent' = [sent EXCEPT ![r] = <<c, connects[c]>>]
    /\ UNCHANGED <<conns_, connects, link, content, answer>>

\* The end of a push or of an async_pop, still under the queue's mutex.
Signal(q) ==
    /\ Q!set(q)
    /\ UNCHANGED <<conns_, connects, link, requestVars, terminated>>

\* EndProcessRequest, called by the transport once its callback was invoked.
EndProcessRequest(r) ==
    /\ rpc[r] = "invoked"
    /\ rpc' = [rpc EXCEPT ![r] = "ended"]
    /\ answer' = [answer EXCEPT ![r] = content[r]]
    /\ UNCHANGED <<queue, conns_, connects, link, sent, content, terminated>>

Transport ==
    \/ \E c \in Clients : BeginProcessConnect(c) \/ BeginProcessDisconnect(c)
    \/ \E c \in Clients, r \in Requests : BeginProcessRequest(c, r)

(***************************************************************************)
(* Coroutines of ex_server::serve.                                         *)
(***************************************************************************)

\* Faulty variant: the listener coroutine ends after its first connection.
AcceptOnce ==
    /\ taken[Acceptor] = {}
    /\ Q!WaiterStep(Acceptor)
    /\ UNCHANGED <<conns_, connects, link, requestVars, terminated>>

\* The listener coroutine: async_accept_conn in a loop; a completed accept
\* spawns handle_conn for the entry in entry_holder_.
AcceptLoop ==
    /\ Q!WaiterStep(Acceptor)
    /\ UNCHANGED <<conns_, connects, link, requestVars, terminated>>

\* handle_conn of an accepted entry: async_accept in a loop; a completed
\* accept moves the request into a handle_request task of its own.
ConnLoop(e) ==
    /\ e \in taken[Acceptor]
    /\ \/ /\ Q!reset(e) \/ Q!async_pop(e)
          /\ UNCHANGED rpc
       \/ /\ Q!take(e)
          /\ rpc' = [r \in Requests |-> IF r = msgout[e] THEN "accepted" ELSE rpc[r]]
    /\ UNCHANGED <<conns_, connects, link, sent, content, answer, terminated>>

\* Faulty variant: the context is completed without the reply in it.
executeForgetsReply(r, a) ==
    /\ rpc[r] = "accepted"
    /\ rpc' = [rpc EXCEPT ![r] = "completing"]
    /\ UNCHANGED <<queue, conns_, connects, link, sent, content, answer, terminated>>

\* handle_request: md_.execute comes back with a reply, whatever its status,
\* and request::complete stores it in the context ...
execute(r, a) ==
    /\ rpc[r] = "accepted"
    /\ content' = [content EXCEPT ![r] = a]
    /\ rpc' = [rpc EXCEPT ![r] = "completing"]
    /\ UNCHANGED <<queue, conns_, connects, link, sent, answer, terminated>>

\* ... and invokes the transport's callback.
complete(r) ==
    /\ rpc[r] = "completing"
    /\ rpc' = [rpc EXCEPT ![r] = "invoked"]
    /\ UNCHANGED <<queue, conns_, connects, link, sent, content, answer, terminated>>

\* A service that throws ends the detached task: nobody completes the request.
throw(r) ==
    /\ rpc[r] = "accepted"
    /\ rpc' = [rpc EXCEPT ![r] = "dropped"]
    /\ UNCHANGED <<queue, conns_, connects, link, sent, content, answer, terminated>>

RequestTask(r) == (\E a \in Replies : execute(r, a)) \/ complete(r) \/ throw(r)

Next ==
    /\ ~terminated
    /\ \/ Transport
       \/ \E q \in {ConnQueue} \cup Entries : Signal(q)
       \/ \E r \in Requests : EndProcessRequest(r) \/ RequestTask(r)
       \/ AcceptLoop
       \/ \E e \in Entries : ConnLoop(e)

Spec == Init /\ [][Next]_vars

\* Threads inside the library run on, the io_context keeps running ready
\* coroutines, services return, and the transport collects finished replies.
\* Clients need not connect, send or disconnect.
Fairness ==
    /\ \A q \in {ConnQueue} \cup Entries : WF_vars(Signal(q))
    /\ WF_vars(AcceptLoop)
    /\ \A e \in Entries : WF_vars(ConnLoop(e))
    /\ \A r \in Requests : WF_vars(RequestTask(r)) /\ WF_vars(EndProcessRequest(r))

FairSpec == Spec /\ Fairness

(***************************************************************************)
(* Properties.                                                             *)
(***************************************************************************)

Phases == {"new", "posted", "accepted", "completing", "invoked", "ended", "dropped"}

TypeOK ==
    /\ Q!TypeOK
    /\ conns_ \in [Clients -> Entries \cup {NoItem}]
    /\ connects \in [Clients -> Nat] /\ \A c \in Clients : connects[c] <= MaxConnects[c]
    /\ link \in [Clients -> {"down", "up"}]
    /\ rpc \in [Requests -> Phases]
    /\ sent \in [Requests -> Entries \cup {NoItem}]
    /\ content \in [Requests -> Replies \cup {NoItem}]
    /\ answer \in [Requests -> Replies \cup {NoItem}]
    /\ terminated \in BOOLEAN

\* conns_.at in disconnect and post_request never throws: a client the
\* transport believes connected is mapped to the entry of its latest
\* connection, and to nothing once it is gone.
NoTerminate ==
    /\ ~terminated
    /\ \A c \in Clients :
          conns_[c] = IF link[c] = "up" THEN <<c, connects[c]>> ELSE NoItem

\* A request is handled by the coroutine of the connection it was sent on,
\* even if that client has disconnected and connected again meanwhile.
OwnConnection ==
    \A e \in Entries : taken[e] \subseteq {r \in Requests : sent[r] = e}

\* The accept loop and the queues are used as ItemQueue prescribes: the server
\* is a behaviour of the queues' specification, so what is proved of that
\* specification holds here.
QueueProtocol == Q!Spec

\* Everything the transport hands in is answered, unless the service threw:
\* requests queued before their connection was accepted, or still queued when
\* it is gone, included.
EventuallyAnswered ==
    \A r \in Requests : rpc[r] = "posted" ~> rpc[r] \in {"ended", "dropped"}

\* Every connection gets its handle_conn loop.
EventuallyAccepted ==
    \A e \in Entries : e \in pushed ~> e \in taken[Acceptor]

\* A request and its reply as the transport sees them.
phase ==
    [r \in Requests |->
        CASE rpc[r] = "new"     -> "idle"
          [] rpc[r] = "invoked" -> "called"
          [] rpc[r] = "ended"   -> "ended"
          [] OTHER              -> "begun"]
reply == [r \in Requests |-> IF rpc[r] = "ended" THEN answer[r] ELSE content[r]]

RR == INSTANCE RequestReply WITH NoReply <- NoItem

\* The v2 message handler keeps the transport's contract: one callback per
\* request, after the reply is in the context, and EndProcessRequest returns
\* that reply.
ImplementsRequestReply == RR!Spec
=============================================================================
