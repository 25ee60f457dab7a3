# fabric-rpc in TLA+

fabric-rpc is a gRPC-style RPC framework on top of Service Fabric's
FabricTransport. The repository holds two libraries that speak one protocol: the
ATL library `fabric_rpc` ("v1": begin/end operations on COM callbacks) and the
C++/WinRT library `fabric_rpc2` ("v2": coroutines on a Boost.Asio io_context),
with a code generator for each. This directory holds TLA+ models of both, the
TLC configurations that check them, and TLAPS proofs about their core.

All paths below are relative to the repository root.

## Inventory

| Component | State | Operations | Called by |
|---|---|---|---|
| v2 `basic_item_queue`, `basic_event` | stored items, waiting entries (event, out pointer), a mutex; a manual-reset event | `push`, `async_pop`, `cancel`; `set`, `reset`, `async_wait` | manager, acceptor, server connection |
| v2 `basic_connection_manager` | map client id -> entry (connection, message queue), queue of new entries, a mutex | `add_conn`, `disconnect`, `post_request`, `async_pop`, `cancel` | transport handlers, acceptor |
| v2 `basic_connection_handler`, `basic_msg_handler` | none | `BeginProcessConnect/Disconnect/Request`, `EndProcessRequest` | transport threads |
| v2 `basic_acceptor`, `basic_server_connection` | one event and one out slot each | `open`, `close`, `async_accept_conn`, `async_accept` | `ex_server` |
| v2 `ex_server` | io_context, middleware | `serve` (accept loop, connection loops, request tasks), `shutdown` | user |
| v2 `request`, `any_context` | reply, `is_completed_` | `complete` | request task, transport |
| v2 `middleware`, `service`, `parse` | list of services | `execute`, routing, header and status conversion | request task |
| v2 `basic_client_connection`, `rpc_client` | transport client, per call an event | `open`, `async_send` | user |
| v1 `FRPCRequestHandler`, `FRPCRouter`, `Operation.hpp` | per request: end operation, begin status, inner context, reference counts | `BeginProcessRequest`, callback `Invoke`, `EndProcessRequest` | transport threads, the user's thread |
| v1 `ClientHelpers.hpp` | none | `ExecClientBegin`, `ExecClientEnd` | generated clients |
| v1 headers, `Status`, `FRPCTransportMessage` | one message | (de)serialization, `CopyMsg` | both ends of v1 |
| tool library | a semaphore; buffers | `waitable_callback::Wait`, `Invoke`; the connection handler; `get_header`, `get_body` | v2, examples, tests |
| example programs | local variables of `main` | create, open, request or sleep, close | the shell |
| generators | none | emit clients, `Route`, `name()`, `execute` | protoc |

What is hard about it:

* Transport threads and io_context coroutines meet in the item queue; everything
  the v2 server does is driven by its wakeups. A lost one silences a connection.
* `cancel` and the shutdown path do not follow the queue's locking.
* The connection manager throws out of `noexcept` functions when the order of
  connects, requests and disconnects is not what it expects.
* Three threads share one v1 request; the callback can overtake the begin call
  and `EndProcessRequest` can overtake both, and the contexts form a reference
  cycle that has to be broken at the right moment.
* The client's callback gives up its event when it is invoked, which can happen
  before `BeginRequest` has returned; timeouts race replies.
* Success, as proto3 writes it, can be the empty blob.
* Every `main` and `basic_client_connection::open` block on a semaphore that a
  transport thread releases, possibly before the begin operation has returned;
  each operation can be refused, fail, time out or succeed.
* The timeout a client gives is cut down at three places, in 32-bit unsigned
  arithmetic against 64-bit durations.

`PROJECT.json` lists each of these hazards at its line with the properties that
would catch it.

## Modules

```
Handoff  <--refines-- ItemQueue <--EXTENDS-- Shutdown
                        ^
            INSTANCE Q  |
                        |
RequestReply <--refines-- Rpc2Server
RequestReply <--refines-- RequestHandler
Wire <--EXTENDS-- Call
Session
```

Each of ItemQueue, Rpc2Server, RequestHandler, Shutdown, Wire, Call and Session
has its theorems in a module of its own, `<module>Proofs`, that extends it.
Rpc2ServerProofs instantiates ItemQueueProofs as Rpc2Server does ItemQueue,
ShutdownProofs extends it, and CallProofs extends WireProofs.

**ItemQueue** models a family of `basic_item_queue`s (`Queues`) and the consumers
that loop on them (`Waiters`, `QueueOf`). `push` and `async_pop` are split where
it matters: the slot is filled under the mutex (`mtx_[q]` then names the consumer
being signalled), and `set` is a second step under the same mutex. A consumer
resets its event, calls `async_pop`, waits, and reads its slot without the lock
(`reset`, `async_pop`, `take`); the acceptor copies the slot
(`basic_acceptor.hpp:47`), a server connection moves it (`Copying`). The class
pops from the back of both vectors, and so does the model: no order is promised.

**Handoff** is what the queue promises: an item is pushed once, then
taken once, by a consumer of its queue.

**Rpc2Server** composes the queues into the v2 server. The connection queue and
one message queue per connection are one instance `Q` of ItemQueue. A
`conn_manager_entry` is `<<client, k>>`, so that a client id that reconnects is
told from its past connections. Actions: the transport's `BeginProcessConnect`,
`BeginProcessDisconnect`, `BeginProcessRequest`, `EndProcessRequest`; the
coroutines `AcceptLoop`, `ConnLoop`, and per request `execute`, `complete` or
`throw`. The manager's mutex is held across a push, hence `MgrUnlocked`. An
exception out of a `noexcept` function sets `terminated`.

**RequestReply** is the contract of an `IFabricTransportMessageHandler` seen by
the transport: one callback, then one `EndProcessRequest` with one reply. Both
servers are shown to implement it.

**RequestHandler** is the v1 handler. `bpc`, `kpc` and `upc` are the program
counters of the begin thread, the proxy callback and the user's operation;
`refs` is the set of holders of the returned context. Assertions of the code set
`aborted`.

**Shutdown** extends ItemQueue with the owner of the acceptor: stopping the
io_context, `close()` with the two unlocked steps of `cancel`, closing the
listener, destruction. Clients connect and leave for as long as the listener
delivers, also after the io_context has stopped. `opc` is where the owner is, and
at the end which assertion ended a debug build, if one did: that of the manager's
destructor (`connLeft`), one of the queue's (`itemLeft`, `entryLeft`), or that of
`close` (`asyncClose`).

**Wire** has the pure part: proto3 headers (a field with its default value is not
written), status conversions of both libraries, body chunks, and routing as the
generated v1 code and the v2 middleware do it. A url is a sequence of name
parts, so that a service name can be a prefix of another.

**Call** is a call from end to end, from either client to either server, with a
transport that replies or times out and invokes the callback on its own thread.
What a server decides is one step here; how it gets there is the subject of
Rpc2Server and RequestHandler.

The two ends' libraries are part of the call (`Pairs`), and each library has its
own conversions (`SerializeReplyHeader`, `serialize_reply_header`, ...).

**Session** is whole programs: the `main` of the v1 server and of a client of
either library. `job` is what a `main` is at, `pc` how far the current operation
is (ready, beginning, waiting, ending), `ctx` the transport's context, `sync` that
it completed before the begin operation returned, `owed` that the callback is
still to be invoked and `bs_` its semaphore. `Begin`, `Wait`
and `End` are what all these programs do; an action per call says what follows.
`note` follows the tool library's connection handler, `stage` a request through
the v1 handler to the example service, and `budget` the timeout it is handed
with, against `spent`, the milliseconds counted so far. `aborted` says that an
assertion of `basic_client_connection::open` failed; the program then ends, or goes
on as a build without assertions does. `Left` is the arithmetic
that stands three times in the code. How the handler's threads interleave is
RequestHandler's subject, so that here each of its steps is one action.

Definitions under a comment "Faulty variant" are plausible mistakes in the code.
Each property is known to be violated when the definition below the variant is
replaced by it; the specifications never use them.

## Assumed of code outside the repository

* The transport reports a connect before the requests of a client and its
  disconnect after them, and does not report a second connect of an id without
  a disconnect between. It calls `EndProcessRequest` once, after the callback, and
  holds a reference on the context until then.
* The transport completes an accepted client request once, with a reply or with
  an error when its timeout expires; a request whose `BeginRequest` failed has no
  callback.
* A transport operation that is refused has no callback. One that is accepted
  completes once and then invokes its callback once; a client's open and request
  have timeouts, so that they complete whatever the server does. It may complete
  before or after the begin operation has returned.
* A connection is open for the client only after the server's connection handler
  has ended the report of it; the transport hands a request to the server with
  a timeout no longer than the one the client gave.
* A v1 begin operation that fails returns no context and never invokes the
  callback; one that succeeds invokes it once with the context it returns.
* An Asio wait on a set event completes; `co_spawn(..., detached)` drops an
  exception.

## Runs

| Run | Instance | Shows |
|---|---|---|
| `item_queue` | 2 queues, 3 consumers (two share a queue), 3 items | types; `Exclusive`, `OwnQueue`, `NoLostWakeup`, `ItemsOnce`; every item is taken; refines Handoff |
| `rpc2_server` | 1 client, 2 connections, 2 requests, 2 replies, fair | `NoTerminate`, `OwnConnection`, `QueueProtocol` (the server uses the queues as ItemQueue prescribes); connections are accepted, requests answered; refines RequestReply |
| `request_handler` | 2 requests, 2 begin errors, 2 end statuses, fair | `NoAssertionFails`, `ErrorNotMasked`, `NoUseAfterFree`, `EventuallyFreed`; refines RequestReply |
| `call` | v1-v1, v2-v2 and v2-v1 pairs, 2 services per server, 6 urls, 3 bodies, fair | `ResultFaithful`, `ReachesMethod`, `NoAssertionFails`, `EventuallyDone`, also with v1 service names of which one is a prefix of the other |
| `session` | server and one client of either library, a DWORD of 0..3, timeout 3, durations 0, 1, 4, 6, fair | `NoEarlyEnd`, `BudgetKept`, `ConnectedFirst`, `HonestExit`, `Terminates` |
| `close` | 3 connections, `close()` | `CancelDetaches`, `NoEntryLeft` |
| `empty_status_message` | as `request_handler`, statuses without message | **violated**: an assertion fails |
| `cancel_race` | `close()` while clients connect | **violated**: `cancel` pops an entry that is gone |
| `serve_shutdown` | `ex_server`: no `close()` | **violated**: an entry is left to the destructor |
| `stored_connection` | as `close` | **violated**: a stored connection is left to the destructor |
| `mixed_libraries` | v1 client, v2 server | **violated**: success is reported as UNKNOWN |
| `prefix_route` | two v2 services, one name a prefix of the other | **violated**: the longer name is unreachable |

The bounds. Three items and two consumers on a queue let a queue hold several
items, several waiters, and both a push and a pop between a consumer's reset and
its wait. Two connections of one client are what it takes for a request of a gone
connection to meet its successor, and two requests what it takes for both
connections to be busy; entries of different client ids do not share a key of the
map or a queue, so one client is enough for TLC (the theorems of Rpc2ServerProofs
hold for any number). Requests of v1 share nothing, so two show interleaving without
interference; the calls of Call and the clients of Session share nothing but the
server's being there, so one is enough for TLC (the theorems of SessionProofs
and CallProofs hold for any number). A DWORD of two bits has durations below, at and beyond its
range and beyond the timeout. The bodies are an empty one,
one that can be cut, and one that does not parse; the urls reach each service,
miss in each way, and include the empty one.

With a second client the run still passes, in 432135 states and over four
minutes. No symmetry is used: liveness is checked in most runs. Deadlock checking
is off where clients may simply stop calling (the bounded instances then come to
rest); Call has an explicit `Finished` step instead.

### Fairness

Weak fairness is assumed of: threads that are inside the library (they hold a
lock or a call stack and the OS runs them); ready coroutines (`io_context::run`
executes what is ready); services, which return or throw; the transport's
obligation to call `EndProcessRequest` after the callback, to complete accepted
client requests, and to invoke their callbacks. Nothing is assumed of
clients of a server, and in Call and Session nothing of the server's handlers:
`EventuallyDone` and `Terminates` rest on the transport's completing, with a
timeout if need be, what it accepted. Session adds that a `main` that can go on
does.

## Proofs

`ItemQueueProofs.tla` proves for any sets of queues, consumers and items:

* `TypeCorrect`, `ExclusiveCorrect`, `OwnQueueCorrect`, `NoLostWakeupCorrect`, from the inductive
  invariant `WInv == TypeOK /\ Exclusive /\ OwnQueue /\ NoLostWakeup`. None of the
  parts is inductive alone: that `take` yields an item at all (TypeOK) needs that
  a set event implies a filled slot (NoLostWakeup); that `push` may fill the slot
  of the last entry needs that listed consumers wait with an empty slot and an
  unset event, and that no consumer is listed twice or on a queue that is not
  its own (OwnQueue).
* `ItemsOnceCorrect`, from `IInv == WInv /\ ItemsOnce`: an item that was pushed is
  stored once, or in one slot, or taken by one consumer, and in no two places.
* `Refinement`: `Spec` implements `Handoff` under the identity on `pushed` and
  `taken`.

`RequestHandlerProofs.tla` proves for any set of requests and statuses
`HandlerTypeCorrect`, `HandlerAssertions`, `HandlerErrors`, `HandlerMemory` and
`HandlerRefinement` under the assumption `EndStatuses \cap NoMessage = {}`, which
`empty_status_message` shows to be needed. The inductive invariant `HInv` ties
the program counters together: which combinations of begin thread, callback and
user operation exist (`BeginInv`, `CallbackInv`) and which references each of
them implies (`RefsInv`).

`SessionProofs.tla` proves for any set of clients, any timeout, any durations and
any width of a DWORD `SessionTypes`, `SessionNoEarlyEnd`, `SessionBudget`,
`SessionConnected` and `SessionHonest`. `LeftBound` is the arithmetic: what is left
after `ms` milliseconds plus `ms` is no more than what there was, because the
duration is compared in 64 bits before it is cut. The inductive invariant `SInv`
has a part per process (`OperationOf`: a pending context is one whose callback is
owed, a released semaphore is one whose context is complete), a part per client
(`RequestOf`: before a client has asked nothing was sent or spent; it asks only
on a connection that was acknowledged; a request that ended well was answered)
and one for the listener. `HonestExit` is not inductive without the first, which
is what makes the wait before `End` mean anything. `OthersKeep` says once that a
step of one program leaves the others' parts alone, so that each action is
looked at for the program that takes it only.

`Rpc2ServerProofs.tla` proves, for any clients, numbers of connections, requests
and replies, what the run `rpc2_server` checks but for the eventual: `NoTerminateCorrect`, `QueueProtocolCorrect`, `ServerQueuesCorrect`,
`ServerTypeCorrect`, `OwnConnectionCorrect` and `ServerRefinement`. It goes in
three layers. `LinkInv` (the manager's map holds the current connection of every
client that is up, and nothing else) is inductive by itself and is why no handler
throws. With it, every push and wait of the server is one ItemQueue allows, on a
queue and with an item of the right kind, so each step is a step of the queues or
leaves them alone (`QueueProtocolCorrect`), and the theorems of ItemQueueProofs
hold of the server's queues (`ServerQueuesCorrect`): no wakeup of the accept loop
or of a connection is lost. Last, a step of the queues is seen as the `Put` or
`Get` of Handoff it implements, and `ServerInv` adds what the contents are:
what is pending at or taken by a connection was sent on it (`OwnContents`), what
is pending is untouched (`PendingPosted`), and the reply lives in the context
until `EndProcessRequest` hands it over (`ReplyInv`). `OwnConnection` needs
`OwnContents`, which needs that an item is pending in one place only; the
refinement of RequestReply needs `PendingPosted`, since a request taken twice would
be answered twice.

`ShutdownProofs.tla` proves two things of an accept loop that was stopped, for any
consumers and connections and whenever clients connect. `CancelDetachesCorrect`:
once `cancel` has returned, nothing is written into the acceptor any more, which a
late client would do through the entry that `cancel` is there to remove.
`NoEntryLeftCorrect`: with `close()`, which `serve_shutdown` shows to be needed, no
entry is left to the queue's destructor. `CloseInv` says why. Until `cancel` returns,
the invariant of the queue holds, and the acceptor, the only consumer of the
connection queue, is listed at most once (`OnlyAcceptorListed`), so that `pop_back`
leaves the list empty; from then on it stays empty, because the loop has stopped
and `push` lists nobody (`AfterCancel`). Nothing is said of what follows a
`pop_back` on an empty vector, the end `cancel_race` shows. The other assertions at
the end are not theorems: `stored_connection` refutes the one on `items_`, and the
one on `conns_` depends on whether the transport reports every disconnect.

`WireProofs.tla` proves of the conversions that a header, a status and a body are
read as they were written (`RequestHeader`, `ReplyHeader`, `StatusKept`,
`BodyJoined`), that a url names one path and one method (`UrlInjective`), and of the
routers that the url of a method leads to that method: `RouteV1Reaches` for any
services, `RouteV2Reaches` under `NamesTellApart`.

`CallProofs.tla` proves for any calls, services, urls, bodies and statuses
`NoAssertionFailsCorrect`, `CallTypeCorrect`, `ResultFaithfulCorrect` and
`ReachesMethodCorrect`. The inductive invariant `CallInv` speaks of one call: the
event is the callback's until the operation has completed (`Unsent`), the reply is
the serialized decision cut in some chunks (`Answered`), and what the caller has
is that reply, parsed, or the transport's error (`Ended`). How each library words
success (`Decided`) has to be part of it: a v1 server's "OK" is what keeps its header
from being empty, and a v1 client takes an empty header for an error. `OneCall`
says once that a step of one call leaves the others alone. `ServerDecides` reduces
both dispatchers to the routing theorems.

What the theorems assume:

| Assumption | Of | Why |
|---|---|---|
| `NamesAssumption` | Rpc2Server | the entries, the requests and the two queues of a server are different objects, none of them null |
| `AcceptorAssumption` | Shutdown | one accept loop waits on the connection queue |
| `EndStatuses \cap NoMessage = {}` | `RequestHandlerProofs` | see `empty_status_message` |
| `CallsClose` | `NoEntryLeftCorrect` | see `serve_shutdown` |
| `ServiceAssumption` | Call | services are registered in a list and have a name |
| `StatusesInRange` | `CallTypeCorrect`, `ResultFaithfulCorrect` | methods fail with codes of the protocol; `StatusCode.hpp:20` keeps 50 for clients |
| `<<"v1", "v2">> \notin Pairs` | `ResultFaithfulCorrect` | see `mixed_libraries` |
| `NamesTellApart(Services["v2"])` | `ReachesMethodCorrect`, and `RouteV2Reaches` of its services | no name is the beginning of another one, see `prefix_route`; and each service is named as its path, which of what generator2 emits only `helloworld.FabricHello` is |

TLC evaluates the assumptions of a module on each of its runs, and MCCall assumes
the hypotheses of Call's theorems of the instance that the run `call` explores.

Only model-checked: what is eventual (`EveryItemTaken`, `EventuallyAnswered`,
`EventuallyAccepted`, `EventuallyFreed`, `EventuallyDone`, `Terminates`), since
fairness is out of the prover's reach, and that the variants and the findings'
properties are violated. Every safety property of every passing run is proved.

## What the violated properties mean

They are recorded under "findings" in `PROJECT.json`, each with the line of the
repository that says otherwise: an assertion stricter than the protocol
(`FRPCRequestHandler.cpp:252`), the unlocked `cancel` (`basic_item_queue.hpp:64`),
`serve` leaving without `close()` (`ex_server.cpp:67`), a connection that left before
it was accepted (`basic_connection_manager.hpp:68`), the v1 client's reading of an
empty header (`ClientHelpers.hpp:91`) and prefix routing (`middleware.hpp:58`).

The shortest behaviour of `stored_connection` has a client come and go before the
loop's first accept. Another one needs no such hurry: one connection is handed to
the waiting loop, a second is stored behind it, the io_context is stopped before the
loop is back, and both clients leave.

Two assertions of `basic_client_connection::open` are in the model. The one on
`IsCompleted` never fails, which `NoEarlyEnd` says. The one on
`CompletedSynchronously` (`basic_client_connection.hpp:155`, under the comment that
it might not be true in general) fails when the open completes after `BeginOpen` has
returned. Session has such behaviours; whether the transport does depends on code
outside the repository, so no property says that `aborted` stays false.

A neighbour of prefix routing: generator2 emits the name `helloworld.FabricHello`
for whatever service it is given (`code_generator.hpp:189`). `GeneratedService` in
Wire models that, and an instance with a second generated service violates
`ReachesMethod` in the same way, so the runs register one generated service only.

## Not modelled

* `endpoint`, which formats an address; the printing done by the generators; the
  tests; `server2.cpp`, which only calls `ex_server::serve`.
* A second `open` of one `basic_client_connection` after a failed one, which its
  `assert(!client_)` forbids and nobody does; `get_Callback` of the v1 contexts, which
  only a test calls (`async_test.cpp:113`, relying on no reference being added).
* The executor that a client connection refers to: `client2.cpp:22` and
  `listener_test.cpp:177` give it a temporary, which is gone when a call starts.
* What the exit code of `client2` means: it reports success once the connection is
  open, whatever the call returned, so `HonestExit` speaks of v1 clients only.
* Malformed headers in Call: both ends are one of the two libraries. The v1
  handler's rejection of them is in RequestHandler (`HeaderFails`).
* Order among requests of a connection: the queue is last-in first-out and
  nothing promises an order. An item can be overtaken as long as others keep
  coming; instances with finitely many items cannot show that.
* The coroutine of a connection after its disconnect: it waits for ever, and the
  model has it wait; there is no promise that it is released.
* Memory exhaustion; failures of `CreateEvent`, of the acceptor's `open` and of
  serialization.

## Plan

Done: every module above, and the proof of every safety property and refinement
the passing runs check.

Next, in this order:

1. The error codes of the acceptor's `open` and `close`, and `close` under a running
   io_context.
2. `NoEarlyEnd` and `HonestExit` composed with the server: Session's view of a
   request as an instance of RequestHandler's.
