------------------------------ MODULE Shutdown ------------------------------
(***************************************************************************)
(* How a server's connection queue ends: the owner of the basic_acceptor   *)
(* stops the io_context, may call basic_acceptor::close, and destroys the  *)
(* connection manager, while transport threads still report connections    *)
(* and disconnections until the listener is closed.                        *)
(*                                                                         *)
(* basic_item_queue::cancel does not take mtx_: it compares the last entry *)
(* and removes the last entry in two steps, whoever else is in the queue.  *)
(* The destructors assert that nothing is left; opc names the assertion    *)
(* that ends the program, if one does.                                     *)
(***************************************************************************)
EXTENDS ItemQueue

CONSTANTS
    Acceptor,     \* the accept loop
    CallsClose    \* the owner calls acceptor.close() before destroying it
                  \* (acceptor_test); ex_server::serve does not

\* The accept loop is the only consumer of the connection queue.
ASSUME AcceptorAssumption ==
    /\ Acceptor \in Waiters
    /\ \A w \in Waiters : QueueOf[w] = QueueOf[Acceptor] => w = Acceptor
ASSUME ModeAssumption == CallsClose \in BOOLEAN

VARIABLES
    opc,     \* where the owner is
    conns_   \* keys of the manager's map; a connection is its own key here

shutdownVars == <<vars, opc, conns_>>

ConnQueue == QueueOf[Acceptor]

ShutdownInit ==
    /\ Init
    /\ opc = "running"
    /\ conns_ = {}

\* Handlers run until EndClose, or until the acceptor goes away with its
\* listener, also after the io_context has stopped.
ListenerOpen == opc \in {"running", "stopped", "matched", "cancelled"}

\* BeginProcessConnect -> add_conn.
Connect(x) ==
    /\ ListenerOpen
    /\ push(ConnQueue, x)
    /\ conns_' = conns_ \cup {x}
    /\ UNCHANGED opc

\* BeginProcessDisconnect -> disconnect.
Disconnect(x) ==
    /\ ListenerOpen
    /\ x \in conns_
    /\ conns_' = conns_ \ {x}
    /\ UNCHANGED <<vars, opc>>

SetEvent ==
    /\ set(ConnQueue)
    /\ UNCHANGED <<opc, conns_>>

\* The accept loop runs while the io_context does.
AcceptLoop ==
    /\ opc = "running"
    /\ WaiterStep(Acceptor)
    /\ UNCHANGED <<opc, conns_>>

\* ioc.stop() lets the current handler finish, which takes the loop from a
\* completion to its next wait; then run() returns.
Stop ==
    /\ opc = "running"
    /\ \/ wpc[Acceptor] = "waiting"
       \/ wpc[Acceptor] = "idle" /\ taken[Acceptor] = {}
    /\ opc' = "stopped"
    /\ UNCHANGED <<vars, conns_>>

\* Faulty variant: close() does not call cancel.
CloseWithoutCancel ==
    /\ CallsClose
    /\ opc = "stopped"
    /\ opc' = "cancelled"
    /\ UNCHANGED <<vars, conns_>>

\* close() -> cancel: the last entry is read and compared.
CancelCompare ==
    /\ CallsClose
    /\ opc = "stopped"
    /\ opc' = IF queue_entries_[ConnQueue] # <<>> /\ Back(queue_entries_[ConnQueue]) = Acceptor
                THEN "matched" ELSE "cancelled"
    /\ UNCHANGED <<vars, conns_>>

\* Faulty variant: the entry is compared and left in the list.
CancelForgets ==
    /\ opc = "matched"
    /\ opc' = "cancelled"
    /\ UNCHANGED <<vars, conns_>>

\* close() -> cancel: pop_back, undefined on an empty vector.
CancelRemove ==
    /\ opc = "matched"
    /\ IF queue_entries_[ConnQueue] # <<>>
         THEN /\ queue_entries_' = [queue_entries_ EXCEPT ![ConnQueue] = PopBack(@)]
              /\ opc' = "cancelled"
         ELSE /\ opc' = "undefined"
              /\ UNCHANGED queue_entries_
    /\ UNCHANGED <<items_, mtx_, msgout, event, wpc, pushed, taken, conns_>>

\* close() -> BeginClose ... EndClose: no handler runs after that.  close
\* asserts that the transport completed the operation synchronously.
CloseListener ==
    /\ opc = "cancelled"
    /\ mtx_[ConnQueue] = NoWaiter
    /\ opc' \in {"closed", "asyncClose"}
    /\ UNCHANGED <<vars, conns_>>

\* What the owner did last; close() also returns when BeginClose is refused.
ReadyToDestroy == IF CallsClose THEN {"cancelled", "closed"} ELSE {"stopped"}

\* The first assertion to fail in the destructors of the manager and then of
\* its queue.
DestructorOutcome ==
    IF conns_ # {} THEN "connLeft"
    ELSE IF items_[ConnQueue] # <<>> THEN "itemLeft"
    ELSE IF queue_entries_[ConnQueue] # <<>> THEN "entryLeft"
    ELSE "destroyed"

\* The last reference on the manager goes away.
Destroy ==
    /\ opc \in ReadyToDestroy
    /\ mtx_[ConnQueue] = NoWaiter
    /\ opc' = DestructorOutcome
    /\ UNCHANGED <<vars, conns_>>

ShutdownNext ==
    \/ \E x \in Items : Connect(x) \/ Disconnect(x)
    \/ SetEvent \/ AcceptLoop
    \/ Stop \/ CancelCompare \/ CancelRemove \/ CloseListener \/ Destroy

ShutdownSpec == ShutdownInit /\ [][ShutdownNext]_shutdownVars

(***************************************************************************)
(* Properties.                                                             *)
(***************************************************************************)

\* "same event then removes it": what cancel removes is the entry it compared.
CancelRemovesOwnEntry ==
    opc = "matched" =>
        queue_entries_[ConnQueue] # <<>> /\ Back(queue_entries_[ConnQueue]) = Acceptor

\* ~basic_item_queue: assert(items_.empty()).  disconnect takes a connection
\* out of conns_ and not out of the queue, and nothing drains the queue.
NoItemLeft == opc # "itemLeft"

\* ~basic_item_queue: assert(queue_entries_.empty()).  Holds of an owner that
\* calls close(): what cancel does not pop off an empty vector, it removes.
NoEntryLeft == opc # "entryLeft"

CancelReturned == opc \in {"cancelled", "closed"}

\* The accept loop's entry points into the acceptor (entry_holder_), and the
\* manager that holds it is shared with the listener's handlers.  Once cancel
\* has returned, no connection is written there any more, however late a
\* client connects.
CancelDetaches ==
    [][CancelReturned => msgout'[Acceptor] = msgout[Acceptor]]_shutdownVars
=============================================================================
