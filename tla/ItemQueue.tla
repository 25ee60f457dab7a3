----------------------------- MODULE ItemQueue -----------------------------
(***************************************************************************)
(* basic_item_queue (src/src/fabric_rpc2/include/fabricrpc/                *)
(* basic_item_queue.hpp) with the events its consumers wait on             *)
(* (basic_event.hpp) and the consumers' accept protocol                    *)
(* (basic_server_connection.hpp, basic_acceptor.hpp): reset the event,     *)
(* async_pop into a slot, wait for the event, move the item out.           *)
(*                                                                         *)
(* The module models a family of queues at once, because the server keeps  *)
(* one for new connections and one per connection.  A waiter is the owner  *)
(* of one event and one slot and serves one queue for life.                *)
(*                                                                         *)
(* push and async_pop run under the queue's mutex, but a woken consumer    *)
(* reads its slot without it.  So filling the slot and setting the event   *)
(* are two steps, with the mutex held in between (mtx_[q] names the waiter *)
(* whose event is about to be set).                                        *)
(***************************************************************************)
EXTENDS Integers, Sequences

CONSTANTS
    Queues,      \* the basic_item_queue objects
    Waiters,     \* owners of an event and a slot
    QueueOf,     \* the queue each waiter pops from
    Copying,     \* waiters whose completion copies the slot (basic_acceptor);
                 \* the others move it out (basic_server_connection)
    Items,       \* what can be pushed; each object is pushed once
    NoItem,      \* a null slot
    NoWaiter     \* an unlocked mutex

ASSUME QueueOfAssumption == QueueOf \in [Waiters -> Queues]
ASSUME NoItemAssumption == NoItem \notin Items
ASSUME NoWaiterAssumption == NoWaiter \notin Waiters

VARIABLES
    items_,          \* items_[q]: items nobody waited for; a vector used from the back
    queue_entries_,  \* queue_entries_[q]: waiting events; a vector used from the back
    mtx_,            \* mtx_[q]: waiter being signalled under the lock, or NoWaiter
    msgout,          \* msgout[w]: the slot (pl_ or entry_holder_)
    event,           \* event[w]: the manual-reset event is set
    wpc,             \* wpc[w]: where the consumer is in its accept loop
    pushed,          \* history: every item ever pushed
    taken            \* history: taken[w], items whose handler received them

queueVars == <<items_, queue_entries_, mtx_>>
vars == <<items_, queue_entries_, mtx_, msgout, event, wpc, pushed, taken>>

Back(s) == s[Len(s)]
PopBack(s) == SubSeq(s, 1, Len(s) - 1)

Init ==
    /\ items_ = [q \in Queues |-> <<>>]
    /\ queue_entries_ = [q \in Queues |-> <<>>]
    /\ mtx_ = [q \in Queues |-> NoWaiter]
    /\ msgout = [w \in Waiters |-> NoItem]
    /\ event = [w \in Waiters |-> FALSE]
    /\ wpc = [w \in Waiters |-> "idle"]
    /\ pushed = {}
    /\ taken = [w \in Waiters |-> {}]

(***************************************************************************)
(* The queue's operations.                                                 *)
(***************************************************************************)

\* Faulty variant: the item is stored without looking for a waiter.
PushStoreUnchecked(q, x) ==
    /\ items_' = [items_ EXCEPT ![q] = Append(@, x)]
    /\ UNCHANGED <<queue_entries_, mtx_, msgout>>

\* push: no waiter, so the item goes to the back of items_.
PushStore(q, x) ==
    /\ queue_entries_[q] = <<>>
    /\ items_' = [items_ EXCEPT ![q] = Append(@, x)]
    /\ UNCHANGED <<queue_entries_, mtx_, msgout>>

\* Faulty variant: the waiter that was served stays in the list.
PushHandOverKeepsEntry(q, x) ==
    /\ queue_entries_[q] # <<>>
    /\ msgout' = [msgout EXCEPT ![Back(queue_entries_[q])] = x]
    /\ mtx_' = [mtx_ EXCEPT ![q] = Back(queue_entries_[q])]
    /\ UNCHANGED <<items_, queue_entries_>>

\* push: the last waiter to arrive leaves the list and gets the item.
PushHandOver(q, x) ==
    /\ queue_entries_[q] # <<>>
    /\ LET w == Back(queue_entries_[q])
       IN /\ msgout' = [msgout EXCEPT ![w] = x]
          /\ mtx_' = [mtx_ EXCEPT ![q] = w]
    /\ queue_entries_' = [queue_entries_ EXCEPT ![q] = PopBack(@)]
    /\ UNCHANGED items_

push(q, x) ==
    /\ mtx_[q] = NoWaiter
    /\ x \notin pushed
    /\ pushed' = pushed \cup {x}
    /\ PushStore(q, x) \/ PushHandOver(q, x)
    /\ UNCHANGED <<event, wpc, taken>>

\* async_pop: nothing ready, so the event and the slot join the list.
PopWait(w) ==
    LET q == QueueOf[w] IN
    /\ items_[q] = <<>>
    /\ queue_entries_' = [queue_entries_ EXCEPT ![q] = Append(@, w)]
    /\ wpc' = [wpc EXCEPT ![w] = "waiting"]
    /\ UNCHANGED <<items_, mtx_, msgout>>

\* Faulty variant: the item is copied into the slot but not removed.
PopReadyKeepsItem(w) ==
    LET q == QueueOf[w] IN
    /\ items_[q] # <<>>
    /\ msgout' = [msgout EXCEPT ![w] = Back(items_[q])]
    /\ mtx_' = [mtx_ EXCEPT ![q] = w]
    /\ UNCHANGED <<items_, queue_entries_, wpc>>

\* Faulty variant: the back is handed out and the front is removed.
PopReadyRemovesFront(w) ==
    LET q == QueueOf[w] IN
    /\ items_[q] # <<>>
    /\ msgout' = [msgout EXCEPT ![w] = Back(items_[q])]
    /\ items_' = [items_ EXCEPT ![q] = Tail(@)]
    /\ mtx_' = [mtx_ EXCEPT ![q] = w]
    /\ UNCHANGED <<queue_entries_, wpc>>

\* async_pop: the newest item goes straight into the slot.
PopReady(w) ==
    LET q == QueueOf[w] IN
    /\ items_[q] # <<>>
    /\ msgout' = [msgout EXCEPT ![w] = Back(items_[q])]
    /\ items_' = [items_ EXCEPT ![q] = PopBack(@)]
    /\ mtx_' = [mtx_ EXCEPT ![q] = w]
    /\ UNCHANGED <<queue_entries_, wpc>>

async_pop(w) ==
    /\ wpc[w] = "armed"
    /\ mtx_[QueueOf[w]] = NoWaiter
    /\ PopWait(w) \/ PopReady(w)
    /\ UNCHANGED <<event, pushed, taken>>

\* Faulty variant: the lock is released and the event was never set.
setForgotten(q) ==
    /\ mtx_[q] # NoWaiter
    /\ wpc' = [wpc EXCEPT ![mtx_[q]] = "waiting"]
    /\ mtx_' = [mtx_ EXCEPT ![q] = NoWaiter]
    /\ UNCHANGED <<items_, queue_entries_, msgout, event, pushed, taken>>

\* event->set(), the last statement of push and of async_pop under the lock.
\* A waiter that is still "armed" is the caller of async_pop itself, which
\* now goes on to async_wait.
set(q) ==
    /\ mtx_[q] # NoWaiter
    /\ event' = [event EXCEPT ![mtx_[q]] = TRUE]
    /\ wpc' = [wpc EXCEPT ![mtx_[q]] = "waiting"]
    /\ mtx_' = [mtx_ EXCEPT ![q] = NoWaiter]
    /\ UNCHANGED <<items_, queue_entries_, msgout, pushed, taken>>

(***************************************************************************)
(* The consumer's accept loop.                                             *)
(***************************************************************************)

\* Faulty variant: the manual-reset event of the last wait is still set.
resetForgotten(w) ==
    /\ wpc[w] = "idle"
    /\ msgout' = [msgout EXCEPT ![w] = NoItem]
    /\ wpc' = [wpc EXCEPT ![w] = "armed"]
    /\ UNCHANGED <<items_, queue_entries_, mtx_, event, pushed, taken>>

\* async_accept and async_accept_conn: the event is reset and the slot is
\* null (asserted for pl_, reset for entry_holder_) before async_pop.
reset(w) ==
    /\ wpc[w] = "idle"
    /\ event' = [event EXCEPT ![w] = FALSE]
    /\ msgout' = [msgout EXCEPT ![w] = NoItem]
    /\ wpc' = [wpc EXCEPT ![w] = "armed"]
    /\ UNCHANGED <<items_, queue_entries_, mtx_, pushed, taken>>

\* Faulty variant: the handler runs without waiting for the event.
takeEarly(w) ==
    /\ wpc[w] = "waiting"
    /\ taken' = [taken EXCEPT ![w] = @ \cup {msgout[w]}]
    /\ msgout' = IF w \in Copying THEN msgout ELSE [msgout EXCEPT ![w] = NoItem]
    /\ wpc' = [wpc EXCEPT ![w] = "idle"]
    /\ UNCHANGED <<items_, queue_entries_, mtx_, event, pushed>>

\* The wait completes on the io_context thread: the handler gets the slot.
take(w) ==
    /\ wpc[w] = "waiting"
    /\ event[w]
    /\ taken' = [taken EXCEPT ![w] = @ \cup {msgout[w]}]
    /\ msgout' = IF w \in Copying THEN msgout ELSE [msgout EXCEPT ![w] = NoItem]
    /\ wpc' = [wpc EXCEPT ![w] = "idle"]
    /\ UNCHANGED <<items_, queue_entries_, mtx_, event, pushed>>

WaiterStep(w) == reset(w) \/ async_pop(w) \/ take(w)

Next ==
    \/ \E q \in Queues, x \in Items : push(q, x)
    \/ \E q \in Queues : set(q)
    \/ \E w \in Waiters : WaiterStep(w)

Spec == Init /\ [][Next]_vars

\* A thread that holds the mutex goes on to set the event, and a consumer
\* runs its accept loop for ever on a running io_context.  Nobody has to push.
Fairness ==
    /\ \A q \in Queues : WF_vars(set(q))
    /\ \A w \in Waiters : WF_vars(WaiterStep(w))

FairSpec == Spec /\ Fairness

(***************************************************************************)
(* Properties.                                                             *)
(***************************************************************************)

TypeOK ==
    /\ items_ \in [Queues -> Seq(Items)]
    /\ queue_entries_ \in [Queues -> Seq(Waiters)]
    /\ mtx_ \in [Queues -> Waiters \cup {NoWaiter}]
    /\ msgout \in [Waiters -> Items \cup {NoItem}]
    /\ event \in [Waiters -> BOOLEAN]
    /\ wpc \in [Waiters -> {"idle", "armed", "waiting"}]
    /\ pushed \subseteq Items
    /\ taken \in [Waiters -> SUBSET Items]

\* An item never sits in the queue while somebody waits for one: this is what
\* the test of the other vector in push and in async_pop is for.
Exclusive ==
    \A q \in Queues : items_[q] = <<>> \/ queue_entries_[q] = <<>>

Listed(w) ==
    \E q \in Queues : \E i \in 1 .. Len(queue_entries_[q]) : queue_entries_[q][i] = w
BeingSet(w) == mtx_[QueueOf[w]] = w
Filled(w) == wpc[w] # "idle" /\ msgout[w] # NoItem

\* No wakeup is lost and none is early.  A consumer that waits is either
\* listed, with its event unset and its slot null, or it is off the list with
\* a filled slot and an event that is set or is being set; nobody else is
\* listed.  Hence the handler's assert(e_copy) and async_accept's assert(!pl_).
NoLostWakeup ==
    \A w \in Waiters :
        /\ wpc[w] = "waiting" =>
            IF Listed(w) THEN ~event[w] /\ msgout[w] = NoItem /\ ~BeingSet(w)
                         ELSE msgout[w] # NoItem /\ (event[w] <=> ~BeingSet(w))
        /\ wpc[w] = "armed" => ~event[w] /\ (BeingSet(w) <=> msgout[w] # NoItem)
        /\ wpc[w] # "waiting" => ~Listed(w)

ListsOwn ==
    \A q \in Queues : \A i \in 1 .. Len(queue_entries_[q]) :
        /\ QueueOf[queue_entries_[q][i]] = q
        /\ \A j \in 1 .. Len(queue_entries_[q]) :
              queue_entries_[q][i] = queue_entries_[q][j] => i = j
LocksOwn ==
    \A q \in Queues :
        mtx_[q] # NoWaiter => QueueOf[mtx_[q]] = q /\ Filled(mtx_[q])

\* A waiter is listed at most once and only in its own queue, and the mutex of
\* a queue is held for one of that queue's consumers, between filling its slot
\* and setting its event.
OwnQueue == ListsOwn /\ LocksOwn

Stored(q) == {items_[q][i] : i \in 1 .. Len(items_[q])}

InQueue(x, q) == x \in Stored(q)
InSlot(x, w) == Filled(w) /\ msgout[w] = x
InHands(x, w) == x \in taken[w]

StoredOnce ==
    \A q \in Queues : \A i, j \in 1 .. Len(items_[q]) :
        items_[q][i] = items_[q][j] => i = j

Conserved ==
    \A x \in Items :
        x \in pushed <=> \/ \E q \in Queues : InQueue(x, q)
                        \/ \E w \in Waiters : InSlot(x, w) \/ InHands(x, w)

OnePlace ==
    \A x \in Items :
        /\ \A p, q \in Queues : InQueue(x, p) /\ InQueue(x, q) => p = q
        /\ \A v, w \in Waiters : InSlot(x, v) /\ InSlot(x, w) => v = w
        /\ \A v, w \in Waiters : InHands(x, v) /\ InHands(x, w) => v = w
        /\ \A q \in Queues, w \in Waiters : InQueue(x, q) => ~InSlot(x, w) /\ ~InHands(x, w)
        /\ \A v, w \in Waiters : InSlot(x, v) => ~InHands(x, w)

\* Every pushed item is in exactly one place: in one position of one queue, in
\* one slot whose consumer has not run yet, or in the hands of one consumer.
\* Nothing is lost and no request or connection is handled twice.
ItemsOnce == StoredOnce /\ Conserved /\ OnePlace

\* Whatever is pushed reaches a consumer: the burst of pushes ends, and the
\* consumers keep accepting.
EveryItemTaken ==
    \A x \in Items : x \in pushed ~> \E w \in Waiters : x \in taken[w]

(***************************************************************************)
(* The queue implements the hand-over specification: an item is pending    *)
(* while it is stored or in the slot of a consumer that has not run yet.   *)
(***************************************************************************)
pending ==
    [q \in Queues |->
        {x \in Items : \/ InQueue(x, q)
                       \/ \E w \in Waiters : QueueOf[w] = q /\ InSlot(x, w)}]

H == INSTANCE Handoff

\* Every behaviour of push, async_pop, set and the consumers is a behaviour of
\* the abstract hand-over: items appear by push only, leave by one consumer's
\* completion only, and never change queue.
ImplementsHandoff == H!Spec
=============================================================================
