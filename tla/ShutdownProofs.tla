--------------------------- MODULE ShutdownProofs ---------------------------
(***************************************************************************)
(* Proofs about Shutdown for any consumers and connections, whenever       *)
(* clients connect: what close() does for an accept loop that is stopped.  *)
(***************************************************************************)
EXTENDS Shutdown, ItemQueueProofs

\* Until cancel returns, the queue is one that ItemQueue describes.
BeforeCancel ==
    opc \in {"running", "stopped", "matched"} => WInv

\* Afterwards nobody waits on the connection queue, and nobody will: the loop
\* has stopped.
AfterCancel ==
    CancelReturned => queue_entries_[ConnQueue] = <<>>

CloseInv ==
    /\ CallsClose => opc # "entryLeft"
    /\ BeforeCancel
    /\ AfterCancel

LEMMA ConnQueueIsQueue == ConnQueue \in Queues
BY QueueOfAssumption, AcceptorAssumption DEF ConnQueue

\* Whoever is listed on the connection queue is the acceptor, once.
LEMMA OnlyAcceptorListed ==
    ASSUME WInv, queue_entries_[ConnQueue] # <<>>
    PROVE  /\ Back(queue_entries_[ConnQueue]) = Acceptor
           /\ PopBack(queue_entries_[ConnQueue]) = <<>>
           /\ wpc[Acceptor] = "waiting" /\ items_[ConnQueue] = <<>>
<1> DEFINE s == queue_entries_[ConnQueue]
           n == Len(s)
<1>1. s \in Seq(Waiters) /\ s # <<>>
  BY ConnQueueIsQueue DEF WInv, TypeOK
<1>2. n \in Nat \ {0} /\ PopBack(s) \in Seq(Waiters) /\ Len(PopBack(s)) = n - 1
  BY <1>1, PopBackProperties
<1>3. \A i \in 1 .. n : s[i] = Acceptor
  <2> SUFFICES ASSUME NEW i \in 1 .. n PROVE s[i] = Acceptor
    OBVIOUS
  <2>1. s[i] \in Waiters
    BY <1>1, ElementOfSeq
  <2>2. QueueOf[s[i]] = ConnQueue
    BY ConnQueueIsQueue DEF WInv, OwnQueue, ListsOwn
  <2> QED BY <2>1, <2>2, AcceptorAssumption DEF ConnQueue
<1>4. \A i, j \in 1 .. n : s[i] = s[j] => i = j
  BY ConnQueueIsQueue DEF WInv, OwnQueue, ListsOwn
<1>5. n = 1
  <2> HIDE DEF s, n
  <2> QED BY <1>2, <1>3, <1>4
<1>6. Back(s) = Acceptor
  BY <1>3, <1>5 DEF Back
<1>7. PopBack(s) = <<>>
  BY <1>2, <1>5, EmptySeq
<1>8. Listed(Acceptor)
  BY <1>3, <1>5, ConnQueueIsQueue DEF Listed
<1>9. wpc[Acceptor] = "waiting"
  BY <1>8, AcceptorAssumption DEF WInv, TypeOK, NoLostWakeup
<1>10. items_[ConnQueue] = <<>>
  BY <1>1, ConnQueueIsQueue DEF WInv, Exclusive
<1> QED BY <1>6, <1>7, <1>9, <1>10

LEMMA CloseInvInit == ShutdownInit => CloseInv
BY WInvInit DEF ShutdownInit, CloseInv, BeforeCancel, AfterCancel, CancelReturned

\* A step of the queue alone.
LEMMA QueueStep ==
    ASSUME WInv, [Next]_vars
    PROVE  WInv'
BY WInvStep

\* A connection that is reported while nobody is listed is stored.
LEMMA ConnectAfterCancel ==
    ASSUME CloseInv, CancelReturned, NEW x \in Items, Connect(x)
    PROVE  /\ queue_entries_'[ConnQueue] = <<>>
           /\ msgout' = msgout
<1>1. queue_entries_[ConnQueue] = <<>>
  BY DEF CloseInv, AfterCancel
<1>2. PushStore(ConnQueue, x)
  BY <1>1 DEF Connect, push, PushHandOver
<1> QED BY <1>1, <1>2 DEF PushStore

LEMMA CloseInvStep ==
    ASSUME CloseInv, [ShutdownNext]_shutdownVars
    PROVE  CloseInv'
<1> USE DEF CloseInv, BeforeCancel, AfterCancel, CancelReturned
<1>1. ASSUME NEW x \in Items, Connect(x) PROVE CloseInv'
  <2>1. opc' = opc /\ ListenerOpen /\ push(ConnQueue, x)
    BY <1>1 DEF Connect
  <2>2. WInv => WInv'
    BY <2>1, QueueStep, ConnQueueIsQueue DEF Next
  <2> QED BY <1>1, <2>1, <2>2, ConnectAfterCancel DEF ListenerOpen
<1>2. ASSUME SetEvent PROVE CloseInv'
  <2>1. opc' = opc /\ set(ConnQueue)
    BY <1>2 DEF SetEvent
  <2>2. WInv => WInv'
    BY <2>1, QueueStep, ConnQueueIsQueue DEF Next
  <2> QED BY <2>1, <2>2 DEF set
<1>3. ASSUME AcceptLoop PROVE CloseInv'
  <2>1. opc = "running" /\ opc' = "running" /\ WInv'
    BY <1>3, QueueStep, AcceptorAssumption DEF AcceptLoop, Next
  <2> QED BY <2>1
<1>4. ASSUME UNCHANGED vars PROVE (WInv => WInv') /\ queue_entries_' = queue_entries_
  BY <1>4, QueueStep DEF vars
<1>5. ASSUME UNCHANGED vars, opc' = opc PROVE CloseInv'
  BY <1>4, <1>5
<1>6. ASSUME Stop PROVE CloseInv'
  BY <1>4, <1>6 DEF Stop
<1>7. ASSUME CancelCompare PROVE CloseInv'
  <2>1. WInv /\ WInv' /\ queue_entries_' = queue_entries_
    BY <1>4, <1>7 DEF CancelCompare
  <2>2. CASE queue_entries_[ConnQueue] # <<>>
    <3>1. opc' = "matched"
      BY <1>7, <2>1, <2>2, OnlyAcceptorListed DEF CancelCompare
    <3> QED BY <2>1, <3>1
  <2>3. CASE queue_entries_[ConnQueue] = <<>>
    BY <1>7, <2>1, <2>3 DEF CancelCompare
  <2> QED BY <2>2, <2>3
<1>8. ASSUME CancelRemove PROVE CloseInv'
  <2>1. opc = "matched" /\ WInv
    BY <1>8 DEF CancelRemove
  <2>2. CASE queue_entries_[ConnQueue] # <<>>
    <3>1. PopBack(queue_entries_[ConnQueue]) = <<>>
      BY <2>1, <2>2, OnlyAcceptorListed
    <3>2. opc' = "cancelled" /\ queue_entries_'[ConnQueue] = <<>>
      BY <1>8, <2>1, <2>2, <3>1, ConnQueueIsQueue DEF CancelRemove, WInv, TypeOK
    <3> QED BY <3>2
  <2>3. CASE queue_entries_[ConnQueue] = <<>>
    BY <1>8, <2>3 DEF CancelRemove
  <2> QED BY <2>2, <2>3
<1>9. ASSUME CloseListener PROVE CloseInv'
  BY <1>4, <1>9 DEF CloseListener
<1>10. ASSUME Destroy PROVE CloseInv'
  <2>1. opc' \in {"connLeft", "itemLeft", "entryLeft", "destroyed"}
    BY <1>10 DEF Destroy, DestructorOutcome
  <2>2. ASSUME CallsClose PROVE opc' # "entryLeft"
    BY <1>10, <2>2 DEF Destroy, DestructorOutcome, ReadyToDestroy
  <2> QED BY <2>1, <2>2
<1> QED
  BY <1>1, <1>2, <1>3, <1>5, <1>6, <1>7, <1>8, <1>9, <1>10 DEF ShutdownNext, Disconnect, shutdownVars

LEMMA CloseInvariant == ShutdownSpec => []CloseInv
BY CloseInvInit, CloseInvStep, PTL DEF ShutdownSpec

\* An owner that calls close() leaves no entry to the queue's destructor,
\* whenever clients connect and leave, unless the unlocked cancel has popped
\* off an empty vector, of which nothing is said.
THEOREM NoEntryLeftCorrect ==
    ASSUME CallsClose
    PROVE  ShutdownSpec => []NoEntryLeft
<1>1. CloseInv => NoEntryLeft
  BY DEF CloseInv, NoEntryLeft
<1> QED BY <1>1, CloseInvariant, PTL

\* Once cancel has returned no step writes into the acceptor's slot.
THEOREM CancelDetachesCorrect == ShutdownSpec => CancelDetaches
<1>1. ASSUME CloseInv, [ShutdownNext]_shutdownVars, CancelReturned
      PROVE  msgout'[Acceptor] = msgout[Acceptor]
  <2>1. ASSUME NEW x \in Items, Connect(x) PROVE msgout' = msgout
    BY <1>1, <2>1, ConnectAfterCancel
  <2>2. ASSUME SetEvent PROVE msgout' = msgout
    BY <2>2 DEF SetEvent, set
  <2>3. ASSUME UNCHANGED vars PROVE msgout' = msgout
    BY <2>3 DEF vars
  <2> QED
    BY <1>1, <2>1, <2>2, <2>3 DEF CancelReturned, ShutdownNext, Disconnect, AcceptLoop, Stop, CancelCompare,
       CancelRemove, CloseListener, Destroy, shutdownVars
<1>2. CloseInv /\ [ShutdownNext]_shutdownVars
        => [CancelReturned => msgout'[Acceptor] = msgout[Acceptor]]_shutdownVars
  BY <1>1
<1> QED BY <1>2, CloseInvariant, PTL DEF ShutdownSpec, CancelDetaches
=============================================================================
