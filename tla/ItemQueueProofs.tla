-------------------------- MODULE ItemQueueProofs --------------------------
(***************************************************************************)
(* Proofs about ItemQueue for any sets of queues, consumers and items.     *)
(***************************************************************************)
EXTENDS ItemQueue, SequenceTheorems, TLAPS

\* What pop_back leaves: the same elements without the last position.
LEMMA PopBackProperties ==
    ASSUME NEW S, NEW s \in Seq(S), s # <<>>
    PROVE  /\ Len(s) \in Nat \ {0}
           /\ Back(s) \in S
           /\ PopBack(s) \in Seq(S)
           /\ Len(PopBack(s)) = Len(s) - 1
           /\ \A i \in 1 .. Len(PopBack(s)) : PopBack(s)[i] = s[i]
<1>1. Len(s) \in Nat \ {0} /\ \A i \in 1 .. Len(s) : s[i] \in S
  BY EmptySeq, LenProperties, ElementOfSeq
<1>2. /\ PopBack(s) \in Seq(S)
      /\ Len(PopBack(s)) = Len(s) - 1
      /\ \A i \in 1 .. Len(s) - 1 : PopBack(s)[i] = s[i]
  <2> DEFINE n == Len(s) - 1
  <2>1. n \in Int /\ \A i \in 1 .. n : s[i] \in S
    BY <1>1
  <2>2. /\ SubSeq(s, 1, n) \in Seq(S)
        /\ Len(SubSeq(s, 1, n)) = IF 1 <= n THEN n - 1 + 1 ELSE 0
        /\ \A i \in 1 .. n - 1 + 1 : SubSeq(s, 1, n)[i] = s[1 + i - 1]
    BY <2>1, SubSeqProperties
  <2>3. ASSUME NEW i \in 1 .. n PROVE SubSeq(s, 1, n)[i] = s[i]
    <3>1. i \in 1 .. n - 1 + 1 /\ 1 + i - 1 = i
      BY <2>1
    <3> HIDE DEF n
    <3> QED BY <2>2, <3>1
  <2>4. (IF 1 <= n THEN n - 1 + 1 ELSE 0) = n
    <3>1. n \in Nat
      BY <1>1
    <3> HIDE DEF n
    <3> QED BY <3>1
  <2> QED BY <2>2, <2>3, <2>4 DEF PopBack
<1> QED
  BY <1>1, <1>2 DEF Back

\* The part of the invariant about events, slots and lists.  Typing depends on
\* it: only because a signalled consumer has a filled slot is what it takes an
\* item.
WInv == TypeOK /\ Exclusive /\ OwnQueue /\ NoLostWakeup

LEMMA WInvInit == Init => WInv
BY QueueOfAssumption, NoItemAssumption, NoWaiterAssumption
   DEF Init, WInv, TypeOK, Exclusive, OwnQueue, ListsOwn, LocksOwn, NoLostWakeup, Listed, BeingSet, Filled

LEMMA PushKeepsWInv ==
    ASSUME WInv, NEW q \in Queues, NEW x \in Items, push(q, x)
    PROVE  WInv'
<1> USE QueueOfAssumption, NoItemAssumption, NoWaiterAssumption
<1>1. CASE PushStore(q, x)
  <2>1. TypeOK'
    BY <1>1 DEF WInv, TypeOK, push, PushStore
  <2>2. Exclusive'
    BY <1>1 DEF WInv, TypeOK, Exclusive, push, PushStore
  <2>3. OwnQueue'
    BY <1>1 DEF WInv, OwnQueue, ListsOwn, LocksOwn, Filled, push, PushStore
  <2>4. \A v \in Waiters : (Listed(v)' <=> Listed(v)) /\ (BeingSet(v)' <=> BeingSet(v))
    BY <1>1 DEF Listed, BeingSet, push, PushStore
  <2>5. NoLostWakeup'
    BY <1>1, <2>4 DEF WInv, NoLostWakeup, push, PushStore
  <2> QED BY <2>1, <2>2, <2>3, <2>5 DEF WInv
<1>2. CASE PushHandOver(q, x)
  <2> DEFINE w == Back(queue_entries_[q])
  <2>1. /\ queue_entries_[q] \in Seq(Waiters)
        /\ queue_entries_[q] # <<>>
    BY <1>2 DEF PushHandOver, WInv, TypeOK
  <2> DEFINE n == Len(queue_entries_[q])
  <2>1a. /\ n \in Nat \ {0}
         /\ w \in Waiters
         /\ PopBack(queue_entries_[q]) \in Seq(Waiters)
         /\ Len(PopBack(queue_entries_[q])) = n - 1
         /\ \A i \in 1 .. n - 1 : PopBack(queue_entries_[q])[i] = queue_entries_[q][i]
    BY <2>1, PopBackProperties
  <2>1b. w = queue_entries_[q][n]
    BY DEF Back
  <2>1c. /\ queue_entries_'[q] = PopBack(queue_entries_[q])
         /\ Len(queue_entries_'[q]) = n - 1
         /\ \A i \in 1 .. n - 1 : queue_entries_'[q][i] = queue_entries_[q][i]
         /\ \A p \in Queues : p # q => queue_entries_'[p] = queue_entries_[p]
    BY <1>2, <2>1a DEF PushHandOver, WInv, TypeOK
  <2>2. QueueOf[w] = q /\ Listed(w) /\ wpc[w] = "waiting" /\ ~event[w]
    BY <2>1a, <2>1b DEF WInv, OwnQueue, ListsOwn, LocksOwn, NoLostWakeup, Listed, TypeOK
  <2> HIDE DEF w, n
  <2>3. TypeOK' /\ Exclusive'
    BY <1>2, <2>1, <2>1a DEF WInv, TypeOK, Exclusive, push, PushHandOver, w
  <2>4. \A v \in Waiters : Listed(v)' <=> Listed(v) /\ v # w
    <3> SUFFICES ASSUME NEW v \in Waiters PROVE Listed(v)' <=> Listed(v) /\ v # w
      OBVIOUS
    <3>1. ListsOwn
      BY DEF WInv, OwnQueue
    <3>2. ASSUME v = w PROVE ~Listed(v)'
      <4> SUFFICES ASSUME NEW p \in Queues, NEW i \in 1 .. Len(queue_entries_'[p]),
                          queue_entries_'[p][i] = w
                   PROVE  FALSE
        BY <3>2 DEF Listed
      <4>1. CASE p = q
        <5>1. i \in 1 .. n /\ n \in 1 .. n /\ i # n
          BY <4>1, <2>1a, <2>1c
        <5>2. queue_entries_[q][i] = queue_entries_[q][n]
          BY <4>1, <2>1b, <2>1c
        <5> QED BY <5>1, <5>2, <3>1 DEF ListsOwn, n
      <4>2. CASE p # q
        BY <4>2, <2>1c, <2>2, <3>1 DEF ListsOwn
      <4> QED BY <4>1, <4>2
    <3>3. ASSUME v # w, Listed(v) PROVE Listed(v)'
      <4>1. PICK p \in Queues : \E i \in 1 .. Len(queue_entries_[p]) : queue_entries_[p][i] = v
        BY <3>3 DEF Listed
      <4>2. CASE p = q
        BY <4>1, <4>2, <3>3, <2>1a, <2>1b, <2>1c DEF Listed, n
      <4>3. CASE p # q
        BY <4>1, <4>3, <2>1c DEF Listed
      <4> QED BY <4>2, <4>3
    <3>4. ASSUME Listed(v)' PROVE Listed(v)
      <4>1. PICK p \in Queues : \E i \in 1 .. Len(queue_entries_'[p]) : queue_entries_'[p][i] = v
        BY <3>4 DEF Listed
      <4>2. CASE p = q
        BY <4>1, <4>2, <2>1a, <2>1c DEF Listed, n
      <4>3. CASE p # q
        BY <4>1, <4>3, <2>1c DEF Listed
      <4> QED BY <4>2, <4>3
    <3> QED BY <2>2, <3>2, <3>3, <3>4
  <2>5. \A v \in Waiters : BeingSet(v)' <=> BeingSet(v) \/ v = w
    BY <1>2, <2>1a, <2>2 DEF push, PushHandOver, BeingSet, WInv, TypeOK, w
  <2>6. OwnQueue'
    <3>1. LocksOwn'
      BY <1>2, <2>1a, <2>2 DEF push, PushHandOver, WInv, OwnQueue, LocksOwn, TypeOK, Filled, w
    <3>2. ListsOwn'
      <4>1. ListsOwn
        BY DEF WInv, OwnQueue
      <4> SUFFICES ASSUME NEW p \in Queues, NEW i \in 1 .. Len(queue_entries_'[p])
                   PROVE  /\ QueueOf[queue_entries_'[p][i]] = p
                          /\ \A j \in 1 .. Len(queue_entries_'[p]) :
                               queue_entries_'[p][i] = queue_entries_'[p][j] => i = j
        BY DEF ListsOwn
      <4>2. CASE p # q
        BY <4>1, <4>2, <2>1c DEF ListsOwn
      <4>3. CASE p = q
        <5>1. \A j \in 1 .. Len(queue_entries_'[p]) :
                 j \in 1 .. n /\ queue_entries_'[p][j] = queue_entries_[q][j]
          BY <4>3, <2>1a, <2>1c
        <5> QED BY <4>1, <4>3, <5>1 DEF ListsOwn, n
      <4> QED BY <4>2, <4>3
    <3> QED BY <3>1, <3>2 DEF OwnQueue
  <2>7. NoLostWakeup'
    BY <1>2, <2>1a, <2>2, <2>4, <2>5 DEF push, PushHandOver, WInv, NoLostWakeup, TypeOK, w
  <2> QED BY <2>3, <2>6, <2>7 DEF WInv
<1> QED BY <1>1, <1>2 DEF push

LEMMA AsyncPopKeepsWInv ==
    ASSUME WInv, NEW w \in Waiters, async_pop(w)
    PROVE  WInv'
<1> USE QueueOfAssumption, NoItemAssumption, NoWaiterAssumption
<1> DEFINE q == QueueOf[w]
<1>0. q \in Queues /\ wpc[w] = "armed" /\ ~event[w] /\ ~Listed(w) /\ mtx_[q] = NoWaiter /\ msgout[w] = NoItem
  BY DEF WInv, TypeOK, NoLostWakeup, BeingSet, async_pop
<1>1. CASE PopWait(w)
  <2>1. TypeOK'
    BY <1>1, <1>0 DEF WInv, TypeOK, async_pop, PopWait
  <2>2. Exclusive'
    BY <1>1, <1>0 DEF WInv, TypeOK, Exclusive, async_pop, PopWait
  <2>3. \A v \in Waiters : Listed(v)' <=> Listed(v) \/ v = w
    <3> SUFFICES ASSUME NEW v \in Waiters PROVE Listed(v)' <=> Listed(v) \/ v = w
      OBVIOUS
    <3>0. /\ queue_entries_'[q] = Append(queue_entries_[q], w)
          /\ \A p \in Queues : p # q => queue_entries_'[p] = queue_entries_[p]
          /\ queue_entries_[q] \in Seq(Waiters)
      BY <1>1, <1>0 DEF PopWait, WInv, TypeOK
    <3>1. Listed(v) => Listed(v)'
      BY <3>0, <1>0 DEF Listed
    <3>2. Listed(w)'
      BY <3>0, <1>0 DEF Listed
    <3>3. Listed(v)' => Listed(v) \/ v = w
      BY <3>0, <1>0 DEF Listed
    <3> QED BY <3>1, <3>2, <3>3
  <2>4. OwnQueue'
    <3>0. /\ queue_entries_'[q] = Append(queue_entries_[q], w)
          /\ \A p \in Queues : p # q => queue_entries_'[p] = queue_entries_[p]
          /\ queue_entries_[q] \in Seq(Waiters)
      BY <1>1, <1>0 DEF PopWait, WInv, TypeOK
    <3>1. LocksOwn'
      BY <1>1, <1>0 DEF async_pop, PopWait, WInv, OwnQueue, LocksOwn, TypeOK, Filled
    <3>2. ListsOwn'
      <4>1. ListsOwn /\ \A i \in 1 .. Len(queue_entries_[q]) : queue_entries_[q][i] # w
        BY <1>0 DEF WInv, OwnQueue, ListsOwn, LocksOwn, Listed
      <4> SUFFICES ASSUME NEW p \in Queues, NEW i \in 1 .. Len(queue_entries_'[p])
                   PROVE  /\ QueueOf[queue_entries_'[p][i]] = p
                          /\ \A j \in 1 .. Len(queue_entries_'[p]) :
                               queue_entries_'[p][i] = queue_entries_'[p][j] => i = j
        BY DEF ListsOwn
      <4>2. CASE p # q
        BY <4>1, <4>2, <3>0 DEF ListsOwn
      <4>3. CASE p = q
        <5> DEFINE n == Len(queue_entries_[q])
        <5>1. n \in Nat /\ Len(queue_entries_'[p]) = n + 1
          BY <4>3, <3>0
        <5>2. \A j \in 1 .. n + 1 :
                 queue_entries_'[p][j] = IF j = n + 1 THEN w ELSE queue_entries_[q][j]
          BY <4>3, <3>0
        <5>3. \A j \in 1 .. n :
                 /\ queue_entries_[q][j] # w /\ QueueOf[queue_entries_[q][j]] = q
                 /\ \A k \in 1 .. n : queue_entries_[q][j] = queue_entries_[q][k] => j = k
          BY <1>0, <4>1 DEF ListsOwn
        <5> DEFINE old(j) == queue_entries_[q][j]
                   new(j) == queue_entries_'[p][j]
        <5>4. /\ new(n + 1) = w
              /\ \A j \in 1 .. n : new(j) = old(j)
              /\ \A j \in 1 .. n + 1 : j = n + 1 \/ j \in 1 .. n
          BY <5>1, <5>2
        <5>5. \A j \in 1 .. n :
                 /\ new(j) # w /\ QueueOf[new(j)] = q
                 /\ \A k \in 1 .. n : new(j) = new(k) => j = k
          BY <5>3, <5>4
        <5>6. QueueOf[new(i)] = p
          <6> HIDE DEF n, new
          <6> QED BY <4>3, <5>1, <5>4, <5>5
        <5>7. \A j \in 1 .. n + 1 : new(i) = new(j) => i = j
          <6> HIDE DEF n, new
          <6>1. i \in 1 .. n + 1
            BY <5>1
          <6> QED BY <6>1, <5>4, <5>5
        <5> QED BY <5>1, <5>6, <5>7
      <4> QED BY <4>2, <4>3
    <3> QED BY <3>1, <3>2 DEF OwnQueue
  <2>5. NoLostWakeup'
    BY <1>1, <1>0, <2>3 DEF WInv, NoLostWakeup, BeingSet, TypeOK, async_pop, PopWait
  <2> QED BY <2>1, <2>2, <2>4, <2>5 DEF WInv
<1>2. CASE PopReady(w)
  <2>1. Back(items_[q]) \in Items /\ PopBack(items_[q]) \in Seq(Items)
    BY <1>2, <1>0, PopBackProperties DEF PopReady, WInv, TypeOK
  <2>2. TypeOK'
    BY <1>2, <1>0, <2>1 DEF WInv, TypeOK, async_pop, PopReady
  <2>3. Exclusive'
    BY <1>2, <1>0, <2>1 DEF WInv, TypeOK, Exclusive, async_pop, PopReady
  <2>4. OwnQueue'
    BY <1>2, <1>0, <2>1 DEF WInv, OwnQueue, ListsOwn, LocksOwn, TypeOK, Filled, async_pop, PopReady
  <2>5. NoLostWakeup'
    BY <1>2, <1>0, <2>1 DEF WInv, NoLostWakeup, BeingSet, TypeOK, async_pop, PopReady, Listed
  <2> QED BY <2>2, <2>3, <2>4, <2>5 DEF WInv
<1> QED BY <1>1, <1>2 DEF async_pop

LEMMA SetKeepsWInv ==
    ASSUME WInv, NEW q \in Queues, set(q)
    PROVE  WInv'
<1> USE QueueOfAssumption, NoItemAssumption, NoWaiterAssumption
<1>1. TypeOK' /\ Exclusive'
  BY DEF WInv, TypeOK, Exclusive, set
<1>2. OwnQueue'
  BY DEF WInv, TypeOK, OwnQueue, LocksOwn, ListsOwn, Filled, set
<1>3. NoLostWakeup'
  <2> DEFINE w == mtx_[q]
  <2>1. w \in Waiters /\ QueueOf[w] = q /\ BeingSet(w) /\ wpc[w] # "idle" /\ msgout[w] # NoItem
    BY DEF WInv, TypeOK, OwnQueue, LocksOwn, ListsOwn, BeingSet, Filled, set
  <2>2. ~Listed(w)
    BY <2>1 DEF WInv, TypeOK, NoLostWakeup
  <2>3. \A v \in Waiters : Listed(v)' <=> Listed(v)
    BY DEF Listed, set
  <2>4. \A v \in Waiters : BeingSet(v)' <=> BeingSet(v) /\ v # w
    BY <2>1 DEF BeingSet, set, WInv, TypeOK
  <2> HIDE DEF w
  <2>5. /\ wpc' = [wpc EXCEPT ![w] = "waiting"]
        /\ event' = [event EXCEPT ![w] = TRUE]
        /\ msgout' = msgout
    BY DEF set, w
  <2> QED
    BY <2>1, <2>2, <2>3, <2>4, <2>5 DEF WInv, TypeOK, NoLostWakeup
<1> QED BY <1>1, <1>2, <1>3 DEF WInv

LEMMA ResetKeepsWInv ==
    ASSUME WInv, NEW w \in Waiters, reset(w)
    PROVE  WInv'
<1> USE QueueOfAssumption, NoItemAssumption, NoWaiterAssumption
<1>1. TypeOK' /\ Exclusive'
  BY DEF WInv, TypeOK, Exclusive, reset
<1>2. OwnQueue'
  BY DEF WInv, TypeOK, OwnQueue, LocksOwn, ListsOwn, Filled, reset
<1>3. NoLostWakeup'
  <2>1. \A v \in Waiters : (Listed(v)' <=> Listed(v)) /\ (BeingSet(v)' <=> BeingSet(v))
    BY DEF Listed, BeingSet, reset
  <2>2. ~BeingSet(w)
    <3>1. LocksOwn /\ QueueOf[w] \in Queues /\ w # NoWaiter
      BY DEF WInv, OwnQueue
    <3> QED BY <3>1 DEF LocksOwn, Filled, BeingSet, reset
  <2> QED
    BY <2>1, <2>2 DEF WInv, TypeOK, NoLostWakeup, reset
<1> QED BY <1>1, <1>2, <1>3 DEF WInv

LEMMA TakeKeepsWInv ==
    ASSUME WInv, NEW w \in Waiters, take(w)
    PROVE  WInv' /\ msgout[w] \in Items /\ ~Listed(w) /\ ~BeingSet(w)
<1> USE QueueOfAssumption, NoItemAssumption, NoWaiterAssumption
<1>0. msgout[w] \in Items /\ ~Listed(w) /\ ~BeingSet(w)
  BY DEF WInv, TypeOK, NoLostWakeup, take
<1>1. TypeOK' /\ Exclusive'
  BY <1>0 DEF WInv, TypeOK, Exclusive, take
<1>2. OwnQueue'
  BY <1>0 DEF WInv, TypeOK, OwnQueue, LocksOwn, ListsOwn, Filled, BeingSet, take
<1>3. NoLostWakeup'
  BY <1>0 DEF WInv, TypeOK, NoLostWakeup, Listed, BeingSet, take
<1> QED BY <1>0, <1>1, <1>2, <1>3 DEF WInv

LEMMA WInvStep == WInv /\ [Next]_vars => WInv'
<1> SUFFICES ASSUME WInv, [Next]_vars PROVE WInv'
  OBVIOUS
<1>1. CASE UNCHANGED vars
  BY <1>1 DEF vars, WInv, TypeOK, Exclusive, OwnQueue, ListsOwn, LocksOwn, NoLostWakeup, Listed, BeingSet, Filled
<1> QED
  BY <1>1, PushKeepsWInv, SetKeepsWInv, ResetKeepsWInv, AsyncPopKeepsWInv, TakeKeepsWInv
     DEF Next, WaiterStep

(***************************************************************************)
(* Where the items are.                                                    *)
(***************************************************************************)

\* Appending to items_ adds one stored item, in a position of its own.
LEMMA AppendStored ==
    ASSUME NEW s \in Seq(Items), NEW x \in Items,
           \A i \in 1 .. Len(s) : s[i] # x,
           \A i, j \in 1 .. Len(s) : s[i] = s[j] => i = j
    PROVE  /\ {Append(s, x)[i] : i \in 1 .. Len(Append(s, x))}
                = {s[i] : i \in 1 .. Len(s)} \cup {x}
           /\ \A i, j \in 1 .. Len(Append(s, x)) :
                Append(s, x)[i] = Append(s, x)[j] => i = j
<1> DEFINE t == Append(s, x)
           n == Len(s)
<1>1. n \in Nat /\ Len(t) = n + 1
  OBVIOUS
<1>2. \A i \in 1 .. n + 1 : t[i] = IF i = n + 1 THEN x ELSE s[i]
  OBVIOUS
<1> HIDE DEF t, n
<1>3. 1 .. n + 1 = (1 .. n) \cup {n + 1}
  BY <1>1
<1>4. {t[i] : i \in 1 .. n + 1} = {s[i] : i \in 1 .. n} \cup {x}
  BY <1>1, <1>2, <1>3
<1>5. \A i, j \in 1 .. n + 1 : t[i] = t[j] => i = j
  BY <1>1, <1>2, <1>3 DEF n
<1> QED BY <1>1, <1>4, <1>5 DEF t, n

\* pop_back removes one stored item and only that.
LEMMA PopBackStored ==
    ASSUME NEW s \in Seq(Items), s # <<>>,
           \A i, j \in 1 .. Len(s) : s[i] = s[j] => i = j
    PROVE  /\ {PopBack(s)[i] : i \in 1 .. Len(PopBack(s))}
                = {s[i] : i \in 1 .. Len(s)} \ {Back(s)}
           /\ Back(s) \in {s[i] : i \in 1 .. Len(s)}
           /\ \A i, j \in 1 .. Len(PopBack(s)) :
                PopBack(s)[i] = PopBack(s)[j] => i = j
<1> DEFINE t == PopBack(s)
           n == Len(s)
<1>1. /\ n \in Nat \ {0}
      /\ Len(t) = n - 1
      /\ \A i \in 1 .. n - 1 : t[i] = s[i]
  BY PopBackProperties
<1>2. Back(s) = s[n]
  BY DEF Back
<1> HIDE DEF t, n
<1>3. 1 .. n = (1 .. n - 1) \cup {n} /\ n \notin 1 .. n - 1
  BY <1>1
<1>4. {t[i] : i \in 1 .. n - 1} = {s[i] : i \in 1 .. n} \ {s[n]}
  BY <1>1, <1>3 DEF n
<1>5. \A i, j \in 1 .. n - 1 : t[i] = t[j] => i = j
  BY <1>1, <1>3 DEF n
<1>6. s[n] \in {s[i] : i \in 1 .. n}
  BY <1>3
<1> QED BY <1>1, <1>2, <1>4, <1>5, <1>6 DEF t, n

\* The complete inductive invariant.
IInv == WInv /\ ItemsOnce

\* The places of all items, before and after a step that moves none.
SamePlaces ==
    /\ StoredOnce'
    /\ pushed' = pushed
    /\ \A x \in Items :
         /\ \A q \in Queues : InQueue(x, q)' <=> InQueue(x, q)
         /\ \A w \in Waiters : (InSlot(x, w)' <=> InSlot(x, w)) /\ (InHands(x, w)' <=> InHands(x, w))

\* push puts a new item into its queue ...
LEMMA PushStorePlaces ==
    ASSUME IInv, NEW q \in Queues, NEW y \in Items, push(q, y), PushStore(q, y)
    PROVE  /\ StoredOnce'
           /\ pushed' = pushed \cup {y} /\ y \notin pushed
           /\ \A x \in Items :
                /\ \A p \in Queues : InQueue(x, p)' <=> InQueue(x, p) \/ (p = q /\ x = y)
                /\ \A w \in Waiters : (InSlot(x, w)' <=> InSlot(x, w)) /\ (InHands(x, w)' <=> InHands(x, w))
<1>1. items_[q] \in Seq(Items)
  BY DEF IInv, WInv, TypeOK
<1>2. \A i \in 1 .. Len(items_[q]) : items_[q][i] # y
  <2>1. ~InQueue(y, q)
    BY DEF IInv, ItemsOnce, Conserved, push
  <2> QED BY <2>1 DEF InQueue, Stored
<1>3. \A i, j \in 1 .. Len(items_[q]) : items_[q][i] = items_[q][j] => i = j
  BY DEF IInv, ItemsOnce, StoredOnce
<1>4. /\ items_'[q] = Append(items_[q], y)
      /\ \A p \in Queues : p # q => items_'[p] = items_[p]
  BY DEF PushStore, IInv, WInv, TypeOK
<1>5. Stored(q)' = Stored(q) \cup {y} /\ \A p \in Queues : p # q => Stored(p)' = Stored(p)
  <2>1. {Append(items_[q], y)[i] : i \in 1 .. Len(Append(items_[q], y))} = Stored(q) \cup {y}
    BY <1>1, <1>2, <1>3, AppendStored DEF Stored
  <2>2. Stored(q)' = {Append(items_[q], y)[i] : i \in 1 .. Len(Append(items_[q], y))}
    BY <1>4 DEF Stored
  <2>3. \A p \in Queues : p # q => Stored(p)' = Stored(p)
    BY <1>4 DEF Stored
  <2>4. Stored(q)' = Stored(q) \cup {y}
    BY <2>1, <2>2, Zenon
  <2> QED BY <2>3, <2>4
<1>6. StoredOnce'
  <2>1. \A i, j \in 1 .. Len(items_'[q]) : items_'[q][i] = items_'[q][j] => i = j
    BY <1>1, <1>2, <1>3, <1>4, AppendStored
  <2> QED BY <1>4, <2>1 DEF IInv, ItemsOnce, StoredOnce
<1>7. \A x \in Items : \A w \in Waiters : (InSlot(x, w)' <=> InSlot(x, w)) /\ (InHands(x, w)' <=> InHands(x, w))
  BY DEF push, PushStore, InSlot, InHands, Filled
<1>8. \A x \in Items : \A p \in Queues : InQueue(x, p)' <=> InQueue(x, p) \/ (p = q /\ x = y)
  BY <1>5 DEF InQueue
<1> QED BY <1>6, <1>7, <1>8 DEF push

\* ... or into the slot of one of the queue's consumers.
LEMMA PushHandOverPlaces ==
    ASSUME IInv, NEW q \in Queues, NEW y \in Items, push(q, y), PushHandOver(q, y)
    PROVE  /\ StoredOnce'
           /\ pushed' = pushed \cup {y} /\ y \notin pushed
           /\ \E w0 \in Waiters :
                /\ QueueOf[w0] = q
                /\ \A x \in Items :
                     /\ \A p \in Queues : InQueue(x, p)' <=> InQueue(x, p)
                     /\ \A w \in Waiters : /\ InSlot(x, w)' <=> InSlot(x, w) \/ (w = w0 /\ x = y)
                                           /\ InHands(x, w)' <=> InHands(x, w)
<1> DEFINE b == Back(queue_entries_[q])
<1>1. queue_entries_[q] \in Seq(Waiters) /\ queue_entries_[q] # <<>>
  BY DEF PushHandOver, IInv, WInv, TypeOK
<1>2. b \in Waiters /\ Len(queue_entries_[q]) \in Nat \ {0}
  BY <1>1, PopBackProperties
<1>3. QueueOf[b] = q /\ Listed(b)
  BY <1>2 DEF IInv, WInv, OwnQueue, ListsOwn, Listed, Back
<1> HIDE DEF b
<1>4. wpc[b] = "waiting" /\ msgout[b] = NoItem
  BY <1>2, <1>3 DEF IInv, WInv, NoLostWakeup, TypeOK
<1>5. msgout' = [msgout EXCEPT ![b] = y]
  BY DEF PushHandOver, b
<1>6. \A x \in Items, w \in Waiters : InSlot(x, w)' <=> InSlot(x, w) \/ (w = b /\ x = y)
  BY <1>2, <1>4, <1>5, NoItemAssumption DEF push, InSlot, Filled, IInv, WInv, TypeOK
<1>7. \A x \in Items, w \in Waiters : InHands(x, w)' <=> InHands(x, w)
  BY DEF push, InHands
<1>8. StoredOnce' /\ \A x \in Items, p \in Queues : InQueue(x, p)' <=> InQueue(x, p)
  BY DEF PushHandOver, InQueue, Stored, StoredOnce, IInv, ItemsOnce
<1> QED BY <1>2, <1>3, <1>6, <1>7, <1>8 DEF push

LEMMA PopWaitPlaces ==
    ASSUME IInv, NEW w \in Waiters, async_pop(w), PopWait(w)
    PROVE  SamePlaces
<1>1. \A v \in Waiters : Filled(v)' <=> Filled(v)
  BY DEF async_pop, PopWait, Filled, IInv, WInv, TypeOK
<1> QED
  BY <1>1 DEF async_pop, PopWait, SamePlaces, InSlot, InHands, InQueue, Stored, StoredOnce, IInv, ItemsOnce

\* async_pop moves the newest item from the queue to its caller's slot.
LEMMA PopReadyPlaces ==
    ASSUME IInv, NEW w \in Waiters, async_pop(w), PopReady(w)
    PROVE  /\ StoredOnce'
           /\ pushed' = pushed
           /\ \E y \in Items :
                /\ InQueue(y, QueueOf[w])
                /\ \A x \in Items :
                     /\ \A p \in Queues : InQueue(x, p)' <=> InQueue(x, p) /\ ~(p = QueueOf[w] /\ x = y)
                     /\ \A v \in Waiters : /\ InSlot(x, v)' <=> InSlot(x, v) \/ (v = w /\ x = y)
                                           /\ InHands(x, v)' <=> InHands(x, v)
<1> DEFINE q == QueueOf[w]
           y == Back(items_[q])
<1>1. q \in Queues /\ items_[q] \in Seq(Items) /\ items_[q] # <<>>
  BY QueueOfAssumption DEF PopReady, IInv, WInv, TypeOK
<1>2. y \in Items
  BY <1>1, PopBackProperties
<1>3. \A i, j \in 1 .. Len(items_[q]) : items_[q][i] = items_[q][j] => i = j
  BY <1>1 DEF IInv, ItemsOnce, StoredOnce
<1>4. /\ items_'[q] = PopBack(items_[q])
      /\ \A p \in Queues : p # q => items_'[p] = items_[p]
  BY <1>1 DEF PopReady, IInv, WInv, TypeOK
<1>5. /\ {PopBack(items_[q])[i] : i \in 1 .. Len(PopBack(items_[q]))} = Stored(q) \ {y}
      /\ y \in Stored(q)
      /\ \A i, j \in 1 .. Len(PopBack(items_[q])) :
            PopBack(items_[q])[i] = PopBack(items_[q])[j] => i = j
  BY <1>1, <1>3, PopBackStored DEF Stored
<1>6. wpc[w] = "armed" /\ msgout[w] = NoItem
  BY NoWaiterAssumption DEF async_pop, IInv, WInv, NoLostWakeup, BeingSet
<1>7. msgout' = [msgout EXCEPT ![w] = y] /\ wpc' = wpc
  BY DEF PopReady
<1>8. StoredOnce'
  BY <1>4, <1>5 DEF IInv, ItemsOnce, StoredOnce
<1> HIDE DEF q, y
<1>9. \A p \in Queues : Stored(p)' = IF p = q THEN Stored(q) \ {y} ELSE Stored(p)
  <2>1. Stored(q)' = {PopBack(items_[q])[i] : i \in 1 .. Len(PopBack(items_[q]))}
    BY <1>4 DEF Stored
  <2>2. \A p \in Queues : p # q => Stored(p)' = Stored(p)
    BY <1>4 DEF Stored
  <2>3. Stored(q)' = Stored(q) \ {y}
    BY <2>1, <1>5, Zenon
  <2> QED BY <2>2, <2>3
<1>10. \A x \in Items, p \in Queues : InQueue(x, p)' <=> InQueue(x, p) /\ ~(p = q /\ x = y)
  BY <1>9 DEF InQueue
<1>11. \A x \in Items, v \in Waiters : InSlot(x, v)' <=> InSlot(x, v) \/ (v = w /\ x = y)
  BY <1>2, <1>6, <1>7, NoItemAssumption DEF InSlot, Filled, IInv, WInv, TypeOK
<1>12. \A x \in Items, v \in Waiters : InHands(x, v)' <=> InHands(x, v)
  BY DEF async_pop, InHands
<1>13. InQueue(y, q) /\ pushed' = pushed
  BY <1>5 DEF InQueue, async_pop
<1> QED BY <1>2, <1>8, <1>10, <1>11, <1>12, <1>13 DEF q

LEMMA SetPlaces ==
    ASSUME IInv, NEW q \in Queues, set(q)
    PROVE  SamePlaces
<1>1. \A v \in Waiters : Filled(v)' <=> Filled(v)
  BY DEF set, Filled, IInv, WInv, TypeOK, OwnQueue, LocksOwn
<1> QED
  BY <1>1 DEF set, SamePlaces, InSlot, InHands, InQueue, Stored, StoredOnce, IInv, ItemsOnce

LEMMA ResetPlaces ==
    ASSUME IInv, NEW w \in Waiters, reset(w)
    PROVE  SamePlaces
<1>1. \A x \in Items, v \in Waiters : InSlot(x, v)' <=> InSlot(x, v)
  BY NoItemAssumption DEF reset, InSlot, Filled, IInv, WInv, TypeOK
<1> QED
  BY <1>1 DEF reset, SamePlaces, InHands, InQueue, Stored, StoredOnce, IInv, ItemsOnce

\* A completion moves the item from the slot to the consumer's handler.
LEMMA TakePlaces ==
    ASSUME IInv, NEW w \in Waiters, take(w)
    PROVE  /\ StoredOnce'
           /\ pushed' = pushed
           /\ taken' = [taken EXCEPT ![w] = @ \cup {msgout[w]}]
           /\ \E y \in Items :
                /\ y = msgout[w]
                /\ InSlot(y, w)
                /\ \A x \in Items :
                     /\ \A p \in Queues : InQueue(x, p)' <=> InQueue(x, p)
                     /\ \A v \in Waiters :
                          /\ InSlot(x, v)' <=> InSlot(x, v) /\ ~(v = w /\ x = y)
                          /\ InHands(x, v)' <=> InHands(x, v) \/ (v = w /\ x = y)
<1>1. msgout[w] \in Items /\ InSlot(msgout[w], w)
  BY TakeKeepsWInv, NoItemAssumption DEF IInv, InSlot, Filled, take
<1>2. \A x \in Items, v \in Waiters : InSlot(x, v)' <=> InSlot(x, v) /\ ~(v = w /\ x = msgout[w])
  BY <1>1 DEF take, InSlot, Filled, IInv, WInv, TypeOK
<1>3. \A x \in Items, v \in Waiters : InHands(x, v)' <=> InHands(x, v) \/ (v = w /\ x = msgout[w])
  BY <1>1 DEF take, InHands, IInv, WInv, TypeOK
<1>4. StoredOnce' /\ \A x \in Items, p \in Queues : InQueue(x, p)' <=> InQueue(x, p)
  BY DEF take, InQueue, Stored, StoredOnce, IInv, ItemsOnce
<1>5. pushed' = pushed /\ taken' = [taken EXCEPT ![w] = @ \cup {msgout[w]}]
  BY DEF take
<1> QED BY <1>1, <1>2, <1>3, <1>4, <1>5

LEMMA StutterPlaces ==
    ASSUME IInv, UNCHANGED vars
    PROVE  SamePlaces
BY DEF vars, SamePlaces, InQueue, InSlot, InHands, Filled, Stored, StoredOnce, IInv, ItemsOnce

LEMMA SamePlacesKeepsItemsOnce ==
    ASSUME IInv, SamePlaces
    PROVE  ItemsOnce'
BY DEF IInv, SamePlaces, ItemsOnce, Conserved, OnePlace

LEMMA IInvStep == IInv /\ [Next]_vars => IInv'
<1> SUFFICES ASSUME IInv, [Next]_vars PROVE IInv'
  OBVIOUS
<1>1. WInv'
  BY WInvStep DEF IInv
<1>2. ASSUME NEW q \in Queues, NEW y \in Items, push(q, y) PROVE ItemsOnce'
  <2>1. CASE PushStore(q, y)
    BY <1>2, <2>1, PushStorePlaces DEF IInv, ItemsOnce, Conserved, OnePlace
  <2>2. CASE PushHandOver(q, y)
    BY <1>2, <2>2, PushHandOverPlaces DEF IInv, ItemsOnce, Conserved, OnePlace
  <2> QED BY <1>2, <2>1, <2>2 DEF push
<1>3. ASSUME NEW w \in Waiters, async_pop(w) PROVE ItemsOnce'
  <2>1. CASE PopWait(w)
    BY <1>3, <2>1, PopWaitPlaces, SamePlacesKeepsItemsOnce
  <2>2. CASE PopReady(w)
    BY <1>3, <2>2, PopReadyPlaces, QueueOfAssumption DEF IInv, ItemsOnce, Conserved, OnePlace
  <2> QED BY <1>3, <2>1, <2>2 DEF async_pop
<1>4. ASSUME NEW w \in Waiters, take(w) PROVE ItemsOnce'
  BY <1>4, TakePlaces DEF IInv, ItemsOnce, Conserved, OnePlace
<1>5. ItemsOnce'
  BY <1>2, <1>3, <1>4, SetPlaces, ResetPlaces, StutterPlaces, SamePlacesKeepsItemsOnce
     DEF Next, WaiterStep
<1> QED BY <1>1, <1>5 DEF IInv

LEMMA IInvInit == Init => IInv
<1> SUFFICES ASSUME Init PROVE ItemsOnce
  BY WInvInit DEF IInv
<1>1. \A q \in Queues : Len(items_[q]) = 0
  BY DEF Init
<1>2. \A x \in Items :
         /\ \A q \in Queues : ~InQueue(x, q)
         /\ \A w \in Waiters : ~InSlot(x, w) /\ ~InHands(x, w)
  BY <1>1 DEF Init, InQueue, Stored, InSlot, Filled, InHands
<1> QED BY <1>1, <1>2 DEF Init, ItemsOnce, StoredOnce, Conserved, OnePlace

LEMMA Invariant == Spec => []IInv
BY IInvInit, IInvStep, PTL DEF Spec

\* TypeOK holds in every reachable state of the queues.
THEOREM TypeCorrect == Spec => []TypeOK
BY Invariant, PTL DEF IInv, WInv

\* No queue ever holds both an item and a waiting consumer.
THEOREM ExclusiveCorrect == Spec => []Exclusive
BY Invariant, PTL DEF IInv, WInv

\* No consumer sleeps through a push and none is woken with a null slot.
THEOREM NoLostWakeupCorrect == Spec => []NoLostWakeup
BY Invariant, PTL DEF IInv, WInv

\* A consumer is listed once, in its own queue only, and a queue's mutex is
\* held across a hand-over for one of that queue's own consumers.
THEOREM OwnQueueCorrect == Spec => []OwnQueue
BY Invariant, PTL DEF IInv, WInv

\* push, async_pop and the completions neither lose nor duplicate an item.
THEOREM ItemsOnceCorrect == Spec => []ItemsOnce
BY Invariant, PTL DEF IInv, WInv

(***************************************************************************)
(* The queue implements the hand-over specification.                       *)
(***************************************************************************)

LEMMA PendingType == pending \in [Queues -> SUBSET Items]
BY DEF pending

\* A step that moves nothing leaves what is pending and what was taken alone.
LEMMA SamePlacesStutters ==
    ASSUME IInv, IInv', SamePlaces, taken' = taken
    PROVE  UNCHANGED H!vars
<1>1. \A q \in Queues : \A x : x \in pending'[q] <=> x \in pending[q]
  BY DEF SamePlaces, pending
<1>2. pending' = pending
  BY <1>1 DEF pending
<1> QED BY <1>2 DEF H!vars

LEMMA PushIsPut ==
    ASSUME IInv, NEW q \in Queues, NEW y \in Items, push(q, y)
    PROVE  H!Put(q, y)
<1>1. H!Fresh(y)
  BY DEF H!Fresh, pending, InHands, IInv, ItemsOnce, Conserved, push
<1>2. \A p \in Queues, x \in Items :
         x \in pending'[p] <=> x \in pending[p] \/ (p = q /\ x = y)
  <2>1. CASE PushStore(q, y)
    BY <2>1, PushStorePlaces DEF pending
  <2>2. CASE PushHandOver(q, y)
    BY <2>2, PushHandOverPlaces DEF pending
  <2> QED BY <2>1, <2>2 DEF push
<1>3. pending' \in [Queues -> SUBSET Items]
  BY DEF pending
<1>4. \A p \in Queues : pending'[p] = IF p = q THEN pending[q] \cup {y} ELSE pending[p]
  BY <1>2, <1>3, PendingType
<1>5. pending' = [pending EXCEPT ![q] = @ \cup {y}]
  BY <1>3, <1>4, PendingType
<1> QED BY <1>1, <1>5 DEF H!Put, push

LEMMA TakeIsGet ==
    ASSUME IInv, NEW w \in Waiters, take(w)
    PROVE  msgout[w] \in Items /\ H!Get(w, msgout[w])
<1> DEFINE y == msgout[w]
<1>1. /\ y \in Items
      /\ InSlot(y, w)
      /\ taken' = [taken EXCEPT ![w] = @ \cup {y}]
      /\ \A x \in Items :
           /\ \A p \in Queues : InQueue(x, p)' <=> InQueue(x, p)
           /\ \A v \in Waiters : InSlot(x, v)' <=> InSlot(x, v) /\ ~(v = w /\ x = y)
  BY TakePlaces
<1> HIDE DEF y
<1>2. \A q \in Queues : ~InQueue(y, q)
  BY <1>1 DEF IInv, ItemsOnce, OnePlace
<1>3. \A v \in Waiters : InSlot(y, v) => v = w
  BY <1>1 DEF IInv, ItemsOnce, OnePlace
<1>4. QueueOf[w] \in Queues /\ y \in pending[QueueOf[w]]
  BY <1>1, QueueOfAssumption DEF pending
<1>5. \A p \in Queues, x \in Items :
         x \in pending'[p] <=> x \in pending[p] /\ ~(p = QueueOf[w] /\ x = y)
  BY <1>1, <1>2, <1>3 DEF pending
<1>6. pending' \in [Queues -> SUBSET Items]
  BY DEF pending
<1>7. \A p \in Queues :
         pending'[p] = IF p = QueueOf[w] THEN pending[QueueOf[w]] \ {y} ELSE pending[p]
  BY <1>4, <1>5, <1>6, PendingType
<1>8. pending' = [pending EXCEPT ![QueueOf[w]] = @ \ {y}]
  BY <1>4, <1>6, <1>7, PendingType
<1>9. H!Get(w, y)
  BY <1>1, <1>4, <1>8 DEF H!Get
<1> QED BY <1>1, <1>9 DEF y

LEMMA PopStutters ==
    ASSUME IInv, IInv', NEW w \in Waiters, async_pop(w)
    PROVE  UNCHANGED H!vars
<1>1. CASE PopWait(w)
  BY <1>1, PopWaitPlaces, SamePlacesStutters DEF async_pop
<1>2. CASE PopReady(w)
  <2>1. \A q \in Queues, x \in Items : x \in pending'[q] <=> x \in pending[q]
    BY <1>2, PopReadyPlaces DEF pending
  <2>2. pending' = pending
    BY <2>1 DEF pending
  <2> QED BY <2>2 DEF H!vars, async_pop
<1> QED BY <1>1, <1>2 DEF async_pop

LEMMA SetStutters ==
    ASSUME IInv, IInv', NEW q \in Queues, set(q)
    PROVE  UNCHANGED H!vars
BY SetPlaces, SamePlacesStutters DEF set

LEMMA ResetStutters ==
    ASSUME IInv, IInv', NEW w \in Waiters, reset(w)
    PROVE  UNCHANGED H!vars
BY ResetPlaces, SamePlacesStutters DEF reset

\* Every behaviour of the queues is a behaviour of the abstract hand-over: a
\* push is a Put, a completion a Get, and everything else is invisible.
THEOREM Refinement == Spec => ImplementsHandoff
<1>1. Init => H!Init
  <2> SUFFICES ASSUME Init PROVE H!Init
    OBVIOUS
  <2>1. \A q \in Queues, x \in Items : x \notin pending[q]
    BY DEF Init, pending, InQueue, Stored, InSlot, Filled
  <2>2. pending = [q \in Queues |-> {}]
    BY <2>1 DEF pending
  <2> QED BY <2>2 DEF Init, H!Init
<1>2. IInv /\ IInv' /\ [Next]_vars => [H!Next]_(H!vars)
  <2> SUFFICES ASSUME IInv, IInv', [Next]_vars PROVE [H!Next]_(H!vars)
    OBVIOUS
  <2>1. ASSUME NEW q \in Queues, NEW y \in Items, push(q, y) PROVE H!Next
    BY <2>1, PushIsPut DEF H!Next
  <2>2. ASSUME NEW w \in Waiters, take(w) PROVE H!Next
    BY <2>2, TakeIsGet DEF H!Next
  <2>3. CASE UNCHANGED vars
    BY <2>3, StutterPlaces, SamePlacesStutters DEF vars
  <2> QED
    BY <2>1, <2>2, <2>3, SetStutters, ResetStutters, PopStutters DEF Next, WaiterStep
<1> QED
  BY <1>1, <1>2, Invariant, PTL DEF Spec, ImplementsHandoff, H!Spec
=============================================================================
