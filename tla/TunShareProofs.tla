--------------------------- MODULE TunShareProofs ---------------------------
(***************************************************************************)
(* Theorems about TunShare, for any number of packets and handles and any  *)
(* batch and queue size.                                                   *)
(*                                                                         *)
(* A packet in a queue goes on living after its handle was replaced, so    *)
(* that what keeps the promise is not the state at the moment it is sent.  *)
(* It is an order: the handle the reader picks is the newest one or none,  *)
(* so the queues of older handles hold only earlier packets, each queue is *)
(* sorted, and nothing the reader still holds has been seen by anybody.    *)
(***************************************************************************)
EXTENDS TunShare, SequenceTheorems, TLAPS

Slots(h) == 1..Len(queue[h])

\* The current handle is the newest, or there is none.
CurIsNewest == cur \in {0, made}

\* A queued packet was given by the device, delivered to nobody, and is not
\* older than its handle.
QueuedIsFresh ==
  \A h \in Handles : \A i \in Slots(h) :
    /\ queue[h][i] < next /\ owner[queue[h][i]] = 0
    /\ era[queue[h][i]] <= h /\ h <= made

QueueIsSorted ==
  \A h \in Handles : \A i, j \in Slots(h) : i < j => queue[h][i] < queue[h][j]

OlderHoldEarlier ==
  \A h, k \in Handles : \A i \in Slots(h), j \in Slots(k) :
    h < k => queue[h][i] < queue[k][j]

\* What was delivered fits the order in which the queues will be.
DeliveredInOrder == \A h \in Handles : \A i \in Slots(h) : Promise!InOrder(h, queue[h][i])

\* The reader's batch has been seen by nobody.
BatchIsFresh == \A x \in 1..Packets : owner[x] # 0 => x < next

\* The handle the reader has picked is as new as its packets, and the newest of
\* those that ever got one.
PickedIsNewest ==
  reader = "send" /\ to # 0 =>
    /\ \A p \in next..given : era[p] <= to
    /\ \A h \in Handles : queue[h] # <<>> => h <= to
    /\ \A x \in 1..Packets : owner[x] <= to

OrderInv ==
  /\ TypeOK /\ CurIsNewest /\ QueuedIsFresh /\ QueueIsSorted /\ OlderHoldEarlier
  /\ DeliveredInOrder /\ BatchIsFresh /\ PickedIsNewest
-----------------------------------------------------------------------------
LEMMA Bounds ==
  /\ Packets \in Nat /\ MaxHandles \in Nat
  /\ BatchSize \in Nat \ {0} /\ Depth \in Nat \ {0}
  BY TunShareAssumption

\* A queue that may be sent to is the queue as it was, or one packet longer.
LEMMA QueuedIs ==
  ASSUME TypeOK, NEW h \in Handles, NEW p \in 1..Packets
  PROVE  /\ Queued(h, p) \in Seq(1..Packets)
         /\ Len(Queued(h, p)) <= Depth
         /\ \A i \in 1..Len(Queued(h, p)) :
              \/ i \in Slots(h) /\ Queued(h, p)[i] = queue[h][i]
              \/ i = Len(queue[h]) + 1 /\ Queued(h, p)[i] = p
<1>1. queue[h] \in Seq(1..Packets) /\ Len(queue[h]) <= Depth /\ Len(queue[h]) \in Nat
  BY DEF TypeOK
<1>2. CASE Len(queue[h]) < Depth
  <2>1. Queued(h, p) = Append(queue[h], p)
    BY <1>2 DEF Queued
  <2>2. /\ Append(queue[h], p) \in Seq(1..Packets)
        /\ Len(Append(queue[h], p)) = Len(queue[h]) + 1
        /\ \A i \in 1..Len(queue[h]) : Append(queue[h], p)[i] = queue[h][i]
        /\ Append(queue[h], p)[Len(queue[h]) + 1] = p
    BY <1>1, AppendProperties
  <2> QED
    BY <1>1, <1>2, <2>1, <2>2, Bounds DEF Slots
<1>3. CASE ~(Len(queue[h]) < Depth)
  <2>1. Queued(h, p) = queue[h]
    BY <1>3 DEF Queued
  <2> QED
    BY <1>1, <2>1 DEF Slots
<1> QED
  BY <1>2, <1>3

\* What Read leaves in the queue.
LEMMA TailIs ==
  ASSUME TypeOK, NEW h \in Handles, queue[h] # <<>>
  PROVE  /\ 1 \in Slots(h) /\ Head(queue[h]) = queue[h][1]
         /\ queue[h][1] \in 1..Packets
         /\ Tail(queue[h]) \in Seq(1..Packets)
         /\ Len(Tail(queue[h])) = Len(queue[h]) - 1
         /\ \A i \in 1..Len(Tail(queue[h])) :
              i + 1 \in Slots(h) /\ Tail(queue[h])[i] = queue[h][i + 1]
<1>1. queue[h] \in Seq(1..Packets) /\ Len(queue[h]) \in Nat /\ Len(queue[h]) # 0
  BY DEF TypeOK
<1>2. /\ Head(queue[h]) \in 1..Packets /\ Tail(queue[h]) \in Seq(1..Packets)
      /\ Len(Tail(queue[h])) = Len(queue[h]) - 1
  BY <1>1, HeadTailProperties
<1>3. \A i \in 1..Len(Tail(queue[h])) : Tail(queue[h])[i] = queue[h][i + 1]
  BY <1>1, <1>2
<1> QED
  BY <1>1, <1>2, <1>3 DEF Slots

\* What is in a queue is a packet.
LEMMA SlotIs ==
  ASSUME TypeOK, NEW h \in Handles, NEW i \in Slots(h)
  PROVE  queue[h][i] \in 1..Packets /\ queue[h] # <<>> /\ i \in Nat
<1>1. queue[h] \in Seq(1..Packets) /\ Len(queue[h]) \in Nat
  BY DEF TypeOK
<1>2. i \in Nat /\ i >= 1 /\ i <= Len(queue[h])
  BY <1>1 DEF Slots
<1>3. queue[h][i] \in 1..Packets
  BY <1>1, ElementOfSeq DEF Slots
<1>4. queue[h] # <<>>
  BY <1>1, <1>2, EmptySeq
<1> QED
  BY <1>2, <1>3, <1>4

-----------------------------------------------------------------------------
LEMMA InitInv == Init => OrderInv
<1> SUFFICES ASSUME Init PROVE OrderInv
  OBVIOUS
<1>1. TypeOK
  BY Bounds DEF Init, TypeOK, Handles
<1>2. \A h \in Handles : Slots(h) = {}
  BY DEF Init, Slots
<1>3. CurIsNewest /\ BatchIsFresh /\ PickedIsNewest
  BY DEF Init, CurIsNewest, BatchIsFresh, PickedIsNewest
<1> QED
  BY <1>1, <1>2, <1>3
     DEF OrderInv, QueuedIsFresh, QueueIsSorted, OlderHoldEarlier, DeliveredInOrder

-----------------------------------------------------------------------------
\* Every step keeps the type invariant.
LEMMA TypeInv == OrderInv /\ [Next]_vars => TypeOK'
<1> SUFFICES ASSUME OrderInv, [Next]_vars PROVE TypeOK'
  OBVIOUS
<1> USE Bounds
<1>0. TypeOK
  BY DEF OrderInv
<1>1. CASE DeviceRead
  <2>1. PICK n \in 1..BatchSize :
          /\ given + n <= Packets
          /\ given' = given + n
          /\ era' = [p \in 1..Packets |->
                       IF p \in (given + 1)..(given + n) THEN made ELSE era[p]]
    BY <1>1 DEF DeviceRead
  <2>2. given' \in 0..Packets /\ next' \in 1..(given' + 1) /\ reader' = "pick"
    BY <1>0, <1>1, <2>1 DEF DeviceRead, TypeOK
  <2>3. era' \in [1..Packets -> 0..made']
    BY <1>0, <1>1, <2>1 DEF DeviceRead, TypeOK, handles
  <2> QED
    BY <1>0, <1>1, <2>2, <2>3 DEF DeviceRead, TypeOK, handles
<1>2. CASE Pick
  BY <1>0, <1>2 DEF Pick, TypeOK, handles
<1>3. CASE Send
  <2>1. next \in 1..Packets /\ next' \in 1..(given + 1)
    BY <1>0, <1>3 DEF Send, TypeOK
  <2>2. queue' \in [Handles -> Seq(1..Packets)] /\ \A h \in Handles : Len(queue'[h]) <= Depth
    <3>1. CASE to = 0
      BY <1>0, <1>3, <3>1 DEF Send, TypeOK
    <3>2. CASE to # 0
      <4>1. to \in Handles
        BY <1>0, <3>2 DEF TypeOK, Handles
      <4>2. Queued(to, next) \in Seq(1..Packets) /\ Len(Queued(to, next)) <= Depth
        BY <1>0, <2>1, <4>1, QueuedIs
      <4>3. queue' = [queue EXCEPT ![to] = Queued(to, next)]
        BY <1>3, <3>2 DEF Send
      <4> QED
        BY <1>0, <4>1, <4>2, <4>3 DEF TypeOK
    <3> QED
      BY <3>1, <3>2
  <2>3. UNCHANGED <<cur, made, closing, replacing, shut, taken, reader, to, given, era,
                    owner, stopped>>
    BY <1>3 DEF Send, handles
  <2>4. /\ made' \in 0..MaxHandles /\ cur' \in 0..made'
        /\ replacing' \in 0..made' /\ taken' \in 0..made' /\ to' \in 0..made'
        /\ given' \in 0..Packets /\ next' \in 1..(given' + 1)
    BY <1>0, <2>1, <2>3 DEF TypeOK
  <2>5. /\ shut' \in {"open", "taken", "closed"}
        /\ reader' \in {"read", "pick", "send", "exit"}
        /\ closing' \in [Handles -> {"open", "done", "closed"}]
        /\ stopped' \in [Handles -> BOOLEAN]
        /\ era' \in [1..Packets -> 0..made'] /\ owner' \in [1..Packets -> 0..made']
    BY <1>0, <2>3 DEF TypeOK
  <2> QED
    BY <2>2, <2>4, <2>5 DEF TypeOK
<1>4. CASE BatchDone \/ ReadError
  BY <1>0, <1>4 DEF BatchDone, ReadError, TypeOK, handles
<1>5. CASE Handle
  <2>1. /\ made' \in 0..MaxHandles /\ cur' \in 0..made' /\ replacing' \in 0..made'
        /\ taken' \in 0..made' /\ to' \in 0..made'
    BY <1>0, <1>5 DEF Handle, TypeOK, reading
  <2>2. era' \in [1..Packets -> 0..made'] /\ owner' \in [1..Packets -> 0..made']
    BY <1>0, <1>5 DEF Handle, TypeOK, reading
  <2> QED
    BY <1>0, <1>5, <2>1, <2>2 DEF Handle, TypeOK, reading
<1>6. CASE Closers \/ ShutTake
  <2>1. CASE CloseOld
    BY <1>0, <2>1 DEF CloseOld, CloseDone, TypeOK, reading
  <2>2. CASE CloseTaken
    BY <1>0, <2>2 DEF CloseTaken, CloseDone, TypeOK, reading
  <2>3. CASE HandleReturns
    BY <1>0, <2>3 DEF HandleReturns, TypeOK, reading
  <2>4. CASE ShutDevice
    BY <1>0, <2>4 DEF ShutDevice, TypeOK, reading
  <2>5. CASE ShutTake
    BY <1>0, <2>5 DEF ShutTake, TypeOK, reading
  <2> QED
    BY <1>6, <2>1, <2>2, <2>3, <2>4, <2>5 DEF Closers
<1>7. ASSUME NEW h \in Made, Detach(h) \/ Transport(h) PROVE TypeOK'
  <2>0. h \in Handles
    BY <1>0 DEF TypeOK, Made, Handles
  <2>1. CASE Detach(h)
    BY <1>0, <2>0, <2>1 DEF Detach, TypeOK, reading
  <2>2. CASE CloseDone(h)
    BY <1>0, <2>0, <2>2 DEF CloseDone, TypeOK, reading
  <2>3. CASE Read(h)
    <3>1. queue[h] # <<>> /\ queue' = [queue EXCEPT ![h] = Tail(queue[h])]
      BY <2>3 DEF Read
    <3>2. /\ Tail(queue[h]) \in Seq(1..Packets)
          /\ Len(Tail(queue[h])) = Len(queue[h]) - 1
          /\ Head(queue[h]) \in 1..Packets
      BY <1>0, <2>0, <3>1, TailIs
    <3>3. queue' \in [Handles -> Seq(1..Packets)]
      BY <1>0, <2>0, <3>1, <3>2 DEF TypeOK
    <3>4. Len(Tail(queue[h])) <= Depth
      <4>1. Len(queue[h]) \in Nat /\ Len(queue[h]) <= Depth
        BY <1>0, <2>0 DEF TypeOK
      <4> QED
        BY <3>2, <4>1
    <3>5. \A k \in Handles : Len(queue'[k]) <= Depth
      BY <1>0, <2>0, <3>1, <3>4 DEF TypeOK
    <3>6. owner' \in [1..Packets -> 0..made]
      <4>1. owner' = [owner EXCEPT ![Head(queue[h])] = h] /\ h \in 0..made
        BY <1>0, <2>3 DEF Read, Made, TypeOK
      <4> QED
        BY <1>0, <3>2, <4>1 DEF TypeOK
    <3> QED
      BY <1>0, <2>3, <3>3, <3>5, <3>6 DEF Read, TypeOK, handles, reading
  <2>4. CASE ReadClosed(h) \/ Quit(h)
    BY <1>0, <2>0, <2>4 DEF ReadClosed, Quit, TypeOK, handles, reading
  <2> QED
    BY <1>7, <2>1, <2>2, <2>3, <2>4 DEF Transport
<1>8. CASE UNCHANGED vars
  BY <1>0, <1>8 DEF TypeOK, vars, handles, reading
<1> QED
  BY <1>1, <1>2, <1>3, <1>4, <1>5, <1>6, <1>7, <1>8 DEF Next, Reader

-----------------------------------------------------------------------------
\* Steps that touch neither queues nor packets.
Still == UNCHANGED <<queue, owner, era, given, next>>

LEMMA StillInv ==
  ASSUME OrderInv, TypeOK', Still, made' = made
  PROVE  /\ (QueuedIsFresh /\ QueueIsSorted /\ OlderHoldEarlier)'
         /\ DeliveredInOrder' /\ BatchIsFresh'
<1>1. QueuedIsFresh' /\ QueueIsSorted' /\ OlderHoldEarlier'
  BY DEF OrderInv, Still, QueuedIsFresh, QueueIsSorted, OlderHoldEarlier, Slots
<1>2. DeliveredInOrder'
  BY DEF OrderInv, Still, DeliveredInOrder, Slots, Promise!InOrder
<1>3. BatchIsFresh'
  BY DEF OrderInv, Still, BatchIsFresh
<1> QED
  BY <1>1, <1>2, <1>3

LEMMA SendInv == OrderInv /\ TypeOK' /\ Send => OrderInv'
<1> SUFFICES ASSUME OrderInv, TypeOK', Send PROVE OrderInv'
  OBVIOUS
<1> USE Bounds
<1>0. TypeOK /\ next \in 1..given /\ next \in 1..Packets /\ next' = next + 1
  BY DEF OrderInv, TypeOK, Send
<1>1. CurIsNewest' /\ BatchIsFresh'
  BY <1>0 DEF OrderInv, TypeOK, Send, CurIsNewest, BatchIsFresh, handles
<1>2. CASE to = 0
  <2>1. queue' = queue
    BY <1>2 DEF Send
  <2>2. QueuedIsFresh' /\ QueueIsSorted' /\ OlderHoldEarlier'
    <3>1. \A h \in Handles : \A i \in Slots(h) : queue[h][i] < next'
      BY <1>0, SlotIs DEF OrderInv, QueuedIsFresh
    <3> QED
      BY <2>1, <3>1 DEF OrderInv, Send, QueuedIsFresh, QueueIsSorted, OlderHoldEarlier,
                        Slots, handles
  <2>3. DeliveredInOrder' /\ PickedIsNewest'
    BY <1>2, <2>1 DEF OrderInv, Send, DeliveredInOrder, PickedIsNewest, Slots, Promise!InOrder
  <2> QED
    BY <1>1, <2>2, <2>3 DEF OrderInv
<1>3. CASE to # 0
  <2>0. to \in Handles /\ to <= made
    BY <1>0, <1>3 DEF TypeOK, Handles
  <2>1. queue' = [queue EXCEPT ![to] = Queued(to, next)]
    BY <1>3 DEF Send
  <2>2. \A h \in Handles : \A i \in 1..Len(queue'[h]) :
          \/ i \in Slots(h) /\ queue'[h][i] = queue[h][i]
          \/ h = to /\ i = Len(queue[h]) + 1 /\ queue'[h][i] = next
    BY <1>0, <2>0, <2>1, QueuedIs DEF TypeOK, Slots
  <2>3. \A h \in Handles : \A i \in Slots(h) :
          /\ queue[h][i] \in 1..Packets /\ queue[h][i] < next /\ h <= to
    BY <1>0, <1>3, SlotIs DEF OrderInv, QueuedIsFresh, PickedIsNewest, Send
  <2>4. era[next] <= to /\ owner[next] = 0 /\ \A x \in 1..Packets : owner[x] <= to
    <3>1. era[next] <= to /\ \A x \in 1..Packets : owner[x] <= to
      BY <1>0, <1>3 DEF OrderInv, PickedIsNewest, Send, TypeOK
    <3>2. owner[next] = 0
      BY <1>0 DEF OrderInv, BatchIsFresh
    <3> QED
      BY <3>1, <3>2
  <2>5. QueuedIsFresh'
    <3>1. \A h \in Handles : \A i \in 1..Len(queue'[h]) :
            /\ queue'[h][i] < next + 1 /\ owner[queue'[h][i]] = 0
            /\ era[queue'[h][i]] <= h /\ h <= made
      <4> SUFFICES ASSUME NEW h \in Handles, NEW i \in 1..Len(queue'[h])
                   PROVE  /\ queue'[h][i] < next + 1 /\ owner[queue'[h][i]] = 0
                          /\ era[queue'[h][i]] <= h /\ h <= made
        OBVIOUS
      <4>1. CASE i \in Slots(h) /\ queue'[h][i] = queue[h][i]
        <5>1. queue[h][i] < next + 1
          BY <1>0, <2>3, <4>1
        <5> QED
          BY <4>1, <5>1 DEF OrderInv, QueuedIsFresh
      <4>2. CASE h = to /\ queue'[h][i] = next
        BY <1>0, <2>0, <2>4, <4>2
      <4> QED
        BY <2>2, <4>1, <4>2
    <3> QED
      BY <1>0, <3>1 DEF QueuedIsFresh, Slots, Send, handles
  <2>6. QueueIsSorted'
    <3> SUFFICES ASSUME NEW h \in Handles, NEW i \in Slots(h)', NEW j \in Slots(h)', i < j
                 PROVE  queue'[h][i] < queue'[h][j]
      BY DEF QueueIsSorted
    <3>1. Len(queue[h]) \in Nat /\ Len(queue'[h]) \in Nat
      BY <1>0 DEF TypeOK
    <3>2. i \in Nat /\ j \in Nat /\ i \in 1..Len(queue'[h]) /\ j \in 1..Len(queue'[h])
      BY <3>1 DEF Slots
    <3>3. i \in Slots(h) /\ queue'[h][i] = queue[h][i]
      BY <2>2, <3>1, <3>2 DEF Slots
    <3>4. CASE j \in Slots(h) /\ queue'[h][j] = queue[h][j]
      BY <3>3, <3>4 DEF OrderInv, QueueIsSorted
    <3>5. CASE queue'[h][j] = next
      BY <2>3, <3>3, <3>5
    <3> QED
      BY <2>2, <3>2, <3>4, <3>5
  <2>7. OlderHoldEarlier'
    <3> SUFFICES ASSUME NEW h \in Handles, NEW k \in Handles, h < k,
                        NEW i \in Slots(h)', NEW j \in Slots(k)'
                 PROVE  queue'[h][i] < queue'[k][j]
      BY DEF OlderHoldEarlier
    <3>1. i \in 1..Len(queue'[h]) /\ j \in 1..Len(queue'[k]) /\ h \in Nat /\ k \in Nat
      BY DEF Slots, Handles
    <3>2. CASE j \in Slots(k) /\ queue'[k][j] = queue[k][j]
      <4>1. k <= to
        BY <2>3, <3>2
      <4>2. i \in Slots(h) /\ queue'[h][i] = queue[h][i]
        BY <2>0, <2>2, <3>1, <4>1 DEF Handles
      <4> QED
        BY <3>2, <4>2 DEF OrderInv, OlderHoldEarlier
    <3>3. CASE k = to /\ queue'[k][j] = next
      <4>1. i \in Slots(h) /\ queue'[h][i] = queue[h][i]
        BY <2>2, <3>1, <3>3
      <4> QED
        BY <2>3, <3>3, <4>1
    <3> QED
      BY <2>2, <3>1, <3>2, <3>3
  <2>8. DeliveredInOrder'
    <3> SUFFICES ASSUME NEW h \in Handles, NEW i \in Slots(h)'
                 PROVE  Promise!InOrder(h, queue[h][i])'
      BY DEF DeliveredInOrder
    <3>1. i \in 1..Len(queue'[h]) /\ owner' = owner /\ given' = given
      BY DEF Slots, Send
    <3>2. CASE i \in Slots(h) /\ queue'[h][i] = queue[h][i]
      BY <3>1, <3>2 DEF OrderInv, DeliveredInOrder, Promise!InOrder
    <3>3. CASE h = to /\ queue'[h][i] = next
      <4>1. \A x \in 1..given : owner[x] # 0 => x < next /\ owner[x] <= to
        <5>1. \A x \in 1..given : x \in 1..Packets
          BY <1>0 DEF TypeOK
        <5> QED
          BY <2>4, <5>1 DEF OrderInv, BatchIsFresh
      <4>2. \A x \in 1..given : ~(x < next /\ x > next)
        BY <1>0
      <4>3. \A x \in 1..given : owner[x] # 0 =>
              (x < next => owner[x] <= to) /\ (x > next => owner[x] > to)
        BY <4>1, <4>2
      <4>4. queue'[h][i] = next /\ h = to
        BY <3>3
      <4> QED
        BY <3>1, <4>3, <4>4 DEF Promise!InOrder
    <3> QED
      BY <2>2, <3>1, <3>2, <3>3
  <2>9. PickedIsNewest'
    <3>1. \A h \in Handles : queue'[h] # <<>> => h <= to
      BY <1>0, <1>3, <2>0, <2>1 DEF OrderInv, PickedIsNewest, Send, TypeOK, Handles
    <3>2. \A p \in (next + 1)..given : era[p] <= to
      BY <1>0, <1>3 DEF OrderInv, PickedIsNewest, Send, TypeOK
    <3> QED
      BY <1>0, <2>4, <3>1, <3>2 DEF PickedIsNewest, Send
  <2> QED
    BY <1>1, <2>5, <2>6, <2>7, <2>8, <2>9 DEF OrderInv
<1> QED
  BY <1>2, <1>3

LEMMA ReadInv ==
  ASSUME OrderInv, TypeOK', NEW h \in Made, Read(h)
  PROVE  OrderInv' /\ \E p \in 1..given : Promise!Deliver(h, p)
<1> USE Bounds
<1> DEFINE p == queue[h][1]
<1>a. TypeOK
  BY DEF OrderInv
<1>b. h \in Handles
  BY <1>a DEF TypeOK, Made, Handles
<1>0. TypeOK /\ h \in Handles /\ queue[h] # <<>>
  BY <1>a, <1>b DEF Read
<1>1. /\ 1 \in Slots(h) /\ Head(queue[h]) = p /\ p \in 1..Packets
      /\ Len(Tail(queue[h])) = Len(queue[h]) - 1
      /\ \A i \in 1..Len(Tail(queue[h])) :
           i + 1 \in Slots(h) /\ Tail(queue[h])[i] = queue[h][i + 1]
  BY <1>0, TailIs
<1>2. /\ owner' = [owner EXCEPT ![p] = h] /\ queue' = [queue EXCEPT ![h] = Tail(queue[h])]
      /\ UNCHANGED <<handles, reading, stopped>> /\ ~stopped[h]
  BY <1>1 DEF Read
<1>3. p < next /\ owner[p] = 0 /\ era[p] <= h /\ Promise!InOrder(h, p)
  BY <1>0, <1>1 DEF OrderInv, QueuedIsFresh, DeliveredInOrder
<1>4. p \in 1..given /\ h \in Nat \ {0} /\ owner \in [1..Packets -> 0..made]
  <2>1. owner \in [1..Packets -> 0..made] /\ given \in Nat /\ next \in 1..(given + 1)
    <3>1. owner \in [1..Packets -> 0..made]
      BY <1>a DEF TypeOK
    <3>2. given \in 0..Packets /\ next \in 1..(given + 1)
      BY <1>a DEF TypeOK
    <3> QED
      BY <3>1, <3>2
  <2>2. h \in Nat \ {0}
    BY <1>0 DEF Handles
  <2>3. p \in 1..given
    BY <1>1, <1>3, <2>1
  <2> QED
    BY <2>1, <2>2, <2>3
<1> HIDE DEF p
\* Each packet still queued was queued before, behind the one delivered.
<1>5. \A k \in Handles : \A i \in Slots(k)' : \E j \in Slots(k) :
        /\ queue'[k][i] = queue[k][j] /\ j \in Nat
        /\ IF k = h THEN j = i + 1 ELSE j = i
  <2> SUFFICES ASSUME NEW k \in Handles, NEW i \in Slots(k)'
               PROVE  \E j \in Slots(k) : /\ queue'[k][i] = queue[k][j] /\ j \in Nat
                                         /\ IF k = h THEN j = i + 1 ELSE j = i
    OBVIOUS
  <2>0. i \in 1..Len(queue'[k]) /\ Slots(k) \subseteq Nat
    BY DEF Slots
  <2>1. CASE k = h
    BY <1>0, <1>1, <1>2, <2>0, <2>1 DEF TypeOK
  <2>2. CASE k # h
    BY <1>0, <1>2, <2>0, <2>2 DEF TypeOK, Slots
  <2> QED
    BY <2>1, <2>2
<1>6. \A k \in Handles : \A i \in Slots(k)' :
        /\ queue'[k][i] \in 1..Packets
        /\ k = h => queue'[k][i] > p
        /\ k < h => queue'[k][i] < p
        /\ k > h => queue'[k][i] > p
        /\ queue'[k][i] # p
  <2> SUFFICES ASSUME NEW k \in Handles, NEW i \in Slots(k)'
               PROVE  /\ queue'[k][i] \in 1..Packets
                      /\ k = h => queue'[k][i] > p
                      /\ k < h => queue'[k][i] < p
                      /\ k > h => queue'[k][i] > p
                      /\ queue'[k][i] # p
    OBVIOUS
  <2>1. PICK j \in Slots(k) : /\ queue'[k][i] = queue[k][j] /\ j \in Nat
                              /\ IF k = h THEN j = i + 1 ELSE j = i
    BY <1>5
  <2>2. queue[k][j] \in 1..Packets /\ i \in Nat \ {0}
    BY <1>0, SlotIs DEF Slots
  <2>3. k = h => p < queue[k][j]
    BY <1>0, <1>1, <2>1, <2>2 DEF OrderInv, QueueIsSorted, p
  <2>4. (k < h => queue[k][j] < p) /\ (h < k => p < queue[k][j])
    BY <1>0, <1>1 DEF OrderInv, OlderHoldEarlier, p
  <2>5. p \in Int /\ queue[k][j] \in Int /\ k \in Int /\ h \in Int
    BY <1>1, <1>4, <2>2 DEF Handles
  <2> QED
    BY <2>1, <2>2, <2>3, <2>4, <2>5
<1>7. CurIsNewest' /\ BatchIsFresh'
  BY <1>1, <1>2, <1>3, <1>4 DEF OrderInv, CurIsNewest, BatchIsFresh, handles, reading
<1>8. QueuedIsFresh'
  <2>1. \A k \in Handles : \A i \in Slots(k)' :
          /\ queue'[k][i] < next /\ owner[queue'[k][i]] = 0
          /\ era[queue'[k][i]] <= k /\ k <= made
    BY <1>5 DEF OrderInv, QueuedIsFresh
  <2> QED
    BY <1>2, <1>4, <1>6, <2>1 DEF QueuedIsFresh, handles, reading
<1>9. QueueIsSorted'
  <2> SUFFICES ASSUME NEW k \in Handles, NEW i \in Slots(k)', NEW j \in Slots(k)', i < j
               PROVE  queue'[k][i] < queue'[k][j]
    BY DEF QueueIsSorted
  <2>0. i \in Int /\ j \in Int
    BY DEF Slots
  <2>1. PICK i0 \in Slots(k) : /\ queue'[k][i] = queue[k][i0] /\ i0 \in Nat
                               /\ IF k = h THEN i0 = i + 1 ELSE i0 = i
    BY <1>5
  <2>2. PICK j0 \in Slots(k) : /\ queue'[k][j] = queue[k][j0] /\ j0 \in Nat
                               /\ IF k = h THEN j0 = j + 1 ELSE j0 = j
    BY <1>5
  <2>3. i0 < j0
    BY <2>0, <2>1, <2>2
  <2> QED
    BY <2>1, <2>2, <2>3 DEF OrderInv, QueueIsSorted
<1>10. OlderHoldEarlier'
  <2> SUFFICES ASSUME NEW k \in Handles, NEW l \in Handles, k < l,
                      NEW i \in Slots(k)', NEW j \in Slots(l)'
               PROVE  queue'[k][i] < queue'[l][j]
    BY DEF OlderHoldEarlier
  <2>1. PICK i0 \in Slots(k) : queue'[k][i] = queue[k][i0]
    BY <1>5
  <2>2. PICK j0 \in Slots(l) : queue'[l][j] = queue[l][j0]
    BY <1>5
  <2> QED
    BY <2>1, <2>2 DEF OrderInv, OlderHoldEarlier
<1>11. DeliveredInOrder'
  <2> SUFFICES ASSUME NEW k \in Handles, NEW i \in Slots(k)'
               PROVE  Promise!InOrder(k, queue[k][i])'
    BY DEF DeliveredInOrder
  <2>1. PICK j \in Slots(k) : queue'[k][i] = queue[k][j]
    BY <1>5
  <2>2. \A x \in 1..given : owner[x] # 0 =>
          (x < queue'[k][i] => owner[x] <= k) /\ (x > queue'[k][i] => owner[x] > k)
    BY <2>1 DEF OrderInv, DeliveredInOrder, Promise!InOrder
  <2>3. (p < queue'[k][i] => h <= k) /\ (p > queue'[k][i] => h > k)
    <3>1. k \in Int /\ h \in Int /\ p \in Int /\ queue'[k][i] \in Int
      BY <1>1, <1>4, <1>6 DEF Handles
    <3> QED
      BY <1>6, <3>1
  <2>4. \A x \in 1..given : x \in 1..Packets
    BY <1>0 DEF TypeOK
  <2>5. \A x \in 1..given : owner'[x] # 0 =>
          (x < queue'[k][i] => owner'[x] <= k) /\ (x > queue'[k][i] => owner'[x] > k)
    BY <1>1, <1>2, <1>4, <2>2, <2>3, <2>4
  <2> QED
    BY <1>2, <2>5 DEF Promise!InOrder, reading
<1>12. PickedIsNewest'
  <2> SUFFICES ASSUME reader = "send", to # 0
               PROVE  /\ \A x \in next..given : era[x] <= to
                      /\ \A k \in Handles : queue'[k] # <<>> => k <= to
                      /\ \A x \in 1..Packets : owner'[x] <= to
    BY <1>2 DEF PickedIsNewest, reading
  <2>1. /\ \A x \in next..given : era[x] <= to
        /\ \A k \in Handles : queue[k] # <<>> => k <= to
        /\ \A x \in 1..Packets : owner[x] <= to
    BY DEF OrderInv, PickedIsNewest
  <2>2. h <= to
    BY <1>0, <2>1
  <2> QED
    BY <1>0, <1>1, <1>2, <1>4, <2>1, <2>2 DEF TypeOK
<1>13. Promise!Deliver(h, p)
  BY <1>2, <1>3 DEF Promise!Deliver, handles, reading
<1> QED
  BY <1>4, <1>7, <1>8, <1>9, <1>10, <1>11, <1>12, <1>13 DEF OrderInv

-----------------------------------------------------------------------------
\* Every step keeps the order and is a step of TunPromise, or none at all.
LEMMA StepInv ==
  ASSUME OrderInv, [Next]_vars
  PROVE  OrderInv' /\ [Promise!Next]_(Promise!promised)
<1> USE Bounds
<1>0. TypeOK /\ TypeOK'
  BY TypeInv DEF OrderInv
\* Most steps move no packet: it is enough to look at cur and to.
<1>1. ASSUME Still, UNCHANGED <<made, stopped>>,
             CurIsNewest', PickedIsNewest'
      PROVE  OrderInv' /\ [Promise!Next]_(Promise!promised)
  <2>1. UNCHANGED Promise!promised
    BY <1>1 DEF Still, Promise!promised
  <2> QED
    BY <1>0, <1>1, <2>1, StillInv DEF OrderInv
<1>2. CASE DeviceRead
  <2>1. PICK n \in 1..BatchSize :
          /\ given + n <= Packets
          /\ given' = given + n
          /\ era' = [p \in 1..Packets |->
                       IF p \in (given + 1)..(given + n) THEN made ELSE era[p]]
    BY <1>2 DEF DeviceRead
  <2>2. UNCHANGED <<cur, made, queue, owner, next, to, stopped>> /\ reader' = "pick"
    BY <1>2 DEF DeviceRead, handles
  <2>3. CurIsNewest' /\ BatchIsFresh' /\ PickedIsNewest'
    BY <2>2 DEF OrderInv, CurIsNewest, BatchIsFresh, PickedIsNewest
  <2>4. QueueIsSorted' /\ OlderHoldEarlier'
    BY <2>2 DEF OrderInv, QueueIsSorted, OlderHoldEarlier, Slots
  <2>5. \A h \in Handles : \A i \in Slots(h) :
          queue[h][i] \in 1..given /\ queue[h][i] \in 1..Packets
    <3> SUFFICES ASSUME NEW h \in Handles, NEW i \in Slots(h)
                 PROVE  queue[h][i] \in 1..given /\ queue[h][i] \in 1..Packets
      OBVIOUS
    <3>1. queue[h][i] < next /\ queue[h][i] \in 1..Packets
      BY <1>0, SlotIs DEF OrderInv, QueuedIsFresh
    <3>2. given \in Nat /\ next \in 1..(given + 1)
      BY <1>0 DEF TypeOK
    <3> QED
      BY <3>1, <3>2
  <2>6. \A x \in 1..Packets : x \in 1..given => era'[x] = era[x]
    <3>1. given \in Nat
      BY <1>0 DEF TypeOK
    <3> QED
      BY <2>1, <3>1
  <2>7. QueuedIsFresh'
    BY <2>2, <2>5, <2>6 DEF OrderInv, QueuedIsFresh, Slots
  <2>8. DeliveredInOrder'
    <3> SUFFICES ASSUME NEW h \in Handles, NEW i \in Slots(h)
                 PROVE  Promise!InOrder(h, queue[h][i])'
      BY <2>2 DEF DeliveredInOrder, Slots
    <3>1. Promise!InOrder(h, queue[h][i])
      BY DEF OrderInv, DeliveredInOrder
    <3>2. \A x \in 1..given' : owner[x] # 0 => x \in 1..given
      <4>1. given \in Nat /\ given' \in Nat /\ given' <= Packets /\ next \in 1..(given + 1)
        BY <1>0, <2>1 DEF TypeOK
      <4>2. \A x \in 1..given' : owner[x] # 0 => x < next
        BY <4>1 DEF OrderInv, BatchIsFresh
      <4> QED
        BY <4>1, <4>2
    <3> QED
      BY <2>2, <3>1, <3>2 DEF Promise!InOrder
  <2>9. Promise!Give(n)
    BY <2>1, <2>2 DEF Promise!Give
  <2> QED
    BY <1>0, <2>3, <2>4, <2>7, <2>8, <2>9 DEF OrderInv, Promise!Next
<1>3. CASE Pick
  <2>1. Still /\ UNCHANGED <<made, stopped, cur>> /\ to' = cur
    BY <1>3 DEF Pick, Still, handles
  <2>2. CurIsNewest'
    BY <2>1 DEF OrderInv, CurIsNewest
  <2>3. PickedIsNewest'
    <3> SUFFICES ASSUME cur # 0
                 PROVE  /\ \A p \in next..given : era[p] <= cur
                        /\ \A h \in Handles : queue[h] # <<>> => h <= cur
                        /\ \A x \in 1..Packets : owner[x] <= cur
      BY <2>1 DEF PickedIsNewest, Still
    <3>1. cur = made
      BY DEF OrderInv, CurIsNewest
    <3>2. \A h \in Handles : queue[h] # <<>> => h <= made
      <4> SUFFICES ASSUME NEW h \in Handles, queue[h] # <<>> PROVE h <= made
        OBVIOUS
      <4>1. 1 \in Slots(h)
        BY <1>0, TailIs
      <4> QED
        BY <4>1 DEF OrderInv, QueuedIsFresh
    <3>3. \A p \in next..given : era[p] <= made
      BY <1>0 DEF TypeOK
    <3>4. \A x \in 1..Packets : owner[x] <= made
      BY <1>0 DEF TypeOK
    <3> QED
      BY <3>1, <3>2, <3>3, <3>4
  <2> QED
    BY <1>1, <2>1, <2>2, <2>3
<1>4. CASE Send
  <2>1. UNCHANGED Promise!promised
    BY <1>4 DEF Send, Promise!promised, handles
  <2> QED
    BY <1>0, <1>4, <2>1, SendInv
<1>5. CASE BatchDone \/ ReadError
  BY <1>1, <1>5 DEF BatchDone, ReadError, Still, OrderInv, CurIsNewest, PickedIsNewest, handles
<1>6. CASE Handle
  <2>1. Still /\ UNCHANGED <<stopped, to, reader>> /\ made' = made + 1 /\ cur' = made + 1
    BY <1>6 DEF Handle, Still, reading
  <2>2. CurIsNewest' /\ PickedIsNewest'
    BY <2>1 DEF OrderInv, Still, CurIsNewest, PickedIsNewest
  <2>3. (QueueIsSorted /\ OlderHoldEarlier /\ DeliveredInOrder /\ BatchIsFresh)'
    BY <2>1 DEF OrderInv, Still, QueueIsSorted, OlderHoldEarlier, DeliveredInOrder,
                BatchIsFresh, Slots, Promise!InOrder
  <2>4. QueuedIsFresh'
    <3>1. \A h \in Handles : h <= made => h <= made + 1
      BY <1>0 DEF TypeOK, Handles
    <3> QED
      BY <2>1, <3>1 DEF OrderInv, Still, QueuedIsFresh, Slots
  <2>5. Promise!Make
    BY <2>1 DEF Promise!Make, Still
  <2> QED
    BY <1>0, <2>2, <2>3, <2>4, <2>5 DEF OrderInv, Promise!Next
<1>7. CASE Closers \/ ShutTake
  <2>1. Still /\ UNCHANGED <<made, stopped, reader, to>> /\ cur' \in {0, cur}
    BY <1>7 DEF Closers, ShutTake, CloseOld, CloseTaken, CloseDone, HandleReturns,
                ShutDevice, Still, reading
  <2>2. CurIsNewest' /\ PickedIsNewest'
    BY <2>1 DEF OrderInv, Still, CurIsNewest, PickedIsNewest
  <2> QED
    BY <1>1, <2>1, <2>2
<1>8. ASSUME NEW h \in Made, Detach(h) \/ Transport(h)
      PROVE  OrderInv' /\ [Promise!Next]_(Promise!promised)
  <2>1. CASE Detach(h) \/ CloseDone(h)
    <3>1. Still /\ UNCHANGED <<made, stopped, reader, to>> /\ cur' \in {0, cur}
      BY <2>1 DEF Detach, CloseDone, Still, reading
    <3>2. CurIsNewest' /\ PickedIsNewest'
      BY <3>1 DEF OrderInv, Still, CurIsNewest, PickedIsNewest
    <3> QED
      BY <1>1, <3>1, <3>2
  <2>2. CASE Read(h)
    BY <1>0, <2>2, ReadInv DEF Promise!Next, Made
  <2>3. CASE ReadClosed(h) \/ Quit(h)
    <3>1. Still /\ UNCHANGED <<made, cur, reader, to>>
      BY <2>3 DEF ReadClosed, Quit, Still, handles, reading
    <3>2. CurIsNewest' /\ PickedIsNewest'
      BY <3>1 DEF OrderInv, Still, CurIsNewest, PickedIsNewest
    <3>3. OrderInv'
      BY <1>0, <3>1, <3>2, StillInv DEF OrderInv
    <3>4. Promise!Stop(h)
      BY <2>3, <3>1 DEF ReadClosed, Quit, Still, Promise!Stop
    <3> QED
      BY <3>3, <3>4 DEF Promise!Next, Made
  <2> QED
    BY <1>8, <2>1, <2>2, <2>3 DEF Transport
<1>9. CASE UNCHANGED vars
  BY <1>1, <1>9 DEF vars, handles, reading, Still, OrderInv, CurIsNewest, PickedIsNewest
<1> QED
  BY <1>2, <1>3, <1>4, <1>5, <1>6, <1>7, <1>8, <1>9 DEF Next, Reader

THEOREM OrderKept == Spec => []OrderInv
<1>1. OrderInv /\ [Next]_vars => OrderInv'
  BY StepInv
<1> QED
  BY InitInv, <1>1, PTL DEF Spec

\* Every value has its type, and no queue outgrows its channel.
THEOREM TypeCorrect == Spec => []TypeOK
<1>1. OrderInv => TypeOK
  BY DEF OrderInv
<1> QED
  BY <1>1, OrderKept, PTL

\* No packet goes to a handle older than itself, out of turn, or twice,
\* whatever is replaced or closed while it is on its way.
THEOREM PromiseKept == Spec => KeepsPromise
<1>1. Init => Promise!Init
  BY DEF Init, Promise!Init, Handles
<1>2. OrderInv /\ [Next]_vars => [Promise!Next]_(Promise!promised)
  BY StepInv
<1> QED
  BY <1>1, <1>2, OrderKept, PTL DEF Spec, KeepsPromise, Promise!Spec

-----------------------------------------------------------------------------
\* Whoever closes what: an open newest handle stays the current one.
THEOREM NewestStaysCurrent == Spec => []NewestIsCurrent
<1> DEFINE Inv == TypeOK /\ NewestIsCurrent
<1>1. Init => NewestIsCurrent
  BY DEF Init, NewestIsCurrent
<1>2. ASSUME Inv, TypeOK', [Next]_vars PROVE NewestIsCurrent'
  <2> USE Bounds
  <2> SUFFICES ASSUME shut' = "open", made' # 0, closing'[made'] = "open"
               PROVE  cur' = made'
    BY DEF NewestIsCurrent
  <2>1. CASE Handle
    BY <2>1 DEF Handle
  <2>2. CASE Reader \/ UNCHANGED vars \/ HandleReturns
    BY <1>2, <2>2 DEF Reader, DeviceRead, Pick, Send, BatchDone, ReadError, HandleReturns,
                      vars, handles, NewestIsCurrent
  <2>3. CASE ShutTake \/ ShutDevice
    BY <2>3 DEF ShutTake, ShutDevice
  <2>4. CASE CloseTaken \/ CloseOld
    <3>1. PICK h \in 1..made : CloseDone(h)
      BY <1>2, <2>4 DEF CloseTaken, CloseOld, TypeOK
    <3> QED
      BY <1>2, <3>1 DEF CloseDone, NewestIsCurrent, TypeOK, Handles
  <2>5. ASSUME NEW h \in Made, Detach(h) \/ Transport(h) PROVE cur' = made'
    <3>1. h \in Handles /\ made \in Handles
      BY <1>2 DEF TypeOK, Made, Handles
    <3>2. CASE Detach(h)
      BY <1>2, <3>1, <3>2 DEF Detach, NewestIsCurrent, TypeOK
    <3>3. CASE CloseDone(h)
      BY <1>2, <3>1, <3>3 DEF CloseDone, NewestIsCurrent, TypeOK
    <3>4. CASE Read(h) \/ ReadClosed(h) \/ Quit(h)
      BY <1>2, <3>4 DEF Read, ReadClosed, Quit, handles, NewestIsCurrent
    <3> QED
      BY <2>5, <3>2, <3>3, <3>4 DEF Transport
  <2> QED
    BY <1>2, <2>1, <2>2, <2>3, <2>4, <2>5 DEF Next, Closers
<1> QED
  BY <1>1, <1>2, TypeCorrect, PTL DEF Spec
=============================================================================
