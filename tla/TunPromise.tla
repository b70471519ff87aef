----------------------------- MODULE TunPromise -----------------------------
(***************************************************************************)
(* What the shared TUN promises the transports (tunshare.go:1-8): a packet *)
(* of the device goes to one transport at most, never to one that had been *)
(* replaced when the device gave it, and always in the device's order.     *)
(* Any packet may be dropped.                                              *)
(***************************************************************************)
EXTENDS Integers

CONSTANTS Packets, MaxHandles, BatchSize

VARIABLES
  made,    \* handles are numbered in the order they were made
  given,   \* how many packets the device has given
  era,     \* era[p]: the newest handle when the device gave p
  owner,   \* owner[p]: the handle whose Read returned p, 0 while none did
  stopped  \* stopped[h]: nobody reads from h any more

promised == <<made, given, era, owner, stopped>>

Init ==
  /\ made = 0 /\ given = 0
  /\ era = [p \in 1..Packets |-> 0]
  /\ owner = [p \in 1..Packets |-> 0]
  /\ stopped = [h \in 1..MaxHandles |-> FALSE]

Make ==
  /\ made' = made + 1
  /\ UNCHANGED <<given, era, owner, stopped>>

Give(n) ==
  /\ given + n <= Packets
  /\ given' = given + n
  /\ era' = [p \in 1..Packets |-> IF p \in (given + 1)..(given + n) THEN made ELSE era[p]]
  /\ UNCHANGED <<made, owner, stopped>>

\* What earlier packets went to is no newer, what later ones went to is newer.
InOrder(h, p) ==
  \A x \in 1..given : owner[x] # 0 =>
    /\ x < p => owner[x] <= h
    /\ x > p => owner[x] > h

Deliver(h, p) ==
  /\ owner[p] = 0 /\ era[p] <= h /\ ~stopped[h]
  /\ InOrder(h, p)
  /\ owner' = [owner EXCEPT ![p] = h]
  /\ UNCHANGED <<made, given, era, stopped>>

Stop(h) ==
  /\ stopped' = [stopped EXCEPT ![h] = TRUE]
  /\ UNCHANGED <<made, given, era, owner>>

Next ==
  \/ Make
  \/ \E n \in 1..BatchSize : Give(n)
  \/ \E h \in 1..made, p \in 1..given : Deliver(h, p)
  \/ \E h \in 1..made : Stop(h)

Spec == Init /\ [][Next]_promised
=============================================================================
