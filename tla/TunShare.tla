------------------------------ MODULE TunShare ------------------------------
(***************************************************************************)
(* One TUN device under transports that come and go                        *)
(* (z2k-warpd/internal/tunshare/tunshare.go).  One goroutine reads the     *)
(* device and passes each packet to the queue of the handle that is        *)
(* current; the engine makes a handle per attempt, which replaces the one  *)
(* before; a transport reads from its handle and may close it.             *)
(*                                                                         *)
(* The goroutines are the reader, the engine in Handle(), whoever runs     *)
(* Shared.Close(), and one transport per handle.  A step ends where a      *)
(* mutex is released or a channel is used.  Handles are numbered as they   *)
(* are made and packets as they are read; what a packet holds, and what a  *)
(* transport writes to the device, pass through and are left out.          *)
(***************************************************************************)
EXTENDS Integers, Sequences

CONSTANTS
  Packets,    \* bound: packets the device gives
  MaxHandles, \* bound: calls of Handle()
  BatchSize,  \* packets of one Read of the device, at most
  Depth       \* queueDepth, 256 in the code

ASSUME TunShareAssumption ==
  /\ Packets \in Nat /\ MaxHandles \in Nat
  /\ BatchSize \in Nat \ {0} /\ Depth \in Nat \ {0}

VARIABLES
  cur,       \* the current handle, 0: nil
  made,      \* handles made so far
  closing,   \* closing[h]: "open", "done" (channel closed), "closed"
  replacing, \* the old handle that Handle() has still to close, 0: none
  shut,      \* Shared.Close(): "open", "taken" (cur taken), "closed"
  taken,     \* the handle Shared.Close() took, 0: nil
  queue,     \* queue[h]
  reader,    \* the reader goroutine: "read", "pick", "send", "exit"
  to,        \* the handle it has picked, 0: nil
  next,      \* the packet it handles next, of the batch next..given
  given, era, owner, stopped  \* as in TunPromise

handles == <<cur, made, closing, replacing, shut, taken>>
reading == <<reader, to, next, given, era>>
vars == <<handles, reading, queue, owner, stopped>>

Handles == 1..MaxHandles
Made == 1..made

TypeOK ==
  /\ made \in 0..MaxHandles /\ cur \in 0..made
  /\ closing \in [Handles -> {"open", "done", "closed"}]
  /\ replacing \in 0..made
  /\ shut \in {"open", "taken", "closed"} /\ taken \in 0..made
  /\ queue \in [Handles -> Seq(1..Packets)]
  /\ \A h \in Handles : Len(queue[h]) <= Depth
  /\ reader \in {"read", "pick", "send", "exit"}
  /\ to \in 0..made
  /\ given \in 0..Packets /\ next \in 1..(given + 1)
  /\ era \in [1..Packets -> 0..made]
  /\ owner \in [1..Packets -> 0..made]
  /\ stopped \in [Handles -> BOOLEAN]

Init ==
  /\ cur = 0 /\ made = 0 /\ replacing = 0
  /\ closing = [h \in Handles |-> "open"]
  /\ shut = "open" /\ taken = 0
  /\ queue = [h \in Handles |-> <<>>]
  /\ reader = "read" /\ to = 0 /\ next = 1
  /\ given = 0
  /\ era = [p \in 1..Packets |-> 0]
  /\ owner = [p \in 1..Packets |-> 0]
  /\ stopped = [h \in Handles |-> FALSE]

-----------------------------------------------------------------------------
\* The reader.  The device gives a batch, and only then is cur looked at.
DeviceRead ==
  /\ reader = "read" /\ shut # "closed"
  /\ \E n \in 1..BatchSize :
       /\ given + n <= Packets
       /\ given' = given + n
       /\ era' = [p \in 1..Packets |->
                    IF p \in (given + 1)..(given + n) THEN made ELSE era[p]]
  /\ reader' = "pick"
  /\ UNCHANGED <<handles, to, next, queue, owner, stopped>>

\* Faulty: the handle is picked before the device is read.
PickKept ==
  /\ reader = "pick"
  /\ to' = IF to = 0 THEN cur ELSE to
  /\ reader' = "send"
  /\ UNCHANGED <<handles, next, given, era, queue, owner, stopped>>

Pick ==
  /\ reader = "pick"
  /\ to' = cur
  /\ reader' = "send"
  /\ UNCHANGED <<handles, next, given, era, queue, owner, stopped>>

\* Faulty: the queue grows.
QueueUnbounded(h, p) == Append(queue[h], p)

\* A full queue drops the packet.
Queued(h, p) == IF Len(queue[h]) < Depth THEN Append(queue[h], p) ELSE queue[h]

Send ==
  /\ reader = "send" /\ next <= given
  /\ queue' = IF to = 0 THEN queue ELSE [queue EXCEPT ![to] = Queued(to, next)]
  /\ next' = next + 1
  /\ UNCHANGED <<handles, reader, to, given, era, owner, stopped>>

BatchDone ==
  /\ reader = "send" /\ next > given
  /\ reader' = "read"
  /\ UNCHANGED <<handles, to, next, given, era, queue, owner, stopped>>

-----------------------------------------------------------------------------
\* Handle(): the swap, under the mutex; then the old handle's Close.
Handle ==
  /\ replacing = 0 /\ made < MaxHandles
  /\ made' = made + 1 /\ cur' = made + 1
  /\ replacing' = cur
  /\ UNCHANGED <<closing, shut, taken, reading, queue, owner, stopped>>

\* Handle.Close(), whoever calls it; a second call waits for the first.
CloseDone(h) ==
  /\ closing[h] = "open"
  /\ closing' = [closing EXCEPT ![h] = "done"]
  /\ UNCHANGED <<cur, made, replacing, shut, taken, reading, queue, owner, stopped>>

\* Faulty: the current handle is forgotten, whichever is being closed.
DetachAny(h) ==
  /\ closing[h] = "done"
  /\ closing' = [closing EXCEPT ![h] = "closed"]
  /\ cur' = 0
  /\ UNCHANGED <<made, replacing, shut, taken, reading, queue, owner, stopped>>

Detach(h) ==
  /\ closing[h] = "done"
  /\ closing' = [closing EXCEPT ![h] = "closed"]
  /\ cur' = IF cur = h THEN 0 ELSE cur
  /\ UNCHANGED <<made, replacing, shut, taken, reading, queue, owner, stopped>>

\* Faulty: the old handle is left to its transport.
CloseOldNever == FALSE /\ UNCHANGED vars
CloseOld == replacing # 0 /\ CloseDone(replacing)

HandleReturns ==
  /\ replacing # 0 /\ closing[replacing] = "closed"
  /\ replacing' = 0
  /\ UNCHANGED <<cur, made, closing, shut, taken, reading, queue, owner, stopped>>

\* Shared.Close(): by the engine's teardown, or by the reader on a read error.
ShutTake ==
  /\ shut = "open"
  /\ shut' = "taken" /\ taken' = cur /\ cur' = 0
  /\ UNCHANGED <<made, closing, replacing, reading, queue, owner, stopped>>

CloseTaken == shut = "taken" /\ taken # 0 /\ CloseDone(taken)

ShutDevice ==
  /\ shut = "taken" /\ (taken # 0 => closing[taken] = "closed")
  /\ shut' = "closed"
  /\ UNCHANGED <<cur, made, closing, replacing, taken, reading, queue, owner, stopped>>

\* The device's Read fails: its own error begins Shared.Close(), or joins it.
ReadError ==
  /\ reader = "read" /\ shut = "closed"
  /\ reader' = "exit"
  /\ UNCHANGED <<handles, to, next, given, era, queue, owner, stopped>>

-----------------------------------------------------------------------------
\* Handle.Read(): a queued packet and a closed channel are taken at random.
Read(h) ==
  /\ ~stopped[h] /\ queue[h] # <<>>
  /\ owner' = [owner EXCEPT ![Head(queue[h])] = h]
  /\ queue' = [queue EXCEPT ![h] = Tail(queue[h])]
  /\ UNCHANGED <<handles, reading, stopped>>

ReadClosed(h) ==
  /\ ~stopped[h] /\ closing[h] # "open"
  /\ stopped' = [stopped EXCEPT ![h] = TRUE]
  /\ UNCHANGED <<handles, reading, queue, owner>>

\* A transport that fails by itself reads no more and leaves its handle open.
Quit(h) ==
  /\ ~stopped[h]
  /\ stopped' = [stopped EXCEPT ![h] = TRUE]
  /\ UNCHANGED <<handles, reading, queue, owner>>

Reader == DeviceRead \/ Pick \/ Send \/ BatchDone \/ ReadError
Closers == CloseOld \/ HandleReturns \/ CloseTaken \/ ShutDevice
Transport(h) == CloseDone(h) \/ Read(h) \/ ReadClosed(h) \/ Quit(h)

Next ==
  \/ Reader \/ Handle \/ ShutTake \/ Closers
  \/ \E h \in Made : Detach(h) \/ Transport(h)

Spec == Init /\ [][Next]_vars

\* Goroutines that are ready run: a Close that has begun ends, and a Read whose
\* channel is closed returns in the end.  Nobody is obliged to begin one.
FairSpec ==
  /\ Spec
  /\ WF_vars(Closers)
  /\ \A h \in Handles : WF_vars(h \in Made /\ Detach(h)) /\ WF_vars(h \in Made /\ ReadClosed(h))

-----------------------------------------------------------------------------
\* tunshare.go:110-111, 223-225: a replaced handle that is closed late, by the
\* engine or by its own transport, does not cut the newest handle off.
NewestIsCurrent ==
  shut = "open" /\ made # 0 /\ closing[made] = "open" => cur = made

\* tunshare.go:3-7: "the old transport would carry off every other packet of
\* the new one": no packet read after a handle was made goes to an older one.
Promise == INSTANCE TunPromise WITH
             Packets <- Packets, MaxHandles <- MaxHandles, BatchSize <- BatchSize,
             made <- made, given <- given, era <- era,
             owner <- owner, stopped <- stopped
KeepsPromise == Promise!Spec

\* tunshare.go:7, tunshare_test.go "old handle must be closed": the Read of a
\* replaced handle ends though its transport never closes it (h2.go:267), and
\* so does that of the handle which was current when the TUN was closed.
Retired(h) == h < made \/ (shut # "open" /\ h = taken)
HandoverEnds == \A h \in Handles : Retired(h) ~> stopped[h]
=============================================================================
