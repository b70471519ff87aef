------------------------- MODULE StatusWriterProofs -------------------------
(***************************************************************************)
(* Theorems about StatusWriter, for any set of status values, any number   *)
(* of timers in flight, late or prompt, and any interval.                  *)
(*                                                                         *)
(* PendingHasTimer holds although a late goroutine clears a w.timer that   *)
(* is not its own, because it clears w.pending in the same critical        *)
(* section: what the invariant needs besides is that w.timer, when set, is *)
(* a timer still armed or fired.  LastWins and RateLimited need a run in   *)
(* which no goroutine was kept waiting (PInv): then the only timer there   *)
(* is is w.timer, and it goes off when the interval is over.               *)
(***************************************************************************)
EXTENDS StatusWriter, TLAPS

TimerIsLive == timer # Nil => timer \in armed \cup fired

PendingIsTimed == pending # Nil <=> timer # Nil

IInv == TypeOK /\ TimerIsLive /\ PendingIsTimed /\ RemoveIsFinal

-----------------------------------------------------------------------------
\* Nothing is pending, no timer is set and there is no file.
LEMMA InitInv == Init => IInv
<1> SUFFICES ASSUME Init PROVE IInv
  OBVIOUS
<1>1. sinceLast \in 0..MinInterval /\ left \in [Timers -> 0..MinInterval]
  BY StatusWriterAssumption DEF Init
<1>2. TypeOK
  BY <1>1 DEF Init, TypeOK
<1>3. TimerIsLive /\ PendingIsTimed /\ RemoveIsFinal
  BY DEF Init, TimerIsLive, PendingIsTimed, RemoveIsFinal
<1> QED
  BY <1>2, <1>3 DEF IInv

\* The history variables stay Boolean.
LEMMA OvertakesBoolean == Overtakes => prompt' \in BOOLEAN
  BY DEF Overtakes

LEMMA ReplaceFile ==
  ASSUME NEW s \in Status, TypeOK, Replace(s)
  PROVE  /\ file' \in Status \cup {Nil}
         /\ written' \in BOOLEAN
  BY DEF Replace, TypeOK

\* What Write does inside and outside the interval.
LEMMA WriteInv ==
  ASSUME IInv, NEW s \in Status, WriteNow(s) \/ WriteDeferred(s) \/ WriteArming(s)
  PROVE  IInv'
<1> USE StatusWriterAssumption DEF IInv, TypeOK, TimerIsLive, PendingIsTimed,
                                   RemoveIsFinal
<1>1. s # Nil
  OBVIOUS
<1>2. CASE WriteNow(s)
  <2>1. file' \in Status \cup {Nil} /\ written' \in BOOLEAN /\ prompt' \in BOOLEAN
    BY <1>2, ReplaceFile, OvertakesBoolean DEF WriteNow
  <2> QED
    BY <1>1, <1>2, <2>1 DEF WriteNow
<1>3. CASE WriteDeferred(s)
  <2>1. prompt' \in BOOLEAN
    BY <1>3, OvertakesBoolean DEF WriteDeferred
  <2> QED
    BY <1>1, <1>3, <2>1 DEF WriteDeferred
<1>4. CASE WriteArming(s)
  <2>1. PICK t \in Timers \ (armed \cup fired) :
          /\ timer' = t
          /\ armed' = armed \cup {t}
          /\ left' = [left EXCEPT ![t] = MinInterval - sinceLast]
    BY <1>4 DEF WriteArming
  <2>2. MinInterval - sinceLast \in 0..MinInterval
    BY <1>4 DEF WriteArming
  <2>3. left' \in [Timers -> 0..MinInterval]
    BY <2>1, <2>2
  <2>4. prompt' \in BOOLEAN
    BY <1>4, OvertakesBoolean DEF WriteArming
  <2> QED
    BY <1>1, <1>4, <2>1, <2>3, <2>4 DEF WriteArming
<1> QED
  BY <1>2, <1>3, <1>4

\* A timer goes off, and its goroutine gets the mutex, in time or late.
LEMMA TimerInv ==
  ASSUME IInv, NEW t \in Timers, TimerFires(t) \/ FlushPending(t)
  PROVE  IInv'
<1> USE StatusWriterAssumption DEF IInv, TypeOK, TimerIsLive, PendingIsTimed,
                                   RemoveIsFinal
<1>1. CASE TimerFires(t)
  BY <1>1 DEF TimerFires, history
<1>2. CASE FlushPending(t)
  <2>1. CASE pending = Nil
    BY <1>2, <2>1 DEF FlushPending
  <2>2. CASE pending # Nil
    <3>1. early' \in BOOLEAN
      BY <1>2, <2>2 DEF FlushPending
    <3>2. file' \in Status \cup {Nil} /\ written' \in BOOLEAN
      BY <1>2, <2>2, ReplaceFile DEF FlushPending
    <3>3. latest' # Nil
      BY <1>2, <2>2 DEF FlushPending
    <3> QED
      BY <1>2, <2>2, <3>1, <3>2, <3>3 DEF FlushPending
  <2> QED
    BY <2>1, <2>2
<1> QED
  BY <1>1, <1>2

\* The shutdown calls and the clock.
LEMMA CallInv ==
  ASSUME IInv, Flush \/ Remove \/ Tick
  PROVE  IInv'
<1> USE StatusWriterAssumption DEF IInv, TypeOK, TimerIsLive, PendingIsTimed,
                                   RemoveIsFinal
<1>1. CASE Flush
  <2>0. prompt' \in BOOLEAN
    BY <1>1, OvertakesBoolean DEF Flush
  <2>1. CASE pending = Nil
    BY <1>1, <2>0, <2>1 DEF Flush, StopTimer
  <2>2. CASE pending # Nil
    <3>1. file' \in Status \cup {Nil} /\ written' \in BOOLEAN
      BY <1>1, <2>2, ReplaceFile DEF Flush
    <3>2. latest' # Nil
      BY <1>1, <2>2 DEF Flush
    <3> QED
      BY <1>1, <2>0, <2>2, <3>1, <3>2 DEF Flush, StopTimer
  <2> QED
    BY <2>1, <2>2
<1>2. CASE Remove
  <2>1. prompt' \in BOOLEAN
    BY <1>2, OvertakesBoolean DEF Remove
  <2> QED
    BY <1>2, <2>1 DEF Remove, StopTimer
<1>3. CASE Tick
  <2>1. left' \in [Timers -> 0..MinInterval]
    BY <1>3 DEF Tick
  <2>2. sinceLast' \in 0..MinInterval
    BY <1>3 DEF Tick
  <2>3. prompt' \in BOOLEAN
    BY <1>3, OvertakesBoolean DEF Tick
  <2> QED
    BY <1>3, <2>1, <2>2, <2>3 DEF Tick
<1> QED
  BY <1>1, <1>2, <1>3

\* IInv is an inductive invariant of the writer.
THEOREM Inductive == Spec => []IInv
<1>1. ASSUME IInv, Next PROVE IInv'
  BY <1>1, WriteInv, TimerInv, CallInv DEF Next
<1>2. ASSUME IInv, UNCHANGED vars PROVE IInv'
  BY <1>2 DEF IInv, TypeOK, TimerIsLive, PendingIsTimed, RemoveIsFinal, vars,
                history
<1> QED
  BY InitInv, <1>1, <1>2, PTL DEF Spec

-----------------------------------------------------------------------------
\* While no goroutine is late: there is no timer but w.timer, it goes off at
\* the end of the interval, and what it will write is the newest value.
OneTimer == armed \cup fired \subseteq {timer} /\ armed \cap fired = {}

AtInterval ==
  /\ \A t \in armed : left[t] = MinInterval - sinceLast
  /\ fired # {} => sinceLast = MinInterval

Newest ==
  IF pending = Nil THEN latest = Nil \/ file = latest ELSE pending = latest

PInv ==
  /\ prompt => OneTimer /\ AtInterval
  /\ RateLimited
  /\ prompt /\ written => Newest

\* Who overtakes nobody meets no goroutine that is due.
LEMMA OvertakesOnTime ==
  ASSUME Overtakes, prompt'
  PROVE  prompt /\ fired = {} /\ \A t \in armed : left[t] > 0
  BY DEF Overtakes

\* Outside the interval nothing is pending; inside, the timer is set for its end.
LEMMA WriteOrdered ==
  ASSUME IInv, PInv, NEW s \in Status,
         WriteNow(s) \/ WriteDeferred(s) \/ WriteArming(s), prompt'
  PROVE  OneTimer' /\ AtInterval' /\ RateLimited' /\ (written' => Newest')
<1> USE StatusWriterAssumption DEF IInv, TypeOK, TimerIsLive, PendingIsTimed,
                                   OneTimer, AtInterval, Newest
<1>1. prompt /\ fired = {} /\ \A t \in armed : left[t] > 0
  BY OvertakesOnTime DEF WriteNow, WriteDeferred, WriteArming
<1>2. OneTimer /\ AtInterval /\ ~early /\ s # Nil
  BY <1>1 DEF PInv, RateLimited
<1>3. RateLimited'
  BY <1>2 DEF RateLimited, WriteNow, WriteDeferred, WriteArming
<1>4. CASE WriteNow(s)
  <2>1. armed = {}
    BY <1>1, <1>2, <1>4 DEF WriteNow
  <2>2. pending = Nil
    BY <1>1, <2>1
  <2>3. OneTimer' /\ AtInterval'
    BY <1>1, <1>4, <2>1 DEF WriteNow
  <2>4. written' => Newest'
    BY <1>4, <2>2 DEF WriteNow, Replace
  <2> QED
    BY <1>3, <2>3, <2>4
<1>5. CASE WriteDeferred(s)
  BY <1>1, <1>2, <1>3, <1>5 DEF WriteDeferred
<1>6. CASE WriteArming(s)
  <2>1. PICK t \in Timers \ (armed \cup fired) :
          /\ timer' = t
          /\ armed' = armed \cup {t}
          /\ left' = [left EXCEPT ![t] = MinInterval - sinceLast]
    BY <1>6 DEF WriteArming
  <2>2. armed = {} /\ fired' = {} /\ sinceLast' = sinceLast
    BY <1>1, <1>2, <1>6 DEF WriteArming
  <2>3. OneTimer' /\ AtInterval'
    BY <2>1, <2>2
  <2>4. Newest'
    BY <1>2, <1>6 DEF WriteArming
  <2> QED
    BY <1>3, <2>3, <2>4
<1> QED
  BY <1>4, <1>5, <1>6

\* The timer goes off when the interval is over, its goroutine writes then.
LEMMA TimerOrdered ==
  ASSUME IInv, PInv, NEW t \in Timers, TimerFires(t) \/ FlushPending(t), prompt'
  PROVE  OneTimer' /\ AtInterval' /\ RateLimited' /\ (written' => Newest')
<1> USE StatusWriterAssumption DEF IInv, TypeOK, TimerIsLive, PendingIsTimed,
                                   OneTimer, AtInterval, Newest
<1>1. prompt
  BY DEF TimerFires, FlushPending, history
<1>2. OneTimer /\ AtInterval /\ ~early
  BY <1>1 DEF PInv, RateLimited
<1>3. CASE TimerFires(t)
  <2>1. OneTimer' /\ AtInterval'
    BY <1>2, <1>3 DEF TimerFires
  <2>2. RateLimited'
    BY <1>2, <1>3 DEF TimerFires, RateLimited, history
  <2>3. written' => Newest
    BY <1>1, <1>3 DEF TimerFires, PInv, history
  <2> QED
    BY <1>3, <2>1, <2>2, <2>3 DEF TimerFires, history
<1>4. CASE FlushPending(t)
  <2>1. armed' = {} /\ fired' = {}
    BY <1>2, <1>4 DEF FlushPending
  <2>2. sinceLast = MinInterval
    BY <1>2, <1>4 DEF FlushPending
  <2>3. RateLimited'
    <3>1. ~(sinceLast < MinInterval)
      BY <2>2
    <3>2. early' = early
      BY <1>4, <3>1 DEF FlushPending
    <3> QED
      BY <1>2, <3>2 DEF RateLimited
  <2>4. CASE pending = Nil
    <3>1. written' => Newest
      BY <1>1, <1>4, <2>4 DEF FlushPending, PInv
    <3> QED
      BY <1>4, <2>1, <2>3, <2>4, <3>1 DEF FlushPending
  <2>5. CASE pending # Nil
    <3>1. ASSUME written' PROVE Newest'
      <4>1. written /\ file' = pending
        BY <1>4, <2>5, <3>1 DEF FlushPending, Replace
      <4>2. pending = latest
        BY <1>1, <2>5, <4>1 DEF PInv
      <4> QED
        BY <1>4, <4>1, <4>2 DEF FlushPending
    <3> QED
      BY <2>1, <2>3, <3>1
  <2> QED
    BY <2>4, <2>5
<1> QED
  BY <1>3, <1>4

\* Flush and Remove leave no timer; the clock brings it nearer.
LEMMA CallOrdered ==
  ASSUME IInv, PInv, Flush \/ Remove \/ Tick, prompt'
  PROVE  OneTimer' /\ AtInterval' /\ RateLimited' /\ (written' => Newest')
<1> USE StatusWriterAssumption DEF IInv, TypeOK, TimerIsLive, PendingIsTimed,
                                   OneTimer, AtInterval, Newest
<1>1. prompt /\ fired = {} /\ \A t \in armed : left[t] > 0
  BY OvertakesOnTime DEF Flush, Remove, Tick
<1>2. OneTimer /\ AtInterval /\ ~early
  BY <1>1 DEF PInv, RateLimited
<1>3. RateLimited'
  BY <1>2 DEF RateLimited, Flush, Remove, Tick
<1>4. CASE Flush
  <2>1. armed' = {} /\ fired' = {}
    BY <1>1, <1>2, <1>4 DEF Flush, StopTimer
  <2>2. CASE pending = Nil
    <3>1. written' => Newest
      BY <1>1, <1>4, <2>2 DEF Flush, PInv
    <3> QED
      BY <1>3, <1>4, <2>1, <2>2, <3>1 DEF Flush
  <2>3. CASE pending # Nil
    <3>1. ASSUME written' PROVE Newest'
      <4>1. written /\ file' = pending
        BY <1>4, <2>3, <3>1 DEF Flush, Replace
      <4>2. pending = latest
        BY <1>1, <2>3, <4>1 DEF PInv
      <4> QED
        BY <1>4, <4>1, <4>2 DEF Flush
    <3> QED
      BY <1>3, <2>1, <3>1
  <2> QED
    BY <2>2, <2>3
<1>5. CASE Remove
  BY <1>1, <1>2, <1>3, <1>5 DEF Remove, StopTimer
<1>6. CASE Tick
  <2>1. OneTimer'
    BY <1>2, <1>6 DEF Tick
  <2>2. AtInterval'
    <3>1. fired' = {}
      BY <1>1, <1>6 DEF Tick
    <3>2. ASSUME NEW t \in armed' PROVE left'[t] = MinInterval - sinceLast'
      <4>1. t \in armed /\ t \in Timers /\ left[t] > 0
        BY <1>1, <1>6 DEF Tick
      <4>2. left[t] = MinInterval - sinceLast
        BY <1>2, <4>1
      <4> QED
        BY <1>6, <4>1, <4>2 DEF Tick
    <3> QED
      BY <3>1, <3>2
  <2>3. written' => Newest
    BY <1>1, <1>6 DEF Tick, PInv
  <2> QED
    BY <1>3, <1>6, <2>1, <2>2, <2>3 DEF Tick
<1> QED
  BY <1>4, <1>5, <1>6

\* PInv is inductive together with IInv.
THEOREM Ordered == Spec => []PInv
<1>1. Init => PInv
  BY DEF Init, PInv, OneTimer, AtInterval, RateLimited, Newest
<1>2. ASSUME IInv, PInv, Next PROVE PInv'
  <2>1. CASE ~prompt'
    BY <2>1 DEF PInv, RateLimited
  <2>2. CASE prompt'
    BY <1>2, <2>2, WriteOrdered, TimerOrdered, CallOrdered DEF Next, PInv
  <2> QED
    BY <2>1, <2>2
<1>3. ASSUME PInv, UNCHANGED vars PROVE PInv'
  BY <1>3 DEF PInv, OneTimer, AtInterval, RateLimited, Newest, vars, history
<1> QED
  BY Inductive, <1>1, <1>2, <1>3, PTL DEF Spec

\* Type correctness.
THEOREM TypeCorrect == Spec => []TypeOK
<1>1. IInv => TypeOK
  BY DEF IInv
<1> QED
  BY Inductive, <1>1, PTL

\* status.go:51-52: a deferred value always has a timer that will write it,
\* whatever the late goroutines of earlier timers do.
THEOREM DeferredIsTimed == Spec => []PendingHasTimer
<1>1. IInv => PendingHasTimer
  BY DEF IInv, TimerIsLive, PendingIsTimed, PendingHasTimer
<1> QED
  BY Inductive, <1>1, PTL

\* status.go:110-120: nothing brings the file back after Remove but a Write.
THEOREM RemovedStaysRemoved == Spec => []RemoveIsFinal
<1>1. IInv => RemoveIsFinal
  BY DEF IInv
<1> QED
  BY Inductive, <1>1, PTL

\* status.go:51-52, "the last one always wins", for any interval and number of
\* timers, while the disk works and no goroutine is late.
THEOREM LastValueWins == Spec => []LastWins
<1>1. PInv => LastWins
  BY DEF PInv, Newest, LastWins
<1> QED
  BY Ordered, <1>1, PTL

\* status.go:51: no timer writes before the interval is over.
THEOREM RateIsLimited == Spec => []RateLimited
<1>1. PInv => RateLimited
  BY DEF PInv
<1> QED
  BY Ordered, <1>1, PTL
=============================================================================
