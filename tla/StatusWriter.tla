---------------------------- MODULE StatusWriter ----------------------------
(***************************************************************************)
(* The rate-limited writer of /var/run status.json used by z2k-warpd       *)
(* (z2k-warpd/internal/status/status.go).                                  *)
(*                                                                         *)
(* Write, Flush and Remove are called by the engine; a deferred value is   *)
(* written by the goroutine that time.AfterFunc starts.  All four hold     *)
(* w.mu for their whole body, so each is one action.  What the mutex does  *)
(* not order is the time between a timer going off and its goroutine       *)
(* getting the mutex: a timer is "armed", then "fired" (its goroutine      *)
(* waits for w.mu, Timer.Stop no longer has any effect), then free again.  *)
(*                                                                         *)
(* Time is kept as ages: sinceLast is now - w.last and left[t] what is     *)
(* left of timer t.  Both saturate, so the state space is finite without   *)
(* a bound on the length of a run.                                         *)
(***************************************************************************)
EXTENDS Naturals, FiniteSets

CONSTANTS
  Status,        \* the values the engine publishes
  Nil,           \* no file / no pending value / no timer
  Timers,        \* identities of runtime timers: bounds the goroutines in flight
  MinInterval    \* w.MinInterval in ticks

ASSUME StatusWriterAssumption ==
  /\ MinInterval \in Nat \ {0}
  /\ Nil \notin Status \cup Timers

VARIABLES
  sinceLast,   \* now - w.last, saturated at MinInterval
  pending,     \* w.pending
  timer,       \* w.timer
  armed,       \* runtime timers that have not gone off
  fired,       \* timers whose goroutine waits for w.mu
  left,        \* time left of each armed timer
  file,        \* status.json on disk
  latest,      \* history: the last value given to Write since Remove
  early,       \* history: a rate-limited write came before MinInterval
  prompt,      \* history: no goroutine of a due timer was kept waiting
  written      \* history: no write to the disk has failed

history == <<latest, early, prompt, written>>
vars == <<sinceLast, pending, timer, armed, fired, left, file, history>>

TypeOK ==
  /\ sinceLast \in 0..MinInterval
  /\ pending \in Status \cup {Nil}
  /\ timer \in Timers \cup {Nil}
  /\ armed \in SUBSET Timers
  /\ fired \in SUBSET Timers
  /\ left \in [Timers -> 0..MinInterval]
  /\ file \in Status \cup {Nil}
  /\ latest \in Status \cup {Nil}
  /\ early \in BOOLEAN /\ prompt \in BOOLEAN /\ written \in BOOLEAN

Init ==
  /\ sinceLast = MinInterval      \* w.last is the zero time
  /\ pending = Nil
  /\ timer = Nil
  /\ armed = {} /\ fired = {}
  /\ left = [t \in Timers |-> 0]
  /\ file = Nil
  /\ latest = Nil
  /\ early = FALSE /\ prompt = TRUE /\ written = TRUE

-----------------------------------------------------------------------------
\* The atomic replacement of the file: all or nothing, the old one on error.
Replace(s) == \/ file' = s /\ written' = written
              \/ file' = file /\ written' = FALSE

\* A caller gets the mutex, or time passes: is a goroutine kept waiting?
Overtakes ==
  prompt' = (prompt /\ fired = {} /\ \A t \in armed : left[t] > 0)

\* Write, interval over: straight to disk.  w.pending is left as it is.
WriteNow(s) ==
  /\ Overtakes
  /\ sinceLast >= MinInterval
  /\ sinceLast' = 0
  /\ latest' = s
  /\ Replace(s)
  /\ UNCHANGED <<pending, timer, armed, fired, left, early>>

\* Faulty: the first deferred value is kept, not the last.
WriteIgnored(s) ==
  /\ Overtakes
  /\ sinceLast < MinInterval
  /\ timer # Nil
  /\ latest' = s
  /\ UNCHANGED <<sinceLast, pending, timer, armed, fired, left, file, early, written>>

\* Faulty: each Write postpones the timer, as a debounce would.
WriteDebounced(s) ==
  /\ Overtakes
  /\ sinceLast < MinInterval
  /\ timer # Nil
  /\ pending' = s
  /\ latest' = s
  /\ left' = [left EXCEPT ![timer] = MinInterval]
  /\ UNCHANGED <<sinceLast, timer, armed, fired, file, early, written>>

\* Write inside the interval with a timer already set: replaces the value.
WriteDeferred(s) ==
  /\ Overtakes
  /\ sinceLast < MinInterval
  /\ timer # Nil
  /\ pending' = s
  /\ latest' = s
  /\ UNCHANGED <<sinceLast, timer, armed, fired, left, file, early, written>>

\* Faulty: the timer is set one tick short of the interval.
WriteArmingEarly(s) ==
  /\ Overtakes
  /\ sinceLast < MinInterval
  /\ timer = Nil
  /\ \E t \in Timers \ (armed \cup fired) :
       /\ timer' = t
       /\ armed' = armed \cup {t}
       /\ left' = [left EXCEPT ![t] = MinInterval - sinceLast - 1]
  /\ pending' = s
  /\ latest' = s
  /\ UNCHANGED <<sinceLast, fired, file, early, written>>

\* Write inside the interval, no timer: time.AfterFunc(MinInterval - elapsed).
WriteArming(s) ==
  /\ Overtakes
  /\ sinceLast < MinInterval
  /\ timer = Nil
  /\ \E t \in Timers \ (armed \cup fired) :
       /\ timer' = t
       /\ armed' = armed \cup {t}
       /\ left' = [left EXCEPT ![t] = MinInterval - sinceLast]
  /\ pending' = s
  /\ latest' = s
  /\ UNCHANGED <<sinceLast, fired, file, early, written>>

\* The runtime: the timer goes off and its goroutine starts.
TimerFires(t) ==
  /\ t \in armed
  /\ left[t] = 0
  /\ armed' = armed \ {t}
  /\ fired' = fired \cup {t}
  /\ UNCHANGED <<sinceLast, pending, timer, left, file, history>>

\* The goroutine has the mutex.  It clears w.timer whichever timer that is.
FlushPending(t) ==
  /\ t \in fired
  /\ fired' = fired \ {t}
  /\ timer' = Nil
  /\ pending' = Nil
  /\ IF pending = Nil
       THEN UNCHANGED <<sinceLast, file, early, written>>
       ELSE /\ Replace(pending)
            /\ sinceLast' = 0
            /\ early' = (early \/ sinceLast < MinInterval)
  /\ UNCHANGED <<armed, left, latest, prompt>>

\* Timer.Stop: an armed timer never goes off, a fired one is not recalled.
StopTimer ==
  /\ armed' = armed \ {timer}
  /\ timer' = Nil
  /\ UNCHANGED <<fired, left>>

\* Faulty: the value is written but stays pending.
FlushKeepsPending ==
  /\ Overtakes
  /\ StopTimer
  /\ IF pending = Nil
       THEN UNCHANGED <<sinceLast, file, written>>
       ELSE Replace(pending) /\ sinceLast' = 0
  /\ UNCHANGED <<pending, latest, early>>

Flush ==
  /\ Overtakes
  /\ StopTimer
  /\ pending' = Nil
  /\ IF pending = Nil
       THEN UNCHANGED <<sinceLast, file, written>>
       ELSE Replace(pending) /\ sinceLast' = 0
  /\ UNCHANGED <<latest, early>>

\* Faulty: only the file is removed, the deferred value is left to its timer.
RemoveFileOnly ==
  /\ Overtakes
  /\ file' = Nil
  /\ latest' = Nil
  /\ UNCHANGED <<sinceLast, pending, timer, armed, fired, left, early, written>>

Remove ==
  /\ Overtakes
  /\ StopTimer
  /\ pending' = Nil
  /\ file' = Nil
  /\ latest' = Nil
  /\ UNCHANGED <<sinceLast, early, written>>

\* Faulty: the age of the last write is not bounded by the interval.
TickUnbounded ==
  /\ Overtakes
  /\ sinceLast <= MinInterval
  /\ sinceLast' = sinceLast + 1
  /\ left' = [t \in Timers |-> IF left[t] > 0 THEN left[t] - 1 ELSE 0]
  /\ UNCHANGED <<pending, timer, armed, fired, file, latest, early, written>>

\* Time passes.
Tick ==
  /\ Overtakes
  /\ sinceLast' = IF sinceLast < MinInterval THEN sinceLast + 1 ELSE sinceLast
  /\ left' = [t \in Timers |-> IF left[t] > 0 THEN left[t] - 1 ELSE 0]
  /\ UNCHANGED <<pending, timer, armed, fired, file, latest, early, written>>

Next ==
  \/ \E s \in Status : WriteNow(s) \/ WriteDeferred(s) \/ WriteArming(s)
  \/ \E t \in Timers : TimerFires(t) \/ FlushPending(t)
  \/ Flush
  \/ Remove
  \/ Tick

\* The clock advances, a due timer goes off and its goroutine gets the mutex.
\* Nothing is assumed of the callers.
Fairness ==
  /\ WF_vars(Tick)
  /\ \A t \in Timers : WF_vars(TimerFires(t)) /\ WF_vars(FlushPending(t))

Spec == Init /\ [][Next]_vars
FairSpec == Spec /\ Fairness

-----------------------------------------------------------------------------
\* A deferred value is never stranded: while there is one, w.timer is set to a
\* timer that is still to go off or whose goroutine is on its way.  Holds
\* although a late goroutine clears a w.timer that is not its own.
PendingHasTimer ==
  pending # Nil => timer \in armed \cup fired

\* status.go:51-52, "the last one always wins": once nothing is waiting to be
\* written, the file holds the newest value given to Write.  It does so while
\* the disk works and goroutines get the mutex in time; one that comes late
\* writes an older value over what Write has put there directly.
LastWins ==
  prompt /\ written /\ latest # Nil /\ pending = Nil => file = latest

\* status.go:51, "writes the status no more often than MinInterval": the timer
\* never writes before the interval since the previous write is over, as long as
\* no goroutine is late.
RateLimited == prompt => ~early

\* After Remove (the daemon has stopped) no goroutine of an earlier Write
\* brings the file back: it stays away until the next Write.
RemoveIsFinal == latest = Nil => file = Nil /\ pending = Nil

\* status.go:51-52, "the deferred value gets there all the same": whatever the
\* callers do, however often they replace it, a deferred value leaves w.pending,
\* for the disk or because Remove discards it.
DeferredArrives == (pending # Nil) ~> (pending = Nil)
=============================================================================
