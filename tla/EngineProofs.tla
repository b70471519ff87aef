---------------------------- MODULE EngineProofs ----------------------------
(***************************************************************************)
(* Theorems about Engine, for every mode, Cooldown, period and patience:   *)
(* what is reported, remembered and slept, whatever the API, the paths and *)
(* the disk do and wherever the process ends.                              *)
(*                                                                         *)
(* IInv strengthens the three properties so that each step keeps them:     *)
(*   Clock       what Next computes as the wait stays within the Cooldown, *)
(*               because a pass that is not asleep began in the past;      *)
(*   Shown       while the loop is anywhere a session is not in use, the   *)
(*               status says "not ready", and a session shown as ready     *)
(*               has proved itself and is not dead, also while the probe   *)
(*               for WG is under way;                                      *)
(*   Slept       something is left of the wait only in the sleep itself.   *)
(***************************************************************************)
EXTENDS Engine, TLAPS

Clock ==
  /\ rest = 0 /\ passAge # NoPass => passAge >= 0
  /\ rest > 0 => passAge = 0 - rest

InUse == \/ phase \in {"serve", "pause", "restore", "top"}
         \/ phase \in {"switch", "connect"} /\ target = "probe"

Shown == phase # "down" /\ status # Nil /\ status.ready
           => proven /\ verdict # "dead" /\ InUse

Slept == phase # "rest" => rest = 0

IInv == TypeOK /\ Clock /\ Shown /\ LastGoodWasProven /\ Slept

\* The types of what is the engine's own.
LoopTypes ==
  /\ phase \in {"down", "top", "switch", "connect", "serve", "pause",
                "restore", "rest"}
  /\ target \in {"ladder", "probe"}
  /\ forced \in BOOLEAN /\ committed \in BOOLEAN
  /\ upAge \in 0..ProbeUpEvery
  /\ rounds \in 0..Patience

KeyTypes == key \in Keys /\ saved \in Keys /\ server \in Keys

Statuses == [ready : BOOLEAN, step : Steps, err : Errors] \cup {Nil}

ReportTypes ==
  /\ lastErr \in Errors
  /\ lastGood \in Steps \cup {Nil} /\ savedGood \in Steps \cup {Nil}
  /\ status \in Statuses
  /\ net \in [Steps -> Paths] \cup {Nil}
  /\ everProven \subseteq Steps

SessionTypes == proven \in BOOLEAN /\ verdict \in {"alive", "doubtful", "dead"}

-----------------------------------------------------------------------------
\* The type invariant is the ladder's with the parts named above.
LEMMA TypesSplit ==
  TypeOK <=> L!TypeOK /\ SessionTypes /\ LoopTypes /\ KeyTypes /\ ReportTypes
  BY DEF TypeOK, SessionTypes, LoopTypes, KeyTypes, ReportTypes, Statuses

\* A ladder has a step in every mode.
LEMMA Length == N \in Nat \ {0}
  BY EngineAssumption DEF N

\* The periods are intervals of time.
LEMMA Times ==
  /\ Cooldown \in Nat \ {0} /\ NoPass \notin Int
  /\ ProbeUpEvery \in Nat \ {0} /\ Patience \in Nat \ {0}
  BY EngineAssumption

LEMMA Zeros ==
  0 \in Steps /\ 0 \in 0..Cooldown /\ 0 \in 0..ProbeUpEvery /\ 0 \in 0..Patience
  BY Times, Length DEF Steps, L!StepIndex

\* (idx + 1) % len(steps) stays in the ladder (Ladder.Next).
LEMMA NextIdxInRange ==
  ASSUME NEW i \in Steps
  PROVE  (i + 1) % N \in Steps
  BY Length, SMT DEF Steps, L!StepIndex

\* Next called while awake: the ladder stays what it is, and its clock too.
LEMMA LadderMoves ==
  ASSUME L!TypeOK, Clock, rest = 0, L!NextStep \/ L!NextPass
  PROVE  L!TypeOK' /\ Clock' /\ rest' \in Nat
<1> USE Times
<1>1. idx' \in Steps
  BY NextIdxInRange DEF L!TypeOK, L!NextStep, L!NextPass, L!NextIdx, Steps
<1>2. L!Elapsed \in 0..Cooldown
  BY DEF L!TypeOK, Clock, L!Elapsed
<1>3. L!Lasted \in 0..Cooldown
  BY DEF L!TypeOK, L!Lasted
<1>4. tried' \in Steps
  BY Length DEF L!TypeOK, L!NextStep, L!NextPass, L!FullPass, Steps, L!StepIndex
<1>5. attempted' \in SUBSET Steps
  BY DEF L!TypeOK, L!NextStep, L!NextPass, Steps
<1>6. CASE L!NextStep
  <2>1. passAge' \in 0..Cooldown /\ rest' = 0
    BY <1>2, <1>6 DEF L!NextStep
  <2>2. span' \in 0..Cooldown /\ tooSoon' \in BOOLEAN /\ returned' \in BOOLEAN
    BY <1>3, <1>6 DEF L!NextStep, L!TypeOK
  <2> QED
    BY <1>1, <1>4, <1>5, <2>1, <2>2 DEF L!TypeOK, Clock, Steps
<1>7. CASE L!NextPass
  <2>1. L!Wait \in 0..Cooldown
    BY <1>2 DEF L!Wait
  <2>2. passAge' = 0 - rest' /\ rest' \in 0..Cooldown
    BY <1>7, <2>1 DEF L!NextPass
  <2>3. span' \in 0..Cooldown
    BY <1>3, <1>7 DEF L!NextPass
  <2>4. tooSoon' \in BOOLEAN /\ returned' \in BOOLEAN
    BY <1>7 DEF L!NextPass, L!TypeOK
  <2>5. passAge' \in (-Cooldown)..Cooldown
    BY <1>7, <2>1 DEF L!NextPass
  <2>6. rest' \in 0..Cooldown /\ rest' \in Nat
    BY <2>2
  <2>7. L!TypeOK'
    BY <1>1, <1>4, <1>5, <2>3, <2>4, <2>5, <2>6 DEF L!TypeOK, Steps
  <2>8. Clock'
    BY <1>7, <2>1 DEF L!NextPass, Clock
  <2> QED
    BY <2>6, <2>7, <2>8
<1> QED
  BY <1>6, <1>7

\* Time passes: the wait gets shorter by what the pass comes nearer.
LEMMA LadderAges ==
  ASSUME L!TypeOK, Clock, L!Tick
  PROVE  L!TypeOK' /\ Clock' /\ (rest = 0 => rest' = 0)
<1> USE Times
<1>1. rest' \in 0..Cooldown /\ (rest = 0 => rest' = 0)
  BY DEF L!TypeOK, L!Tick
<1>2. passAge' \in (-Cooldown)..Cooldown \cup {NoPass}
  BY DEF L!TypeOK, L!Tick
<1>3. span' \in 0..Cooldown
  BY DEF L!TypeOK, L!Tick
<1>4. tooSoon' \in BOOLEAN
  BY DEF L!TypeOK, L!Tick
<1>5. Clock'
  BY DEF L!TypeOK, L!Tick, Clock
<1> QED
  BY <1>1, <1>2, <1>3, <1>4, <1>5 DEF L!TypeOK, L!Tick

\* Good ends the pass of a ladder that is awake.
LEMMA LadderIsGood ==
  ASSUME L!TypeOK, Clock, rest = 0, L!Good
  PROVE  L!TypeOK' /\ Clock' /\ rest' = rest
<1>1. tried' \in Steps /\ attempted' \in SUBSET Steps
  BY Zeros DEF L!Good
<1>2. passAge' \in (-Cooldown)..Cooldown \cup {NoPass} /\ returned' \in BOOLEAN
  BY DEF L!Good
<1>3. UNCHANGED <<idx, rest, span, tooSoon>>
  BY DEF L!Good
<1>4. L!TypeOK'
  BY <1>1, <1>2, <1>3 DEF L!TypeOK, Steps
<1>5. Clock'
  BY <1>2, <1>3 DEF L!Good, Clock
<1> QED
  BY <1>3, <1>4, <1>5

\* What the parts of the invariant need of a step that leaves the ladder alone.
LEMMA LadderStays ==
  ASSUME IInv, UNCHANGED ladder
  PROVE  L!TypeOK' /\ Clock' /\ (rest = 0 => rest' = 0)
  BY TypesSplit DEF IInv, ladder, L!TypeOK, L!StepIndex, Clock

\* The invariant of the next state from its parts.
LEMMA Assemble ==
  ASSUME L!TypeOK', SessionTypes', LoopTypes', KeyTypes', ReportTypes',
         Clock', Shown', LastGoodWasProven', Slept'
  PROVE  IInv'
  BY DEF IInv, TypeOK, SessionTypes, LoopTypes, KeyTypes, ReportTypes, Statuses

\* A report is a status.
LEMMA ReportIsStatus ==
  ASSUME NEW r \in BOOLEAN, NEW e \in Errors, idx \in Steps
  PROVE  Report(r, e) \in Statuses /\ Report(r, e).ready = r
  BY DEF Report, Statuses

\* What every step starts from.
LEMMA Parts ==
  ASSUME IInv
  PROVE  /\ L!TypeOK /\ SessionTypes /\ LoopTypes /\ KeyTypes /\ ReportTypes
         /\ Clock /\ Shown /\ LastGoodWasProven /\ Slept /\ idx \in Steps
  BY TypesSplit DEF IInv, L!TypeOK, Steps

LEMMA InitInv == Init => IInv
<1> SUFFICES ASSUME Init PROVE IInv
  OBVIOUS
<1>2. L!TypeOK /\ Clock
  <2>1. L!TypeOK
    BY Zeros DEF Init, L!Init, L!TypeOK, Steps
  <2>2. Clock
    BY DEF Init, L!Init, Clock
  <2> QED
    BY <2>1, <2>2
<1>3. SessionTypes /\ KeyTypes
  BY DEF Init, S!Init, SessionTypes, KeyTypes
<1>4. LoopTypes
  BY Zeros DEF Init, LoopTypes
<1>5. ReportTypes
  BY DEF Init, ReportTypes, Statuses, Errors
<1>6. Shown /\ LastGoodWasProven /\ Slept
  BY DEF Init, L!Init, Shown, LastGoodWasProven, Slept
<1> QED
  BY <1>2, <1>3, <1>4, <1>5, <1>6, TypesSplit DEF IInv

\* advance from an awake loop, with the invariant's parts about the ladder, the
\* phase and the status.  The wait is slept in the phase "rest".
LEMMA AdvanceKeeps ==
  ASSUME IInv, rest = 0, NEW reason \in Errors, NEW err \in Errors,
         NEW st \in Statuses, st # Nil => ~st.ready,
         Advance(reason, err, st)
  PROVE  /\ L!TypeOK' /\ Clock' /\ Slept'
         /\ phase' \in {"rest", "top"}
         /\ lastErr' \in Errors
         /\ status' \in Statuses /\ (status' # Nil => ~status'.ready)
<1>1. L!TypeOK' /\ Clock' /\ rest' \in Nat
  BY Parts, LadderMoves DEF Advance
<1>2. idx' \in Steps
  BY <1>1 DEF L!TypeOK, Steps
<1>3. CASE rest' > 0
  <2>1. phase' = "rest" /\ lastErr' = reason
    BY <1>3 DEF Advance
  <2>2. status' = [ready |-> FALSE, step |-> idx', err |-> reason]
    BY <1>3 DEF Advance
  <2>3. status' \in Statuses /\ ~status'.ready
    BY <1>2, <2>2 DEF Statuses
  <2> QED
    BY <1>1, <2>1, <2>3 DEF Slept
<1>4. CASE ~(rest' > 0)
  <2>1. phase' = "top" /\ lastErr' = err /\ status' = st
    BY <1>4 DEF Advance
  <2>2. rest' = 0
    BY <1>1, <1>4
  <2> QED
    BY <1>1, <2>1, <2>2 DEF Slept
<1> QED
  BY <1>3, <1>4

\* An open that failed, for the ladder or for the probe for WG.
LEMMA OpenFailsKeeps ==
  ASSUME IInv, phase \in {"switch", "connect"},
         NEW err \in Errors, NEW st \in Statuses,
         (st # Nil /\ st.ready) => st = status,
         OpenFails(err, st),
         UNCHANGED <<session, committed, upAge, good, net, rounds, everProven>>,
         KeyTypes'
  PROVE  IInv'
<1>1. rest = 0
  BY Parts DEF Slept
<1>2. SessionTypes'
  BY Parts DEF session, SessionTypes
<1>5. target' \in {"ladder", "probe"} /\ forced' \in BOOLEAN
  BY DEF OpenFails, OpenIsOver
<1>3. CASE target = "ladder" /\ Advance("no_endpoint", err, st)
  <2>1. st # Nil => ~st.ready
    BY <1>3, Parts DEF Shown, InUse
  <2>2. "no_endpoint" \in Errors
    BY DEF Errors
  <2>3. /\ L!TypeOK' /\ Clock' /\ Slept'
        /\ phase' \in {"rest", "top"}
        /\ lastErr' \in Errors
        /\ status' \in Statuses /\ (status' # Nil => ~status'.ready)
    BY <1>1, <1>3, <2>1, <2>2, AdvanceKeeps
  <2>4. LoopTypes'
    BY <1>5, <2>3, Parts DEF LoopTypes
  <2>5. ReportTypes'
    BY <2>3, Parts DEF good, ReportTypes
  <2>6. Shown' /\ LastGoodWasProven'
    BY <2>3, Parts DEF Shown, good, LastGoodWasProven
  <2> QED
    BY <1>2, <2>3, <2>4, <2>5, <2>6, Assemble
<1>4. CASE /\ target = "probe"
           /\ phase' = IF key' # "masque" THEN "restore" ELSE "pause"
           /\ lastErr' = err /\ status' = st
           /\ UNCHANGED ladder
  <2>1. L!TypeOK' /\ Clock' /\ rest' = 0
    BY <1>1, <1>4, LadderStays
  <2>2. phase' \in {"restore", "pause"}
    BY <1>4
  <2>3. LoopTypes'
    BY <1>5, <2>2, Parts DEF LoopTypes
  <2>4. ReportTypes'
    BY <1>4, Parts DEF good, ReportTypes
  <2>5. Shown'
    BY <1>4, <2>2, Parts DEF Shown, InUse, session
  <2>6. LastGoodWasProven' /\ Slept'
    BY <2>1, Parts DEF good, LastGoodWasProven, Slept
  <2> QED
    BY <1>2, <2>1, <2>3, <2>4, <2>5, <2>6, Assemble
<1> QED
  BY <1>3, <1>4 DEF OpenFails

-----------------------------------------------------------------------------
\* A step that leaves the ladder, the keys and what is remembered alone, and
\* shows a session as ready only if it was shown so before or none is shown.
LEMMA QuietSteps ==
  ASSUME IInv, phase' # "rest", phase # "rest",
         UNCHANGED <<ladder, session, keys, lastErr, good, net, everProven>>,
         LoopTypes',
         status' \in Statuses,
         status' # Nil /\ status'.ready => status' = status /\ (InUse => InUse'),
         phase # "down"
  PROVE  IInv'
<1>1. rest = 0
  BY Parts DEF Slept
<1>2. L!TypeOK' /\ Clock' /\ rest' = 0
  BY <1>1, LadderStays
<1>3. SessionTypes' /\ KeyTypes'
  BY Parts DEF session, keys, SessionTypes, KeyTypes
<1>4. ReportTypes'
  BY Parts DEF good, ReportTypes
<1>5. Shown' /\ LastGoodWasProven' /\ Slept'
  BY <1>2, Parts DEF Shown, good, LastGoodWasProven, Slept, session
<1> QED
  BY <1>2, <1>3, <1>4, <1>5, Assemble

\* Stop and Crash: what is left is device.json and the server's key.
LEMMA EndsKeeps ==
  ASSUME IInv, ProcessEnds, status' = Nil \/ UNCHANGED status
  PROVE  IInv'
<1>2. L!TypeOK' /\ Clock'
  <2>1. L!TypeOK'
    BY Zeros DEF ProcessEnds, L!TypeOK, Steps
  <2>2. Clock'
    BY DEF ProcessEnds, Clock
  <2> QED
    BY <2>1, <2>2
<1>3. SessionTypes' /\ KeyTypes'
  BY Parts DEF ProcessEnds, S!Reset, SessionTypes, KeyTypes
<1>4. LoopTypes'
  BY Parts, Zeros DEF ProcessEnds, LoopTypes
<1>5. ReportTypes'
  BY Parts DEF ProcessEnds, ReportTypes, Statuses, Errors
<1>6. Shown' /\ LastGoodWasProven' /\ Slept'
  BY Parts DEF ProcessEnds, Shown, LastGoodWasProven, Slept
<1> QED
  BY <1>2, <1>3, <1>4, <1>5, <1>6, Assemble

LEMMA StartKeeps == IInv /\ Start => IInv'
<1> SUFFICES ASSUME IInv, Start PROVE IInv'
  OBVIOUS
<1>1. idx' \in Steps
  <2>1. 0 \in Steps
    BY Length DEF Steps, L!StepIndex
  <2> QED
    BY <2>1, Parts DEF Start, ReportTypes
<1>2. L!TypeOK' /\ Clock'
  BY <1>1, Parts DEF Start, L!TypeOK, Clock, Steps
<1>3. rest' = 0
  BY Parts DEF Start, Slept
<1>4. status' \in Statuses /\ ~status'.ready
  BY <1>1 DEF Start, Statuses, Errors
<1>5. SessionTypes' /\ KeyTypes' /\ LoopTypes'
  BY Parts DEF Start, session, keys, SessionTypes, KeyTypes, LoopTypes
<1>6. ReportTypes'
  BY <1>4, Parts DEF Start, good, ReportTypes
<1>7. Shown' /\ LastGoodWasProven' /\ Slept'
  BY <1>3, <1>4, Parts DEF Start, Shown, good, LastGoodWasProven, Slept
<1> QED
  BY <1>2, <1>5, <1>6, <1>7, Assemble

\* The steps in which only the loop itself moves on.
LEMMA LoopMovesKeep ==
  IInv /\ (TakeStep \/ KeyFits \/ NotEnrolled \/ ProbeUp) => IInv'
<1> SUFFICES ASSUME IInv, TakeStep \/ KeyFits \/ NotEnrolled \/ ProbeUp
             PROVE  IInv'
  OBVIOUS
<1>1. CASE TakeStep
  <2>1. status' \in Statuses /\ ~status'.ready
    BY <1>1, Parts, ReportIsStatus DEF TakeStep, ReportTypes
  <2>2. LoopTypes'
    BY <1>1, Parts DEF TakeStep, LoopTypes
  <2> QED
    BY <1>1, <2>1, <2>2, QuietSteps DEF TakeStep
<1>2. CASE KeyFits
  <2>1. LoopTypes' /\ status' \in Statuses
    BY <1>2, Parts DEF KeyFits, LoopTypes, ReportTypes
  <2>2. InUse => InUse'
    BY <1>2 DEF KeyFits, InUse
  <2> QED
    BY <1>2, <2>1, <2>2, QuietSteps DEF KeyFits
<1>3. CASE NotEnrolled
  <2>1. LoopTypes' /\ status' \in Statuses
    BY <1>3, Parts DEF NotEnrolled, LoopTypes, ReportTypes
  <2>2. InUse => InUse'
    BY <1>3 DEF NotEnrolled, InUse
  <2> QED
    BY <1>3, <2>1, <2>2, QuietSteps DEF NotEnrolled
<1>4. CASE ProbeUp
  <2>1. LoopTypes' /\ status' \in Statuses
    BY <1>4, Parts, Zeros DEF ProbeUp, LoopTypes, ReportTypes
  <2>2. InUse'
    BY <1>4 DEF ProbeUp, InUse
  <2> QED
    BY <1>4, <2>1, <2>2, QuietSteps DEF ProbeUp
<1> QED
  BY <1>1, <1>2, <1>3, <1>4

\* The steps that only change keys, whatever the API and the disk do.
LEMMA KeyStepsKeep ==
  IInv /\ (SwitchSucceeds \/ RestoreSucceeds \/ RestoreFails) => IInv'
<1> SUFFICES ASSUME IInv, SwitchSucceeds \/ RestoreSucceeds \/ RestoreFails
             PROVE  IInv'
  OBVIOUS
<1>1. /\ UNCHANGED <<ladder, session, target, forced, committed, upAge, lastErr,
                     lastGood, status, net, rounds, everProven>>
      /\ savedGood' \in {savedGood, lastGood}
      /\ \/ phase = "switch" /\ phase' = "connect"
         \/ phase = "restore" /\ phase' = "pause"
  BY DEF SwitchSucceeds, RestoreSucceeds, RestoreFails, MustSwitch, Save, good
<1>2. KeyTypes'
  BY Parts DEF SwitchSucceeds, RestoreSucceeds, RestoreFails, KeyTypes, Keys,
               Want, Save, SwitchErrs
<1>3. rest = 0
  BY <1>1, Parts DEF Slept
<1>4. L!TypeOK' /\ Clock' /\ rest' = 0
  BY <1>1, <1>3, LadderStays
<1>5. SessionTypes' /\ LoopTypes' /\ ReportTypes'
  BY <1>1, Parts DEF session, SessionTypes, LoopTypes, ReportTypes
<1>6. Shown' /\ LastGoodWasProven' /\ Slept'
  BY <1>1, <1>4, Parts DEF Shown, InUse, LastGoodWasProven, Slept, session
<1> QED
  BY <1>2, <1>4, <1>5, <1>6, Assemble

\* Every way in which open fails.
LEMMA FailuresKeep ==
  IInv /\ (SwitchFails \/ SwitchRevoked \/ ConnectFails) => IInv'
<1> SUFFICES ASSUME IInv, SwitchFails \/ SwitchRevoked \/ ConnectFails
             PROVE  IInv'
  OBVIOUS
<1>1. lastErr \in Errors /\ status \in Statuses
  BY Parts DEF ReportTypes
<1>2. CASE SwitchFails
  <2>1. KeyTypes'
    BY <1>2, Parts DEF SwitchFails, SwitchErrs, KeyTypes, Keys, Want
  <2> QED
    BY <1>1, <1>2, <2>1, OpenFailsKeeps DEF SwitchFails, MustSwitch
<1>3. CASE SwitchRevoked
  <2>1. KeyTypes'
    BY <1>3, Parts DEF SwitchRevoked, SwitchErrs, KeyTypes, Keys, Want
  <2>2. "device_revoked" \in Errors
    BY DEF Errors
  <2>3. /\ Report(FALSE, "device_revoked") \in Statuses
        /\ ~Report(FALSE, "device_revoked").ready
    BY <2>2, Parts, ReportIsStatus
  <2> QED
    BY <1>3, <2>1, <2>2, <2>3, OpenFailsKeeps DEF SwitchRevoked, MustSwitch
<1>4. CASE ConnectFails
  <2>1. KeyTypes'
    BY <1>4, Parts DEF ConnectFails, keys, KeyTypes
  <2> QED
    BY <1>1, <1>4, <2>1, OpenFailsKeeps DEF ConnectFails
<1> QED
  BY <1>2, <1>3, <1>4

\* A session begins: nothing is shown as ready, for the step was announced.
LEMMA ConnectsKeeps == IInv /\ Connects => IInv'
<1> SUFFICES ASSUME IInv, Connects PROVE IInv'
  OBVIOUS
<1>1. rest = 0
  BY Parts DEF Connects, Slept
<1>2. L!TypeOK' /\ Clock' /\ rest' = 0
  BY <1>1, LadderStays DEF Connects
<1>3. SessionTypes' /\ KeyTypes' /\ ReportTypes'
  BY Parts DEF Connects, S!Reset, keys, good, SessionTypes, KeyTypes, ReportTypes
<1>4. LoopTypes'
  BY Parts, Zeros DEF Connects, OpenIsOver, LoopTypes
<1>5. ~(status # Nil /\ status.ready)
  BY Parts DEF Connects, Shown, InUse
<1>6. Shown' /\ LastGoodWasProven' /\ Slept'
  BY <1>2, <1>5, Parts DEF Connects, Shown, good, LastGoodWasProven, Slept
<1> QED
  BY <1>2, <1>3, <1>4, <1>6, Assemble

\* The probe for WG has succeeded: the session on h2 was alive until then.
LEMMA WGIsBackKeeps == IInv /\ WGIsBack => IInv'
<1> SUFFICES ASSUME IInv, WGIsBack PROVE IInv'
  OBVIOUS
<1>2. L!TypeOK' /\ Clock'
  BY Zeros, Parts DEF WGIsBack, L!Top, L!TypeOK, Clock, Steps
<1>3. rest' = 0
  BY Parts DEF WGIsBack, L!Top, Slept
<1>4. SessionTypes' /\ KeyTypes' /\ LoopTypes' /\ ReportTypes'
  BY Parts, Zeros DEF WGIsBack, OpenIsOver, ServeIsOver, session, keys, good,
                      SessionTypes, KeyTypes, LoopTypes, ReportTypes
<1>5. Shown' /\ LastGoodWasProven' /\ Slept'
  BY <1>3, Parts DEF WGIsBack, Shown, InUse, good, LastGoodWasProven, Slept, session
<1> QED
  BY <1>2, <1>4, <1>5, Assemble

-----------------------------------------------------------------------------
\* The monitor speaks: proven is only ever gained, and the session lives.
LEMMA LivesOn ==
  ASSUME SessionTypes, S!Confirm \/ S!Doubts
  PROVE  SessionTypes' /\ verdict' # "dead"
  BY DEF SessionTypes, S!Confirm, S!Doubts

\* The rounds in which the monitor makes up its mind are bounded.
LEMMA RoundsBounded ==
  ASSUME rounds \in 0..Patience, Decided
  PROVE  rounds' \in 0..Patience
<1>1. CASE rounds' = 0
  BY <1>1, Zeros
<1>2. CASE rounds < Patience /\ rounds' = rounds + 1
  BY <1>2, Times
<1> QED
  BY <1>1, <1>2 DEF Decided

\* A round of serve: ready is what the monitor has proved, and commitGood
\* remembers the step in the round in which it was proved.
LEMMA ServeLivesKeeps == IInv /\ ServeLives => IInv'
<1> SUFFICES ASSUME IInv, ServeLives PROVE IInv'
  OBVIOUS
<1>1. rest = 0
  BY Parts DEF ServeLives, Slept
<1>2. SessionTypes' /\ verdict' # "dead"
  BY Parts, LivesOn DEF ServeLives
<1>3. /\ L!TypeOK' /\ Clock' /\ rest' = 0
      /\ committed' \in BOOLEAN /\ lastErr' \in Errors
      /\ saved' \in Keys
      /\ lastGood' \in Steps \cup {Nil} /\ savedGood' \in Steps \cup {Nil}
      /\ LastGoodWasProven'
  <2>1. CASE ~committed /\ proven'
    <3>1. CommitGood
      BY <2>1 DEF ServeLives
    <3>2. L!TypeOK' /\ Clock' /\ rest' = 0
      <4>1. CASE UNCHANGED ladder
        BY <1>1, <4>1, LadderStays
      <4>2. CASE L!Good
        BY <1>1, <4>2, Parts, LadderIsGood
      <4> QED
        BY <3>1, <4>1, <4>2 DEF CommitGood
    <3>3. committed' \in BOOLEAN /\ lastErr' \in Errors
      BY <3>1 DEF CommitGood, Errors
    <3>4. /\ saved' \in Keys
          /\ lastGood' \in {lastGood, idx} /\ savedGood' \in {savedGood, lastGood'}
      BY <3>1, Parts DEF CommitGood, Save, good, KeyTypes, ServeLives
    <3>5. everProven' = everProven \cup {idx}
      BY <2>1 DEF ServeLives
    <3>6. LastGoodWasProven'
      BY <3>4, <3>5, Parts DEF LastGoodWasProven
    <3>7. lastGood' \in Steps \cup {Nil} /\ savedGood' \in Steps \cup {Nil}
      BY <3>4, Parts DEF ReportTypes
    <3> QED
      BY <3>2, <3>3, <3>4, <3>6, <3>7
  <2>2. CASE ~(~committed /\ proven')
    <3>1. UNCHANGED <<ladder, committed, lastErr, good, saved>>
      BY <2>2 DEF ServeLives
    <3>2. everProven \subseteq everProven'
      BY DEF ServeLives
    <3>3. LastGoodWasProven'
      BY <3>1, <3>2, Parts DEF good, LastGoodWasProven
    <3>4. L!TypeOK' /\ Clock' /\ rest' = 0
      BY <1>1, <3>1, LadderStays
    <3> QED
      BY <3>1, <3>3, <3>4, Parts DEF good, LoopTypes, KeyTypes, ReportTypes
  <2> QED
    BY <2>1, <2>2
<1>4. LoopTypes'
  <2>1. rounds' \in 0..Patience
    BY Parts, RoundsBounded DEF ServeLives, LoopTypes
  <2> QED
    BY <1>3, <2>1, Parts DEF ServeLives, LoopTypes
<1>5. KeyTypes'
  BY <1>3, Parts DEF ServeLives, KeyTypes
<1>6. status' \in Statuses /\ (status' # Nil /\ status'.ready => proven')
  <2>1. proven' \in BOOLEAN
    BY <1>2 DEF SessionTypes
  <2>2. lastErr \in Errors
    BY Parts DEF ReportTypes
  <2> QED
    BY <2>1, <2>2, Parts, ReportIsStatus DEF ServeLives
<1>7. ReportTypes'
  <2>1. everProven' \subseteq Steps
    BY Parts DEF ServeLives, ReportTypes
  <2> QED
    BY <1>3, <1>6, <2>1, Parts DEF ServeLives, ReportTypes
<1>8. Shown'
  BY <1>2, <1>6 DEF Shown, InUse, ServeLives
<1>9. LastGoodWasProven' /\ Slept'
  BY <1>3 DEF Slept
<1> QED
  BY <1>2, <1>3, <1>4, <1>5, <1>7, <1>8, <1>9, Assemble

\* The session is dead: the status says so before the loop goes on.
LEMMA ServeEndsKeeps == IInv /\ ServeEnds => IInv'
<1> SUFFICES ASSUME IInv, ServeEnds PROVE IInv'
  OBVIOUS
<1>1. rest = 0
  BY Parts DEF ServeEnds, Slept
<1>2. PICK reason \in Errors, err \in Errors : Advance(reason, err, Report(FALSE, lastErr))
  <2>1. PICK herr \in BOOLEAN :
          LET err == IF ~herr /\ ~proven THEN "no_transit" ELSE lastErr
              reason == IF err = Nil THEN "no_endpoint" ELSE err
          IN Advance(reason, err, Report(FALSE, lastErr))
    BY DEF ServeEnds
  <2> DEFINE err == IF ~herr /\ ~proven THEN "no_transit" ELSE lastErr
             reason == IF err = Nil THEN "no_endpoint" ELSE err
  <2>2. err \in Errors /\ reason \in Errors
    BY Parts DEF ReportTypes, Errors
  <2>3. Advance(reason, err, Report(FALSE, lastErr))
    BY <2>1
  <2> QED
    BY <2>2, <2>3
<1>3. Report(FALSE, lastErr) \in Statuses /\ ~Report(FALSE, lastErr).ready
  <2>1. lastErr \in Errors
    BY Parts DEF ReportTypes
  <2> QED
    BY <2>1, Parts, ReportIsStatus
<1>4. /\ L!TypeOK' /\ Clock' /\ Slept'
      /\ phase' \in {"rest", "top"}
      /\ lastErr' \in Errors
      /\ status' \in Statuses /\ (status' # Nil => ~status'.ready)
  BY <1>1, <1>2, <1>3, AdvanceKeeps
<1>5. SessionTypes' /\ KeyTypes'
  BY Parts DEF ServeEnds, S!Die, keys, SessionTypes, KeyTypes
<1>6. LoopTypes'
  BY <1>4, Parts, Zeros DEF ServeEnds, ServeIsOver, LoopTypes
<1>7. ReportTypes'
  BY <1>4, Parts DEF ServeEnds, good, ReportTypes
<1>8. Shown' /\ LastGoodWasProven'
  BY <1>4, Parts DEF ServeEnds, Shown, good, LastGoodWasProven
<1> QED
  BY <1>4, <1>5, <1>6, <1>7, <1>8, Assemble

\* Time passes, in a pause, in the sleep, in a handshake.
LEMMA TickKeeps == IInv /\ Tick => IInv'
<1> SUFFICES ASSUME IInv, Tick PROVE IInv'
  OBVIOUS
<1>1. L!TypeOK' /\ Clock' /\ (rest = 0 => rest' = 0)
  BY Parts, LadderAges DEF Tick
<1>2. SessionTypes' /\ KeyTypes' /\ ReportTypes'
  BY Parts DEF Tick, session, keys, good, SessionTypes, KeyTypes, ReportTypes
<1>3. LoopTypes'
  <2>1. upAge' \in 0..ProbeUpEvery
    BY Parts, Times DEF Tick, LoopTypes
  <2> QED
    BY <2>1, Parts DEF Tick, LoopTypes
<1>4. Shown'
  BY Parts DEF Tick, Shown, InUse, session
<1>5. LastGoodWasProven' /\ Slept'
  BY <1>1, Parts DEF Tick, good, LastGoodWasProven, Slept
<1> QED
  BY <1>1, <1>2, <1>3, <1>4, <1>5, Assemble

\* The sleep is over; and the world settles, which the engine does not notice.
LEMMA WakeKeeps == IInv /\ (Wake \/ Settle) => IInv'
<1> SUFFICES ASSUME IInv, Wake \/ Settle PROVE IInv'
  OBVIOUS
<1>1. L!TypeOK' /\ Clock' /\ (rest = 0 => rest' = 0)
  BY LadderStays DEF Wake, Settle
<1>2. SessionTypes' /\ KeyTypes'
  BY Parts DEF Wake, Settle, session, keys, SessionTypes, KeyTypes
<1>3. LoopTypes'
  BY Parts DEF Wake, Settle, LoopTypes
<1>4. net' \in [Steps -> Paths] \cup {Nil}
  <2>1. Nets \subseteq [Steps -> Paths]
    BY EngineAssumption DEF Steps, L!StepIndex, Paths
  <2> QED
    BY <2>1, Parts DEF Wake, Settle, ReportTypes
<1>5. ReportTypes'
  BY <1>4, Parts DEF Wake, Settle, good, ReportTypes
<1>6. Shown' /\ LastGoodWasProven' /\ Slept'
  BY <1>1, Parts DEF Wake, Settle, Shown, InUse, good, LastGoodWasProven, Slept, session
<1> QED
  BY <1>1, <1>2, <1>3, <1>5, <1>6, Assemble

-----------------------------------------------------------------------------
LEMMA NextInv == IInv /\ [Next]_vars => IInv'
<1> SUFFICES ASSUME IInv, [Next]_vars PROVE IInv'
  OBVIOUS
<1>1. CASE Start
  BY <1>1, StartKeeps
<1>2. CASE TakeStep \/ KeyFits \/ NotEnrolled \/ ProbeUp
  BY <1>2, LoopMovesKeep
<1>3. CASE SwitchSucceeds \/ RestoreSucceeds \/ RestoreFails
  BY <1>3, KeyStepsKeep
<1>4. CASE SwitchFails \/ SwitchRevoked \/ ConnectFails
  BY <1>4, FailuresKeep
<1>5. CASE Connects
  BY <1>5, ConnectsKeeps
<1>6. CASE WGIsBack
  BY <1>6, WGIsBackKeeps
<1>7. CASE ServeLives
  BY <1>7, ServeLivesKeeps
<1>8. CASE ServeEnds
  BY <1>8, ServeEndsKeeps
<1>9. CASE Wake \/ Settle
  BY <1>9, WakeKeeps
<1>10. CASE Tick
  BY <1>10, TickKeeps
<1>11. CASE Stop \/ Crash
  BY <1>11, EndsKeeps DEF Stop, Crash
<1>12. CASE UNCHANGED vars
  <2>1. L!TypeOK' /\ Clock' /\ (rest = 0 => rest' = 0)
    BY <1>12, LadderStays DEF vars
  <2>2. SessionTypes' /\ KeyTypes' /\ LoopTypes' /\ ReportTypes'
    BY <1>12, Parts DEF vars, session, keys, good, SessionTypes, KeyTypes, LoopTypes,
                        ReportTypes
  <2>3. Shown' /\ LastGoodWasProven' /\ Slept'
    BY <1>12, <2>1, Parts DEF vars, session, good, Shown, InUse, LastGoodWasProven,
                               Slept
  <2> QED
    BY <2>1, <2>2, <2>3, Assemble
<1> QED
  BY <1>1, <1>2, <1>3, <1>4, <1>5, <1>6, <1>7, <1>8, <1>9, <1>10, <1>11, <1>12
     DEF Next, Loop

\* The invariant of the loop, for every mode and period (Engine.Run).
THEOREM Invariance == Spec => []IInv
  BY InitInv, NextInv, PTL DEF Spec

\* The variables of the loop, of its ladder and of its monitor keep their types
\* whatever fails: the position stays in the ladder and the wait within the
\* Cooldown (ladder.go:332-357).
THEOREM TypeCorrect == Spec => []TypeOK
<1>1. IInv => TypeOK
  BY DEF IInv
<1> QED
  BY <1>1, Invariance, PTL

\* engine.go:408-417: while the engine runs, the status says "ready" only of a
\* session that has proved itself, lives and is in use, in every mode.
THEOREM ReadyIsProven == Spec => []ReadyMeansProven
<1>1. IInv => ReadyMeansProven
  BY Parts DEF Shown, InUse, ReadyMeansProven
<1> QED
  BY <1>1, Invariance, PTL

\* engine.go:309-313: memory and device.json name only a step some session of
\* which was proven, across crashes, probes for WG and saves that fail and are
\* made up for by a later save of something else.
THEOREM MemoryIsEarned == Spec => []LastGoodWasProven
<1>1. IInv => LastGoodWasProven
  BY DEF IInv
<1> QED
  BY <1>1, Invariance, PTL

\* engine.go:291-295: nothing is opened or served before the wait of a full
\* pass is over, for every Cooldown.
THEOREM PauseIsSlept == Spec => []WaitIsSleptOut
<1>1. IInv => WaitIsSleptOut
  BY DEF IInv, Slept, WaitIsSleptOut
<1> QED
  BY <1>1, Invariance, PTL
=============================================================================
