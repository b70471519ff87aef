------------------------ MODULE HealthMonitorProofs ------------------------
(***************************************************************************)
(* Theorems about HealthMonitor, for all periods and limits.               *)
(*                                                                         *)
(* The monitor implements SessionHealth, the promise Engine is built on.   *)
(* Each branch of Assess maps to one step of SessionHealth by what its     *)
(* probe does: a completed proof and trusted traffic confirm, a probe that *)
(* is skipped, passed or failed in vain doubts, the last failure kills.    *)
(*                                                                         *)
(* That death is confirmed and proof is earned rests on the counters being *)
(* true counts: fails of the newest outcomes are failures (FailRow), and   *)
(* of an unproven session successes of them are successes, spaced by       *)
(* ProveEvery (SuccessRow).  Both speak of the history outcomes, which the *)
(* code does not keep.                                                     *)
(*                                                                         *)
(* That a dead path is found and a good one proven in time rests on Pace:  *)
(* a path has been as it is for at most one pause for each probe counted   *)
(* since, and the time since the last probe.  The counters do not know     *)
(* when the path changed, which only helps: what they count is no less.    *)
(***************************************************************************)
EXTENDS HealthMonitor, TLAPS, SequenceTheorems

\* A probe in a session that lives confirms it, doubts it or kills it.
LEMMA ProbeMaps ==
  ASSUME NEW rx, MayAssess, Probe(rx)
  PROVE  Session!Confirm \/ Session!Doubts \/ Session!Die
<1> USE DEF MayAssess, Session!Live, Session!Confirm, Session!Doubts, Session!Die
<1>1. CASE ProbeSkipped(rx)
  BY <1>1 DEF ProbeSkipped
<1>2. CASE ProbePasses
  BY <1>2 DEF ProbePasses
<1>3. CASE ProbeFails(rx)
  BY <1>3 DEF ProbeFails
<1> QED
  BY <1>1, <1>2, <1>3 DEF Probe

\* The branches of Assess that probe, and those that do not.
LEMMA AssessMaps == Assess => Session!Next
<1> SUFFICES ASSUME Assess PROVE Session!Next
  OBVIOUS
<1> USE DEF Session!Next
<1>1. CASE AssessError
  BY <1>1 DEF AssessError, MayAssess, monitor, Session!Live, Session!Die
<1>2. CASE AssessDisconnected \/ AssessUnproven \/ AssessCheck \/ AssessDoubt
  BY <1>2, ProbeMaps DEF AssessDisconnected, AssessUnproven, AssessCheck, AssessDoubt
<1>3. CASE AssessTraffic
  BY <1>3 DEF AssessTraffic, MayAssess, Session!Live, Session!Confirm
<1> QED
  BY <1>1, <1>2, <1>3 DEF Assess

\* health.go:60-61, 108-149, for all periods and limits: "alive" is only said of
\* a proven session, proof is never taken back, "dead" ends the session.
THEOREM Refinement == Spec => ImplementsSessionHealth
<1>1. Init => Session!Init
  BY DEF Init, Session!Init
<1>2. ASSUME Next PROVE Session!Next \/ UNCHANGED Session!sessionVars
  <2>1. CASE Assess
    BY <2>1, AssessMaps
  <2>2. CASE Tick
    BY <2>2 DEF Tick, Session!sessionVars
  <2>3. CASE Reset
    BY <2>3 DEF Reset, Session!Next, Session!Reset
  <2> QED
    BY <1>2, <2>1, <2>2, <2>3 DEF Next
<1>3. ASSUME UNCHANGED vars PROVE UNCHANGED Session!sessionVars
  BY <1>3 DEF vars, monitor, Session!sessionVars
<1> QED
  BY <1>1, <1>2, <1>3, PTL DEF Spec, ImplementsSessionHealth, Session!Spec

-----------------------------------------------------------------------------
\* The newest outcomes are failures, as many as fails says.
FailRow ==
  /\ fails <= Len(outcomes)
  /\ \A i \in 1..Len(outcomes) : i <= fails => ~outcomes[i].ok

\* Of an unproven session the newest outcomes are spaced successes.
SuccessRow ==
  ~proven =>
    /\ successes < ConfirmSuccesses
    /\ successes <= Len(outcomes)
    /\ \A i \in 1..Len(outcomes) :
         /\ i <= successes => outcomes[i].ok
         /\ i < successes => outcomes[i].spaced
    /\ successes > 0 => probeAge # Never

\* Dead is said of too many failures or of an error, and of nothing else.
DeadByCount == IF fails >= Fails THEN verdict = "dead" ELSE verdict = "dead" => sessionErr

IInv == TypeOK /\ FailRow /\ SuccessRow /\ DeadByCount

\* The limits are positive, the bounds of the model large enough for them.
LEMMA Bounds ==
  /\ Fails \in Nat \ {0} /\ ConfirmSuccesses \in Nat \ {0}
  /\ ProveEvery \in Nat \ {0} /\ CheckEvery \in Nat \ {0} /\ Doubt \in Nat \ {0}
  /\ MaxPathAge \in Nat /\ Never \notin Int
  /\ MaxAge \in Nat \ {0} /\ Memory \in Nat \ {0}
  /\ Fails <= Memory /\ ConfirmSuccesses <= Memory
  /\ \A age \in 0..MaxAge : Older(age) \in 0..MaxAge
  BY HealthAssumption DEF MaxAge, Memory, Upper, Older, Lower

\* A probe puts its outcome in front of those before it.
LEMMA Remembered ==
  ASSUME TypeOK, NEW ok \in BOOLEAN, Remember(ok)
  PROVE  /\ outcomes' \in Seq(Outcome)
         /\ Len(outcomes) \in Nat /\ Len(outcomes') \in Nat \ {0}
         /\ Len(outcomes') <= Len(outcomes) + 1 /\ Len(outcomes') <= Memory
         /\ Len(outcomes') = Len(outcomes) + 1 \/ Len(outcomes') = Memory
         /\ outcomes'[1].ok = ok
         /\ outcomes'[1].spaced = (probeAge # Never /\ probeAge >= ProveEvery)
         /\ \A i \in 2..Len(outcomes') : outcomes'[i] = outcomes[i - 1]
<1> DEFINE sp == probeAge # Never /\ probeAge >= ProveEvery
           new == [ok |-> ok, spaced |-> sp]
           all == <<new>> \o outcomes
           n == Lower(Len(outcomes) + 1, Memory)
<1>1. new \in Outcome
  BY DEF Outcome
<1>2. outcomes \in Seq(Outcome) /\ Len(outcomes) \in Nat
  BY LenProperties DEF TypeOK
<1>3. <<new>> \in Seq(Outcome) /\ Len(<<new>>) = 1 /\ <<new>>[1] = new
  BY <1>1
<1> HIDE DEF new
<1>4. /\ all \in Seq(Outcome) /\ Len(all) = Len(outcomes) + 1
      /\ \A i \in 1..(Len(outcomes) + 1) :
           all[i] = IF i <= 1 THEN <<new>>[i] ELSE outcomes[i - 1]
  BY <1>2, <1>3, ConcatProperties
<1> HIDE DEF all
<1>5. n \in Nat /\ 1 <= n /\ n <= Len(outcomes) + 1
  BY <1>2, Bounds DEF Lower
<1>6. \A i \in 1..n : all[i] \in Outcome
  BY <1>4, <1>5, ElementOfSeq
<1> HIDE DEF n
<1>7. /\ SubSeq(all, 1, n) \in Seq(Outcome)
      /\ Len(SubSeq(all, 1, n)) = n
      /\ \A i \in 1..n : SubSeq(all, 1, n)[i] = all[i]
  BY <1>5, <1>6, SubSeqProperties
<1>8. outcomes' = SubSeq(all, 1, n)
  BY DEF Remember, all, n, new
<1>9. outcomes'[1] = new
  BY <1>3, <1>4, <1>5, <1>7, <1>8
<1>10. \A i \in 2..Len(outcomes') : outcomes'[i] = outcomes[i - 1]
  BY <1>2, <1>4, <1>5, <1>7, <1>8
<1>11. /\ Len(outcomes') \in Nat \ {0}
       /\ Len(outcomes') <= Len(outcomes) + 1 /\ Len(outcomes') <= Memory
       /\ Len(outcomes') = Len(outcomes) + 1 \/ Len(outcomes') = Memory
  BY <1>2, <1>7, <1>8, Bounds DEF n, Lower
<1>12. new.ok = ok /\ new.spaced = sp
  BY DEF new
<1>13. outcomes'[1].ok = ok /\ outcomes'[1].spaced = sp
  BY <1>9, <1>12, Zenon
<1> QED
  BY <1>2, <1>7, <1>8, <1>10, <1>11, <1>13, Zenon

-----------------------------------------------------------------------------
\* Nothing was probed yet.
LEMMA InitInv == Init => IInv
<1> SUFFICES ASSUME Init PROVE IInv
  OBVIOUS
<1> USE Bounds
<1>1. outcomes \in Seq(Outcome) /\ Len(outcomes) = 0
  BY EmptySeq DEF Init
<1>2. TypeOK
  <2>1. /\ seen \in BOOLEAN /\ proven \in BOOLEAN /\ due \in BOOLEAN
        /\ sessionErr \in BOOLEAN
        /\ verdict \in {"alive", "doubtful", "dead"}
        /\ path \in {"up", "down", "flaky"}
    BY DEF Init
  <2>2. /\ fails \in 0..Fails /\ successes \in 0..ConfirmSuccesses
        /\ probeAge \in 0..MaxAge \cup {Never} /\ rxAge \in 0..MaxAge
        /\ pathAge \in 0..MaxPathAge
    BY DEF Init
  <2> QED
    BY <1>1, <2>1, <2>2 DEF TypeOK
<1>3. FailRow /\ SuccessRow /\ DeadByCount
  BY <1>1 DEF Init, FailRow, SuccessRow, DeadByCount
<1> QED
  BY <1>2, <1>3 DEF IInv

\* A probe that is not made leaves the counters, and says what they say.
LEMMA SkippedInv ==
  ASSUME IInv, NEW rx \in 0..MaxAge, ProbeSkipped(rx), seen' \in BOOLEAN,
         due' \in BOOLEAN, UNCHANGED <<path, pathAge, sessionErr>>
  PROVE  IInv'
<1> USE Bounds
<1>1. TypeOK'
  BY DEF IInv, TypeOK, ProbeSkipped
<1>2. FailRow'
  BY DEF IInv, FailRow, ProbeSkipped
<1>3. SuccessRow'
  BY DEF IInv, SuccessRow, ProbeSkipped
<1>4. DeadByCount'
  BY DEF IInv, DeadByCount, ProbeSkipped
<1> QED
  BY <1>1, <1>2, <1>3, <1>4 DEF IInv

\* A probe that passes ends the row of failures and lengthens that of successes.
LEMMA PassesInv ==
  ASSUME IInv, ProbePasses, seen' \in BOOLEAN,
         due' \in BOOLEAN, UNCHANGED <<path, pathAge, sessionErr>>
  PROVE  IInv'
<1> USE Bounds
<1>0. TypeOK
  BY DEF IInv
<1>1. Remember(TRUE)
  BY DEF ProbePasses
<1>2. /\ outcomes' \in Seq(Outcome)
      /\ Len(outcomes) \in Nat /\ Len(outcomes') \in Nat \ {0}
      /\ Len(outcomes') <= Len(outcomes) + 1 /\ Len(outcomes') <= Memory
      /\ Len(outcomes') = Len(outcomes) + 1 \/ Len(outcomes') = Memory
      /\ outcomes'[1].ok
      /\ probeAge # Never /\ probeAge >= ProveEvery => outcomes'[1].spaced
      /\ \A i \in 2..Len(outcomes') : outcomes'[i] = outcomes[i - 1]
  BY <1>0, <1>1, Remembered
<1>3. /\ Len(outcomes) \in Nat /\ Len(outcomes') \in Nat
      /\ Len(outcomes') <= Len(outcomes) + 1
  BY <1>2
<1>4. TypeOK'
  <2>1. proven' \in BOOLEAN /\ verdict' \in {"alive", "doubtful", "dead"}
    BY <1>0 DEF TypeOK, ProbePasses
  <2>2. fails' \in 0..Fails /\ successes' \in 0..ConfirmSuccesses
    BY <1>0 DEF TypeOK, ProbePasses, Lower
  <2>3. probeAge' \in 0..MaxAge \cup {Never} /\ rxAge' \in 0..MaxAge
    BY DEF ProbePasses
  <2>4. outcomes' \in Seq(Outcome) /\ Len(outcomes') <= Memory
    BY <1>2
  <2> QED
    BY <1>0, <2>1, <2>2, <2>3, <2>4 DEF TypeOK
<1>5. FailRow'
  BY <1>2 DEF FailRow, ProbePasses
<1>6. SuccessRow'
  <2> SUFFICES ASSUME ~proven' PROVE SuccessRow!2'
    BY DEF SuccessRow
  <2>1. ~proven /\ successes + 1 < ConfirmSuccesses /\ successes' = successes + 1
    BY <1>0 DEF TypeOK, ProbePasses, Lower
  <2>2. /\ successes <= Len(outcomes) /\ successes \in Nat
        /\ \A i \in 1..Len(outcomes) :
             /\ i <= successes => outcomes[i].ok
             /\ i < successes => outcomes[i].spaced
        /\ successes > 0 => probeAge # Never
    BY <1>0, <2>1 DEF IInv, SuccessRow, TypeOK
  <2>3. successes > 0 => probeAge >= ProveEvery
    BY <1>0, <2>1, <2>2 DEF ProbePasses, TooEarly, ProbeEvery, TypeOK
  <2>4. successes' <= Len(outcomes')
    BY <1>2, <2>1, <2>2
  <2>5. ASSUME NEW i \in 1..Len(outcomes')
        PROVE  /\ i <= successes' => outcomes'[i].ok
               /\ i < successes' => outcomes'[i].spaced
    <3>1. CASE i = 1
      BY <1>2, <2>1, <2>2, <2>3, <3>1
    <3>2. CASE i # 1
      <4>1. i \in 2..Len(outcomes') /\ i - 1 \in 1..Len(outcomes)
        BY <1>3, <3>2
      <4>2. outcomes'[i] = outcomes[i - 1]
        BY <1>2, <4>1, Zenon
      <4>3. /\ i <= successes' => i - 1 <= successes
            /\ i < successes' => i - 1 < successes
        <5>1. successes \in Nat /\ successes' = successes + 1 /\ i \in Nat
          BY <2>1, <2>2, <4>1
        <5> QED
          BY <5>1
      <4>4. /\ i - 1 <= successes => outcomes[i - 1].ok
            /\ i - 1 < successes => outcomes[i - 1].spaced
        BY <2>2, <4>1, Zenon
      <4> QED
        BY <4>2, <4>3, <4>4, Zenon
    <3> QED
      BY <3>1, <3>2
  <2>6. probeAge' # Never
    BY DEF ProbePasses
  <2> QED
    BY <2>1, <2>4, <2>5, <2>6
<1>7. DeadByCount'
  BY DEF DeadByCount, ProbePasses
<1> QED
  BY <1>4, <1>5, <1>6, <1>7 DEF IInv

\* A probe that fails lengthens the row of failures and ends that of successes.
LEMMA FailsInv ==
  ASSUME IInv, NEW rx \in 0..MaxAge, ProbeFails(rx), verdict # "dead",
         seen' \in BOOLEAN, due' \in BOOLEAN,
         UNCHANGED <<path, pathAge, sessionErr>>
  PROVE  IInv'
<1> USE Bounds
<1>0. TypeOK
  BY DEF IInv
<1>1. Remember(FALSE)
  BY DEF ProbeFails
<1>2. /\ outcomes' \in Seq(Outcome)
      /\ Len(outcomes) \in Nat /\ Len(outcomes') \in Nat \ {0}
      /\ Len(outcomes') <= Len(outcomes) + 1 /\ Len(outcomes') <= Memory
      /\ Len(outcomes') = Len(outcomes) + 1 \/ Len(outcomes') = Memory
      /\ ~outcomes'[1].ok
      /\ \A i \in 2..Len(outcomes') : outcomes'[i] = outcomes[i - 1]
  BY <1>0, <1>1, Remembered
<1>3. fails < Fails /\ fails \in Nat /\ fails' = fails + 1
  BY <1>0 DEF IInv, DeadByCount, TypeOK, ProbeFails
<1>4. TypeOK'
  <2>1. proven' \in BOOLEAN /\ verdict' \in {"alive", "doubtful", "dead"}
    BY <1>0 DEF TypeOK, ProbeFails
  <2>2. fails' \in 0..Fails /\ successes' \in 0..ConfirmSuccesses
    BY <1>3 DEF ProbeFails
  <2>3. probeAge' \in 0..MaxAge \cup {Never} /\ rxAge' \in 0..MaxAge
    BY DEF ProbeFails
  <2> QED
    BY <1>0, <1>2, <2>1, <2>2, <2>3 DEF TypeOK
<1>5. FailRow'
  <2>1. /\ fails <= Len(outcomes)
        /\ \A i \in 1..Len(outcomes) : i <= fails => ~outcomes[i].ok
    BY DEF IInv, FailRow
  <2>2. fails' <= Len(outcomes')
    BY <1>2, <1>3, <2>1
  <2>3. ASSUME NEW i \in 1..Len(outcomes'), i <= fails'
        PROVE  ~outcomes'[i].ok
    <3>1. CASE i = 1
      BY <1>2, <3>1
    <3>2. CASE i # 1
      <4>1. i \in 2..Len(outcomes') /\ i - 1 \in 1..Len(outcomes) /\ i - 1 <= fails
        BY <1>2, <1>3, <2>3, <3>2
      <4>2. outcomes'[i] = outcomes[i - 1] /\ ~outcomes[i - 1].ok
        BY <1>2, <2>1, <4>1, Zenon
      <4> QED
        BY <4>2, Zenon
    <3> QED
      BY <3>1, <3>2
  <2> QED
    BY <2>2, <2>3 DEF FailRow
<1>6. SuccessRow'
  BY <1>2 DEF SuccessRow, ProbeFails
<1>7. DeadByCount'
  BY <1>3 DEF IInv, DeadByCount, ProbeFails
<1> QED
  BY <1>4, <1>5, <1>6, <1>7 DEF IInv

\* Every branch of Assess keeps the rows.
LEMMA AssessInv == IInv /\ Assess => IInv'
<1> SUFFICES ASSUME IInv, Assess PROVE IInv'
  OBVIOUS
<1> USE Bounds
<1>0. /\ TypeOK /\ verdict # "dead" /\ due' \in BOOLEAN
      /\ rxAge \in 0..MaxAge /\ BaseRx \in 0..MaxAge
      /\ UNCHANGED <<path, pathAge>>
  <2>1. TypeOK /\ rxAge \in 0..MaxAge /\ BaseRx \in 0..MaxAge
    BY DEF IInv, TypeOK, BaseRx
  <2>2. due' \in BOOLEAN /\ UNCHANGED <<path, pathAge>>
    BY DEF Assess
  <2>3. verdict # "dead"
    BY DEF Assess, AssessError, AssessDisconnected, AssessUnproven, AssessCheck,
           AssessTraffic, AssessDoubt, MayAssess
  <2> QED
    BY <2>1, <2>2, <2>3
<1>1. ASSUME NEW rx \in 0..MaxAge, Probe(rx), seen' \in BOOLEAN,
             UNCHANGED sessionErr
      PROVE  IInv'
  BY <1>0, <1>1, SkippedInv, PassesInv, FailsInv DEF Probe
<1>2. CASE AssessDisconnected
  BY <1>0, <1>1, <1>2 DEF AssessDisconnected, TypeOK
<1>3. CASE AssessUnproven
  BY <1>0, <1>1, <1>3 DEF AssessUnproven
<1>4. CASE AssessCheck
  BY <1>0, <1>1, <1>4 DEF AssessCheck
<1>5. CASE AssessDoubt
  BY <1>0, <1>1, <1>5 DEF AssessDoubt, TypeOK
<1>6. CASE AssessError
  <2>1. TypeOK'
    BY <1>0, <1>6 DEF AssessError, monitor, TypeOK
  <2>2. FailRow' /\ SuccessRow' /\ DeadByCount'
    BY <1>6 DEF IInv, AssessError, monitor, FailRow, SuccessRow, DeadByCount
  <2> QED
    BY <2>1, <2>2 DEF IInv
<1>7. CASE AssessTraffic
  <2>1. TypeOK'
    <3>1. rxAge' \in 0..MaxAge
      BY <1>0, <1>7 DEF AssessTraffic
    <3>2. /\ seen' \in BOOLEAN /\ verdict' \in {"alive", "doubtful", "dead"}
          /\ UNCHANGED <<proven, fails, successes, probeAge, sessionErr, outcomes>>
      BY <1>7 DEF AssessTraffic
    <3> QED
      BY <1>0, <3>1, <3>2 DEF TypeOK
  <2>2. FailRow' /\ SuccessRow'
    BY <1>7 DEF IInv, AssessTraffic, FailRow, SuccessRow
  <2>3. DeadByCount'
    BY <1>0, <1>7 DEF IInv, AssessTraffic, DeadByCount
  <2> QED
    BY <2>1, <2>2, <2>3 DEF IInv
<1> QED
  BY <1>2, <1>3, <1>4, <1>5, <1>6, <1>7 DEF Assess

\* Time passes, or the transport is opened anew.
LEMMA TickInv == IInv /\ Tick => IInv'
<1> SUFFICES ASSUME IInv, Tick PROVE IInv'
  OBVIOUS
<1> USE Bounds
<1>1. TypeOK'
  <2>1. probeAge' \in 0..MaxAge \cup {Never} /\ rxAge' \in 0..MaxAge
    BY DEF IInv, TypeOK, Tick
  <2>2. pathAge' \in 0..MaxPathAge
    BY DEF IInv, TypeOK, Tick, Lower
  <2> QED
    BY <2>1, <2>2 DEF IInv, TypeOK, Tick
<1>2. probeAge # Never => probeAge' # Never
  BY DEF IInv, TypeOK, Tick
<1>3. FailRow' /\ SuccessRow' /\ DeadByCount'
  BY <1>2 DEF IInv, Tick, FailRow, SuccessRow, DeadByCount
<1> QED
  BY <1>1, <1>3 DEF IInv

LEMMA ResetInv == IInv /\ Reset => IInv'
<1> SUFFICES ASSUME IInv, Reset PROVE IInv'
  OBVIOUS
<1> USE Bounds
<1>1. outcomes' \in Seq(Outcome) /\ Len(outcomes') = 0
  BY EmptySeq DEF Reset
<1>2. TypeOK'
  <2>1. /\ seen' \in BOOLEAN /\ proven' \in BOOLEAN /\ due' \in BOOLEAN
        /\ sessionErr' \in BOOLEAN
        /\ verdict' \in {"alive", "doubtful", "dead"}
        /\ path' \in {"up", "down", "flaky"}
    BY DEF IInv, TypeOK, Reset
  <2>2. /\ fails' \in 0..Fails /\ successes' \in 0..ConfirmSuccesses
        /\ probeAge' \in 0..MaxAge \cup {Never} /\ rxAge' \in 0..MaxAge
        /\ pathAge' \in 0..MaxPathAge
    BY DEF Reset
  <2> QED
    BY <1>1, <2>1, <2>2 DEF TypeOK
<1>3. FailRow' /\ SuccessRow' /\ DeadByCount'
  BY <1>1 DEF Reset, FailRow, SuccessRow, DeadByCount
<1> QED
  BY <1>2, <1>3 DEF IInv

\* IInv is an inductive invariant of the monitor.
THEOREM Inductive == Spec => []IInv
<1>1. IInv /\ Next => IInv'
  BY AssessInv, TickInv, ResetInv DEF Next
<1>2. IInv /\ UNCHANGED vars => IInv'
  BY DEF IInv, TypeOK, FailRow, SuccessRow, DeadByCount, vars, monitor
<1> QED
  BY InitInv, <1>1, <1>2, PTL DEF Spec

\* Type correctness: the counters and the history stay within their bounds.
THEOREM TypeCorrect == Spec => []TypeOK
<1>1. IInv => TypeOK
  BY DEF IInv
<1> QED
  BY Inductive, <1>1, PTL

\* health.go:184-189, for every number of failures and all periods: no single
\* lost probe and no pause in the traffic kills a session.
THEOREM DeathIsConfirmed == Spec => []DeadIsConfirmed
<1>1. ASSUME IInv, verdict = "dead", ~sessionErr
      PROVE  /\ Len(outcomes) >= Fails
             /\ \A i \in 1..Fails : ~outcomes[i].ok
  <2>1. fails >= Fails
    BY <1>1 DEF IInv, DeadByCount
  <2>2. /\ fails <= Len(outcomes)
        /\ \A i \in 1..Len(outcomes) : i <= fails => ~outcomes[i].ok
    BY <1>1 DEF IInv, FailRow
  <2>3. Len(outcomes) \in Nat /\ fails \in Nat /\ Fails \in Nat
    BY <1>1, Bounds, LenProperties DEF IInv, TypeOK
  <2>4. Len(outcomes) >= Fails
    BY <2>1, <2>2, <2>3
  <2>5. ASSUME NEW i \in 1..Fails PROVE ~outcomes[i].ok
    <3>1. i \in 1..Len(outcomes) /\ i <= fails
      BY <2>1, <2>3, <2>4
    <3> QED
      BY <2>2, <3>1, Zenon
  <2> QED
    BY <2>4, <2>5
<1>2. IInv => DeadIsConfirmed
  BY <1>1 DEF DeadIsConfirmed
<1> QED
  BY Inductive, <1>2, PTL

\* health.go:87-99, 171-183: a session is proven by ConfirmSuccesses successes in
\* a row, each at least ProveEvery after the one before, and in no other way.
THEOREM ProofIsEarned == Spec => ProvenIsEarned
<1> DEFINE Earned ==
      ~proven /\ proven' =>
        /\ Len(outcomes') >= ConfirmSuccesses
        /\ \A i \in 1..ConfirmSuccesses : outcomes'[i].ok
        /\ \A i \in 1..(ConfirmSuccesses - 1) : outcomes'[i].spaced
<1> USE Bounds
<1>1. ASSUME IInv, Next, ~proven, proven' PROVE Earned
  <2>0. TypeOK
    BY <1>1 DEF IInv
  <2>1. ProbePasses
    BY <1>1 DEF Next, Assess, AssessError, AssessDisconnected, AssessUnproven,
              AssessCheck, AssessTraffic, AssessDoubt, Tick, Reset, Probe,
              ProbeSkipped, ProbeFails, monitor
  <2>2. Remember(TRUE) /\ successes + 1 >= ConfirmSuccesses
    BY <1>1, <2>1 DEF ProbePasses
  <2>3. /\ outcomes' \in Seq(Outcome)
        /\ Len(outcomes) \in Nat /\ Len(outcomes') \in Nat \ {0}
        /\ Len(outcomes') <= Len(outcomes) + 1 /\ Len(outcomes') <= Memory
        /\ Len(outcomes') = Len(outcomes) + 1 \/ Len(outcomes') = Memory
        /\ outcomes'[1].ok
        /\ probeAge # Never /\ probeAge >= ProveEvery => outcomes'[1].spaced
        /\ \A i \in 2..Len(outcomes') : outcomes'[i] = outcomes[i - 1]
    BY <2>0, <2>2, Remembered
  <2>4. /\ successes = ConfirmSuccesses - 1 /\ successes <= Len(outcomes)
        /\ \A i \in 1..Len(outcomes) :
             /\ i <= successes => outcomes[i].ok
             /\ i < successes => outcomes[i].spaced
        /\ successes > 0 => probeAge # Never
    BY <1>1, <2>0, <2>2 DEF IInv, SuccessRow, TypeOK
  <2>5. successes > 0 => probeAge >= ProveEvery
    BY <1>1, <2>0, <2>1, <2>4 DEF ProbePasses, TooEarly, ProbeEvery, TypeOK
  <2>6. Len(outcomes') >= ConfirmSuccesses
    BY <2>3, <2>4
  <2>7. /\ Len(outcomes) \in Nat /\ Len(outcomes') \in Nat
        /\ Len(outcomes') <= Len(outcomes) + 1
        /\ successes = ConfirmSuccesses - 1
    BY <2>3, <2>4
  <2>8. ASSUME NEW i \in 1..ConfirmSuccesses
        PROVE  /\ outcomes'[i].ok
               /\ i <= ConfirmSuccesses - 1 => outcomes'[i].spaced
    <3>1. CASE i = 1
      BY <2>3, <2>4, <2>5, <3>1
    <3>2. CASE i # 1
      <4>1. /\ i \in 2..Len(outcomes') /\ i - 1 \in 1..Len(outcomes)
            /\ i - 1 <= successes
            /\ i <= ConfirmSuccesses - 1 => i - 1 < successes
        BY <2>6, <2>7, <3>2
      <4>2. outcomes'[i] = outcomes[i - 1]
        BY <2>3, <4>1, Zenon
      <4>3. /\ outcomes[i - 1].ok
            /\ i - 1 < successes => outcomes[i - 1].spaced
        BY <2>4, <4>1, Zenon
      <4> QED
        BY <4>1, <4>2, <4>3, Zenon
    <3> QED
      BY <3>1, <3>2
  <2> QED
    BY <2>6, <2>8
<1>2. ASSUME UNCHANGED vars PROVE Earned
  BY <1>2 DEF vars, monitor
<1>3. IInv /\ [Next]_vars => Earned
  BY <1>1, <1>2
<1> QED
  BY Inductive, <1>3, PTL DEF Spec, ProvenIsEarned

-----------------------------------------------------------------------------
\* A session that was never probed is new, or has failed by its own error.
Unprobed ==
  probeAge = Never => ~proven /\ pathAge = 0 /\ (due \/ sessionErr)

\* An error ends the session in the same Assess.
ErrorIsFatal == sessionErr => verdict = "dead"

\* No probe is put off: the last one is no older than the pause allows, and once
\* an Assess has returned it is younger.
ProbedInTime ==
  probeAge # Never /\ ~sessionErr =>
    /\ probeAge <= ProbeEvery
    /\ ~due => probeAge < ProbeEvery

\* While nothing gets through, each failure accounts for one pause.
DownPace ==
  path = "down" /\ verdict # "dead" /\ probeAge # Never =>
    pathAge <= fails * ProbeEvery + probeAge

\* While everything gets through, each success does.
UpPace ==
  path = "up" /\ ~proven /\ ~sessionErr /\ probeAge # Never =>
    pathAge <= successes * ProveEvery + probeAge

Pace == Unprobed /\ ErrorIsFatal /\ ProbedInTime /\ DownPace /\ UpPace

\* One pause more: the products Pace speaks of.
LEMMA OnePauseMore ==
  ASSUME NEW k \in Nat, NEW e \in Nat
  PROVE  k * e \in Nat /\ (k + 1) * e = k * e + e
OBVIOUS

\* Fewer pauses than the limit leave room for one more.
LEMMA PausesBelow ==
  ASSUME NEW n \in Nat, NEW k \in Nat, NEW e \in Nat, k < n
  PROVE  k * e + e <= n * e
<1> DEFINE r == n - (k + 1)
<1>1. r \in Nat /\ n = (k + 1) + r
  OBVIOUS
<1>2. n * e = (k + 1) * e + r * e /\ r * e \in Nat
  BY <1>1
<1> QED
  BY <1>2, OnePauseMore

\* The values Pace relates, as numbers.
LEMMA Numbers ==
  ASSUME TypeOK
  PROVE  /\ fails \in Nat /\ successes \in Nat /\ pathAge \in Nat
         /\ probeAge # Never => probeAge \in Nat
         /\ ProbeEvery \in Nat \ {0} /\ ProbeEvery <= MaxAge
         /\ ProveEvery \in Nat \ {0} /\ proven \in BOOLEAN
         /\ 0 # Never
  BY Bounds DEF TypeOK, ProbeEvery, MaxAge, Upper

\* The pace after an Assess that probed, or found it too early to.
LEMMA ProbePace ==
  ASSUME IInv, Pace, MayAssess, NEW rx, Probe(rx), due' = FALSE,
         UNCHANGED <<path, pathAge, sessionErr>>
  PROVE  Pace'
<1> USE Numbers
<1>0. TypeOK /\ ~sessionErr /\ due /\ verdict # "dead"
  BY DEF IInv, Pace, ErrorIsFatal, MayAssess
<1>1. CASE ProbeSkipped(rx)
  <2>1. /\ probeAge # Never /\ probeAge < ProbeEvery
        /\ UNCHANGED <<proven, fails, successes, probeAge>>
    BY <1>1 DEF ProbeSkipped, TooEarly
  <2>2. ProbeEvery' = ProbeEvery
    BY <2>1 DEF ProbeEvery
  <2>3. Unprobed' /\ ErrorIsFatal'
    BY <1>0, <2>1 DEF Unprobed, ErrorIsFatal
  <2>4. ProbedInTime'
    BY <1>0, <2>1, <2>2 DEF ProbedInTime
  <2>5. DownPace' /\ UpPace'
    BY <1>0, <2>1, <2>2 DEF Pace, DownPace, UpPace
  <2> QED
    BY <2>3, <2>4, <2>5 DEF Pace
<1>2. CASE ProbePasses
  <2>0. /\ path # "down" /\ probeAge' = 0
        /\ successes' = Lower(successes + 1, ConfirmSuccesses)
    BY <1>2 DEF ProbePasses
  <2>1. ~proven' => ~proven /\ ~(successes + 1 >= ConfirmSuccesses)
    BY <1>2, Zenon DEF ProbePasses
  <2>2. ProbeEvery' \in Nat \ {0}
    BY Bounds DEF ProbeEvery
  <2>3. Unprobed' /\ ErrorIsFatal' /\ ProbedInTime' /\ DownPace'
    BY <1>0, <2>0, <2>2 DEF Unprobed, ErrorIsFatal, ProbedInTime, DownPace
  <2>4. ASSUME path = "up", ~proven' PROVE pathAge <= successes' * ProveEvery + 0
    <3>1. successes' = successes + 1
      BY <1>0, <2>0, <2>1, <2>4, Bounds DEF Lower
    <3>2. CASE probeAge = Never
      BY <1>0, <3>1, <3>2, OnePauseMore DEF Pace, Unprobed
    <3>3. CASE probeAge # Never
      <4>1. probeAge <= ProveEvery
        BY <1>0, <2>1, <2>4, <3>3 DEF Pace, ProbedInTime, ProbeEvery
      <4>2. pathAge <= successes * ProveEvery + probeAge
        BY <1>0, <2>1, <2>4, <3>3 DEF Pace, UpPace
      <4> QED
        BY <1>0, <3>1, <3>3, <4>1, <4>2, OnePauseMore
    <3> QED
      BY <3>2, <3>3
  <2>5. UpPace'
    BY <2>0, <2>4 DEF UpPace
  <2> QED
    BY <2>3, <2>5 DEF Pace
<1>3. CASE ProbeFails(rx)
  <2>1. /\ path \in {"down", "flaky"} /\ probeAge' = 0 /\ fails' = fails + 1
        /\ UNCHANGED proven
    BY <1>3 DEF ProbeFails
  <2>2. ProbeEvery' = ProbeEvery
    BY <2>1 DEF ProbeEvery
  <2>3. Unprobed' /\ ErrorIsFatal' /\ ProbedInTime' /\ UpPace'
    BY <1>0, <2>1, <2>2 DEF Unprobed, ErrorIsFatal, ProbedInTime, UpPace
  <2>4. ASSUME path = "down" PROVE pathAge <= fails' * ProbeEvery + 0
    <3>1. CASE probeAge = Never
      BY <1>0, <2>1, <3>1, OnePauseMore DEF Pace, Unprobed
    <3>2. CASE probeAge # Never
      <4>1. probeAge <= ProbeEvery
        BY <1>0, <3>2 DEF Pace, ProbedInTime
      <4>2. pathAge <= fails * ProbeEvery + probeAge
        BY <1>0, <2>4, <3>2 DEF Pace, DownPace
      <4> QED
        BY <1>0, <2>1, <3>2, <4>1, <4>2, OnePauseMore
    <3> QED
      BY <3>1, <3>2
  <2>5. DownPace'
    BY <2>1, <2>2, <2>4 DEF DownPace
  <2> QED
    BY <2>3, <2>5 DEF Pace
<1> QED
  BY <1>1, <1>2, <1>3 DEF Probe

\* An Assess that trusts the traffic does so only between two checks.
LEMMA AssessPace == IInv /\ Pace /\ Assess => Pace'
<1> SUFFICES ASSUME IInv, Pace, Assess PROVE Pace'
  OBVIOUS
<1>0. /\ TypeOK /\ due' = FALSE /\ UNCHANGED <<path, pathAge>>
  BY DEF IInv, Assess
<1>1. CASE AssessDisconnected \/ AssessUnproven \/ AssessCheck \/ AssessDoubt
  BY <1>0, <1>1, ProbePace
     DEF AssessDisconnected, AssessUnproven, AssessCheck, AssessDoubt
<1>2. CASE AssessError
  <2>1. /\ sessionErr' /\ verdict' = "dead" /\ due
        /\ UNCHANGED <<proven, fails, successes, probeAge>>
    BY <1>2 DEF AssessError, MayAssess, monitor
  <2> QED
    BY <1>0, <2>1 DEF Pace, Unprobed, ErrorIsFatal, ProbedInTime, DownPace, UpPace
<1>3. CASE AssessTraffic
  <2>1. /\ proven /\ probeAge < CheckEvery /\ verdict' # "dead" /\ verdict # "dead"
        /\ UNCHANGED <<proven, fails, successes, probeAge, sessionErr>>
    BY <1>3 DEF AssessTraffic, MayAssess
  <2>2. probeAge # Never /\ ~sessionErr
    BY <2>1 DEF Pace, Unprobed, ErrorIsFatal
  <2>3. ProbeEvery = CheckEvery /\ ProbeEvery' = ProbeEvery
    BY <2>1 DEF ProbeEvery
  <2> QED
    BY <1>0, <2>1, <2>2, <2>3, Numbers
       DEF Pace, Unprobed, ErrorIsFatal, ProbedInTime, DownPace, UpPace
<1> QED
  BY <1>1, <1>2, <1>3 DEF Assess

\* A tick ages the path and the last probe alike; a path that has changed is new.
LEMMA TickPace == IInv /\ Pace /\ Tick => Pace'
<1> SUFFICES ASSUME IInv, Pace, Tick PROVE Pace'
  OBVIOUS
<1> USE Numbers
<1>0. /\ TypeOK /\ ~sessionErr /\ ~due /\ due' /\ verdict # "dead"
      /\ UNCHANGED <<proven, fails, successes, verdict, sessionErr>>
  BY DEF IInv, Pace, ErrorIsFatal, Tick
<1>1. probeAge # Never /\ probeAge < ProbeEvery
  BY <1>0 DEF Pace, Unprobed, ProbedInTime
<1>2. probeAge' = probeAge + 1 /\ ProbeEvery' = ProbeEvery /\ probeAge' # Never
  BY <1>0, <1>1, Bounds DEF Tick, Older, Lower, ProbeEvery
<1>3. pathAge' \in Nat /\ pathAge' <= pathAge + 1 /\ (path' # path => pathAge' = 0)
  BY <1>0, Bounds DEF Tick, Lower
<1>4. Unprobed' /\ ErrorIsFatal'
  BY <1>0, <1>2 DEF Unprobed, ErrorIsFatal
<1>5. ProbedInTime'
  BY <1>0, <1>1, <1>2 DEF ProbedInTime
<1>6. DownPace'
  <2>1. fails * ProbeEvery \in Nat
    BY <1>0, OnePauseMore
  <2> QED
    BY <1>0, <1>1, <1>2, <1>3, <2>1 DEF Pace, DownPace
<1>7. UpPace'
  <2>1. successes * ProveEvery \in Nat
    BY <1>0, OnePauseMore
  <2> QED
    BY <1>0, <1>1, <1>2, <1>3, <2>1 DEF Pace, UpPace
<1> QED
  BY <1>4, <1>5, <1>6, <1>7 DEF Pace

\* The pace is kept in every session.
THEOREM PaceKept == Spec => []Pace
<1> USE DEF Pace, Unprobed, ErrorIsFatal, ProbedInTime, DownPace, UpPace
<1>1. Init => Pace
  BY DEF Init
<1>2. IInv /\ Pace /\ Next => Pace'
  <2>1. Reset => Pace'
    BY DEF Reset
  <2> QED
    BY <2>1, AssessPace, TickPace DEF Next
<1>3. Pace /\ UNCHANGED vars => Pace'
  BY DEF vars, monitor, ProbeEvery
<1> QED
  BY Inductive, <1>1, <1>2, <1>3, PTL DEF Spec

\* health.go:128-131, 165-189, for all periods and limits: a path that carries
\* nothing is found out after Fails probes, whatever the traffic counters say.
THEOREM BlackHoleFound == Spec => []BlackHoleIsFound
<1>1. ASSUME IInv, Pace, path = "down", ~due, verdict # "dead"
      PROVE  pathAge < Fails * ProbeEvery
  <2>1. TypeOK /\ ~sessionErr
    BY <1>1 DEF IInv, Pace, ErrorIsFatal
  <2>2. probeAge # Never /\ probeAge < ProbeEvery
    BY <1>1, <2>1 DEF Pace, Unprobed, ProbedInTime
  <2>3. pathAge <= fails * ProbeEvery + probeAge
    BY <1>1, <2>2 DEF Pace, DownPace
  <2>4. fails < Fails /\ Fails \in Nat
    BY <1>1, <2>1, Bounds DEF IInv, DeadByCount, TypeOK
  <2>5. fails * ProbeEvery + ProbeEvery <= Fails * ProbeEvery
    BY <2>1, <2>4, Numbers, PausesBelow
  <2>6. fails * ProbeEvery \in Nat /\ Fails * ProbeEvery \in Nat
    BY <2>1, <2>4, Numbers, OnePauseMore
  <2> QED
    BY <2>1, <2>2, <2>3, <2>5, <2>6, Numbers
<1>2. IInv /\ Pace => BlackHoleIsFound
  <2> SUFFICES ASSUME IInv, Pace, path = "down", ~due, verdict # "dead"
               PROVE  ~(pathAge >= Fails * ProbeEvery)
    BY DEF BlackHoleIsFound, ProbeEvery
  <2>1. Fails * ProbeEvery \in Nat /\ pathAge \in Nat
    BY Bounds, Numbers, OnePauseMore DEF IInv
  <2> QED
    BY <1>1, <2>1
<1> QED
  BY Inductive, PaceKept, <1>2, PTL

\* health.go:156-183, engine.go:239-240, for all periods and limits: a path that
\* carries everything is proven after ConfirmSuccesses probes.
THEOREM GoodPathProven == Spec => []GoodPathIsProven
<1>1. ASSUME IInv, Pace, path = "up", ~due, ~proven, ~sessionErr
      PROVE  ~(pathAge >= ConfirmSuccesses * ProveEvery)
  <2>1. TypeOK /\ ProbeEvery = ProveEvery
    BY <1>1 DEF IInv, ProbeEvery
  <2>2. probeAge # Never /\ probeAge < ProveEvery
    BY <1>1, <2>1 DEF Pace, Unprobed, ProbedInTime
  <2>3. pathAge <= successes * ProveEvery + probeAge
    BY <1>1, <2>2 DEF Pace, UpPace
  <2>4. successes < ConfirmSuccesses /\ ConfirmSuccesses \in Nat
    BY <1>1, Bounds DEF IInv, SuccessRow
  <2>5. successes * ProveEvery + ProveEvery <= ConfirmSuccesses * ProveEvery
    BY <2>1, <2>4, Numbers, PausesBelow
  <2>6. successes * ProveEvery \in Nat /\ ConfirmSuccesses * ProveEvery \in Nat
    BY <2>1, <2>4, Numbers, OnePauseMore
  <2> QED
    BY <2>1, <2>2, <2>3, <2>5, <2>6, Numbers
<1>2. IInv /\ Pace => GoodPathIsProven
  BY <1>1 DEF GoodPathIsProven
<1> QED
  BY Inductive, PaceKept, <1>2, PTL
=============================================================================
