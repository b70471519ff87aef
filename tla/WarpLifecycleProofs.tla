------------------------- MODULE WarpLifecycleProofs -------------------------
(***************************************************************************)
(* That a press works under the mutation lock, for any set of presses and  *)
(* whatever they are, although each of them gives the lock away for its    *)
(* init script and asks for it again.  HolderWorks is inductive: the lock  *)
(* names one press, so no other is at work when one takes or drops it.     *)
(***************************************************************************)
EXTENDS WarpLifecycle, TLAPS

\* What the init script is asked for is one of its actions, or nothing.
LEMMA ActionIs ==
  ASSUME NEW k, NEW wasOn
  PROVE  ServiceAction(k, wasOn) \in {"none", "defer"} \cup DOMAIN Script
<1>1. DOMAIN Script = {"start", "stop", "restart", "reload"}
  BY DEF Script
<1> QED
  BY <1>1 DEF ServiceAction

\* The steps of a script are steps the scripts have.
LEMMA ScriptIs ==
  /\ Start \in Seq(ScriptSteps) /\ Stop \in Seq(ScriptSteps)
  /\ Stop \o Start \in Seq(ScriptSteps)
  /\ \A action \in DOMAIN Script : Script[action] \in Seq(ScriptSteps)
<1>1. Start \in Seq(ScriptSteps) /\ Stop \in Seq(ScriptSteps)
  BY DEF Start, Stop, ScriptSteps
<1>2. Stop \o Start \in Seq(ScriptSteps)
  BY <1>1
<1>3. <<"health">> \in Seq(ScriptSteps)
  BY DEF ScriptSteps
<1> DEFINE both == Stop \o Start
<1>5. \A action \in DOMAIN Script : Script[action] \in {Start, Stop, both, <<"health">>}
  <2>1. /\ Script.start = Start /\ Script.stop = Stop /\ Script.restart = both
        /\ Script.reload = <<"health">>
        /\ DOMAIN Script = {"start", "stop", "restart", "reload"}
    BY Zenon DEF Script
  <2> HIDE DEF both
  <2> QED
    BY <2>1
<1> QED
  BY <1>1, <1>2, <1>3, <1>5

\* What is left of a script, or what a failure leaves of it, is a script.
LEMMA RestIs ==
  ASSUME NEW s \in Seq(ScriptSteps), s # <<>>
  PROVE  /\ Tail(s) \in Seq(ScriptSteps)
         /\ <<"close">> \in Seq(ScriptSteps)
         /\ <<"eventStop", "close">> \in Seq(ScriptSteps)
  BY DEF ScriptSteps

LEMMA InitInv == Init => TypeOK /\ HolderWorks
<1> SUFFICES ASSUME Init PROVE TypeOK /\ HolderWorks
  OBVIOUS
<1>1. TypeOK
  <2>1. kind \in [Presses -> Kinds]
    BY WarpLifecycleAssumption DEF Init
  <2>2. script \in [Actors -> Seq(ScriptSteps)]
    BY DEF Init
  <2> QED
    BY <2>1, <2>2 DEF Init, TypeOK, Labels
<1>2. HolderWorks
  BY DEF Init, HolderWorks
<1> QED
  BY <1>1, <1>2

-----------------------------------------------------------------------------
\* A press that answers is at work no more, and gives back only its own lock.
LEMMA AnswerInv ==
  ASSUME TypeOK, HolderWorks, NEW o \in Presses, Answer(o, "ok") \/ Answer(o, "failed")
  PROVE  /\ lock' \in Presses \cup {None}
         /\ kind' = kind /\ was' = was
         /\ pc' \in [Presses -> Labels]
         /\ answer' \in [Presses -> {"none", "ok", "failed"}]
         /\ HolderWorks'
  BY WarpLifecycleAssumption DEF Answer, Goto, TypeOK, HolderWorks, Labels

\* A step that leaves the presses and the lock as they are.
LEMMA ElsewhereInv ==
  ASSUME TypeOK, HolderWorks, UNCHANGED <<lock, press, marker, last>>
  PROVE  /\ lock' \in Presses \cup {None} /\ marker' \in Presses \cup {None}
         /\ last' \in Presses \cup {None}
         /\ kind' \in [Presses -> Kinds] /\ pc' \in [Presses -> Labels]
         /\ was' \in [Presses -> BOOLEAN]
         /\ answer' \in [Presses -> {"none", "ok", "failed"}]
         /\ HolderWorks'
  BY DEF TypeOK, HolderWorks, press

\* The types of what belongs to a press and of the rest.
PressTypes ==
  /\ marker \in Presses \cup {None} /\ last \in Presses \cup {None}
  /\ lock \in Presses \cup {None}
  /\ kind \in [Presses -> Kinds]
  /\ pc \in [Presses -> Labels]
  /\ was \in [Presses -> BOOLEAN]
  /\ answer \in [Presses -> {"none", "ok", "failed"}]
SystemTypes ==
  /\ config \in BOOLEAN /\ ready \in BOOLEAN /\ routes \in BOOLEAN /\ claimed \in BOOLEAN
  /\ service \in {"none", "empty", "main"}
  /\ process \in {"absent", "runs", "dying"}
ScriptTypes == script \in [Actors -> Seq(ScriptSteps)]

LEMMA TypesTogether == TypeOK <=> PressTypes /\ SystemTypes /\ ScriptTypes
  BY DEF TypeOK, PressTypes, SystemTypes, ScriptTypes

\* Every step of a press.
LEMMA PressInv ==
  ASSUME TypeOK, HolderWorks, NEW o \in Presses, Work(o) \/ Mishap(o)
  PROVE  TypeOK' /\ HolderWorks'
<1> USE WarpLifecycleAssumption
<1> SUFFICES PressTypes' /\ SystemTypes' /\ ScriptTypes' /\ HolderWorks'
  BY DEF TypeOK, PressTypes, SystemTypes, ScriptTypes
<1>1. CASE Probe(o)
  BY <1>1 DEF Probe, Goto, TypeOK, HolderWorks, PressTypes, SystemTypes, ScriptTypes, Labels, system
<1>2. CASE Begin(o)
  BY <1>2 DEF Begin, Goto, TypeOK, HolderWorks, PressTypes, SystemTypes, ScriptTypes, Labels, system
<1>3. CASE TakeLock(o)
  BY <1>3 DEF TakeLock, Goto, TypeOK, HolderWorks, PressTypes, SystemTypes, ScriptTypes, Labels, system
<1>4. CASE GiveUp(o)
  BY <1>4, AnswerInv DEF GiveUp, TypeOK, PressTypes, SystemTypes, ScriptTypes, system
<1>5. CASE Busy(o)
  BY <1>5, AnswerInv DEF Busy, TypeOK, PressTypes, SystemTypes, ScriptTypes, system
<1>6. CASE Enable(o)
  BY <1>6 DEF Enable, Goto, TypeOK, HolderWorks, PressTypes, SystemTypes, ScriptTypes, Labels, system
<1>7. CASE Disable(o)
  BY <1>7 DEF Disable, Goto, TypeOK, HolderWorks, PressTypes, SystemTypes, ScriptTypes, Labels, system
<1>8. CASE Restart(o)
  <2>1. CASE config
    BY <1>8, <2>1 DEF Restart, Goto, TypeOK, HolderWorks, PressTypes, SystemTypes, ScriptTypes, Labels, system
  <2>2. CASE ~config
    BY <1>8, <2>2, AnswerInv DEF Restart, TypeOK, PressTypes, SystemTypes, ScriptTypes, system
  <2> QED
    BY <2>1, <2>2
<1>9. CASE SyncFails(o)
  BY <1>9, AnswerInv DEF SyncFails, TypeOK, PressTypes, SystemTypes, ScriptTypes, system
<1>10. CASE Unreadable(o)
  BY <1>10, AnswerInv DEF Unreadable, TypeOK, PressTypes, SystemTypes, ScriptTypes, system
<1>11. CASE Transit(o)
  <2> DEFINE action == ServiceAction(kind[o], was[o])
  <2>1. CASE action = "defer"
    <3>1. Answer(o, "failed") /\ UNCHANGED <<config, marker, system, routes, claimed, last, script>>
      BY <1>11, <2>1 DEF Transit, Script
    <3> QED
      BY <3>1, AnswerInv DEF TypeOK, PressTypes, SystemTypes, ScriptTypes, system
  <2>2. CASE action = "none"
    <3>1. Goto(o, "after") /\ pc[o] = "transit"
          /\ UNCHANGED <<config, marker, system, routes, claimed, last, lock, kind, was, answer, script>>
      BY <1>11, <2>2 DEF Transit, Script
    <3> QED
      BY <3>1 DEF Goto, TypeOK, HolderWorks, PressTypes, SystemTypes, ScriptTypes, Labels, system
  <2>3. CASE action \in DOMAIN Script
    <3>1. /\ Goto(o, "init") /\ pc[o] = "transit" /\ lock' = None
          /\ script' = [script EXCEPT ![o] = Script[action]]
          /\ UNCHANGED <<config, marker, system, routes, claimed, last, kind, was, answer>>
      BY <1>11, <2>3 DEF Transit, Script
    <3>2. Script[action] \in Seq(ScriptSteps)
      BY <2>3, ScriptIs
    <3>3. ScriptTypes'
      <4> HIDE DEF action
      <4> QED
        BY <3>1, <3>2 DEF TypeOK, ScriptTypes, Actors
    <3> HIDE DEF action
    <3>4. PressTypes' /\ SystemTypes' /\ HolderWorks'
      BY <3>1 DEF Goto, TypeOK, HolderWorks, PressTypes, SystemTypes, Labels, system
    <3> QED
      BY <3>3, <3>4
  <2> QED
    BY <2>1, <2>2, <2>3, ActionIs
<1>12. CASE Relock(o)
  <2>1. CASE Answer(o, "failed")
    <3>1. UNCHANGED <<config, marker, system, routes, claimed, script, last>>
      BY <1>12 DEF Relock
    <3> QED
      BY <2>1, <3>1, AnswerInv DEF TypeOK, PressTypes, SystemTypes, ScriptTypes, system
  <2>2. CASE Goto(o, "after") /\ lock' = o /\ UNCHANGED <<kind, was, answer>>
    <3>1. lock = None /\ UNCHANGED <<config, marker, system, routes, claimed, script, last>>
      BY <1>12 DEF Relock
    <3>2. PressTypes'
      BY <2>2, <3>1 DEF Goto, TypeOK, PressTypes, Labels
    <3>3. SystemTypes' /\ ScriptTypes'
      BY <3>1 DEF TypeOK, SystemTypes, ScriptTypes, system
    <3>4. HolderWorks'
      BY <2>2, <3>1 DEF Goto, TypeOK, HolderWorks
    <3> QED
      BY <3>2, <3>3, <3>4
  <2>3. \/ Goto(o, "after") /\ lock' = o /\ UNCHANGED <<kind, was, answer>>
        \/ Answer(o, "failed")
    BY <1>12, Zenon DEF Relock
  <2> QED
    BY <2>1, <2>2, <2>3
<1>13. CASE WaitReady(o)
  <2>1. /\ Answer(o, "ok") \/ Answer(o, "failed")
        /\ routes' \in BOOLEAN
        /\ UNCHANGED <<config, marker, system, claimed, script, last>>
    BY <1>13 DEF WaitReady, TypeOK
  <2> QED
    BY <2>1, AnswerInv DEF TypeOK, PressTypes, SystemTypes, ScriptTypes, system
<1>14. CASE WaitStop(o)
  <2>1. /\ Answer(o, "ok") \/ Answer(o, "failed")
        /\ config' \in BOOLEAN /\ routes' \in BOOLEAN /\ claimed' \in BOOLEAN
        /\ UNCHANGED <<marker, system, script, last>>
    BY <1>14 DEF WaitStop, TypeOK
  <2> QED
    BY <2>1, AnswerInv DEF TypeOK, PressTypes, SystemTypes, ScriptTypes, system
<1>15. CASE ClearRead(o)
  BY <1>15 DEF ClearRead, Goto, TypeOK, HolderWorks, PressTypes, SystemTypes, ScriptTypes, Labels, system
<1>16. CASE ClearRemove(o)
  BY <1>16 DEF ClearRemove, Goto, TypeOK, HolderWorks, PressTypes, SystemTypes, ScriptTypes, Labels, system
<1> QED
  BY <1>1, <1>2, <1>3, <1>4, <1>5, <1>6, <1>7, <1>8, <1>9, <1>10, <1>11, <1>12, <1>13,
     <1>14, <1>15, <1>16 DEF Work, Mishap

\* The routes after a repair.
LEMMA ConvergeIs == Converge => routes' \in BOOLEAN
  BY DEF Converge

\* Every step of an init script, in whoever's name it runs.
LEMMA ScriptInv ==
  ASSUME TypeOK, HolderWorks, NEW a \in Actors, InitStep(a) \/ InitStepFails(a)
  PROVE  TypeOK' /\ HolderWorks'
<1>1. script[a] # <<>> /\ script[a] \in Seq(ScriptSteps)
  BY DEF InitStep, InitStepFails, TypeOK
<1>2. UNCHANGED <<lock, press, marker, last>>
  BY DEF InitStep, InitStepFails, Event, EventFails, Plan, Procd
<1>3. ScriptTypes'
  <2>1. \/ script' = [script EXCEPT ![a] = Tail(@)]
        \/ script' = [script EXCEPT ![a] = <<"close">>]
        \/ script' = [script EXCEPT ![a] = <<"eventStop", "close">>]
    BY DEF InitStep, InitStepFails, Event, EventFails, Plan, Procd
  <2> QED
    BY <1>1, <2>1, RestIs DEF TypeOK, ScriptTypes
<1>4. SystemTypes'
  BY ConvergeIs DEF InitStep, InitStepFails, Event, EventFails, Plan, Procd, Dismissed,
     SystemTypes, TypeOK, system
<1> QED
  BY <1>2, <1>3, <1>4, ElsewhereInv, TypesTogether DEF TypeOK, ScriptTypes, SystemTypes

\* The cron tick, the events of the engine and procd.
LEMMA SystemInv ==
  ASSUME TypeOK, HolderWorks, HealthCheck \/ ReadyEvent \/ Spawn \/ Exit \/ EngineStatus
  PROVE  TypeOK' /\ HolderWorks'
<1>1. UNCHANGED <<lock, press, marker, last>>
  BY DEF HealthCheck, ReadyEvent, Spawn, Exit, EngineStatus
<1>2. ScriptTypes'
  BY ScriptIs DEF HealthCheck, ReadyEvent, Spawn, Exit, EngineStatus, TypeOK, ScriptTypes
<1>3. SystemTypes'
  BY ConvergeIs DEF HealthCheck, ReadyEvent, Spawn, Exit, EngineStatus, SystemTypes, TypeOK, system
<1> QED
  BY <1>1, <1>2, <1>3, ElsewhereInv DEF TypeOK, ScriptTypes, SystemTypes

LEMMA StepInv == TypeOK /\ HolderWorks /\ [Next]_vars => TypeOK' /\ HolderWorks'
<1> SUFFICES ASSUME TypeOK, HolderWorks, [Next]_vars PROVE TypeOK' /\ HolderWorks'
  OBVIOUS
<1>1. CASE Next
  BY <1>1, PressInv, ScriptInv, SystemInv DEF Next
<1>2. CASE UNCHANGED vars
  BY <1>2 DEF vars, system, press, TypeOK, HolderWorks
<1> QED
  BY <1>1, <1>2

-----------------------------------------------------------------------------
\* The system and the presses keep their types, for any set of presses.
THEOREM TypeCorrect == Spec => []TypeOK
  BY InitInv, StepInv, PTL DEF Spec

\* service.rs:858-893: whichever press works on the state of WARP holds the lock,
\* for any number of presses of any kind, with init scripts and ticks between.
THEOREM WorkIsLocked == Spec => []HolderWorks
  BY InitInv, StepInv, PTL DEF Spec
=============================================================================
