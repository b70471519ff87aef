------------------------------- MODULE Ladder -------------------------------
(***************************************************************************)
(* The transport ladder of z2k-warpd (internal/ladder/ladder.go, type      *)
(* Ladder): the position, the number of steps tried in this pass and when  *)
(* the pass began, with Next, Good and Top.  Which endpoints the steps     *)
(* stand for is the business of LadderSteps; here a step is its index.     *)
(*                                                                         *)
(* The caller is engine.go: it sleeps the wait that Next returns before it *)
(* tries the next step.  It calls Top from a session on h2, whether that   *)
(* session has proved itself (Good came before) or not; which step h2 is,  *)
(* is Engine's business, and here Top may come at any step.                *)
(*                                                                         *)
(* Time is relative: passAge is now - passStart (negative while the caller *)
(* sleeps before the new pass, saturated at Cooldown).                     *)
(***************************************************************************)
EXTENDS Integers

CONSTANTS
  N,          \* len(l.steps)
  Cooldown,   \* Cooldown, in ticks
  NoPass      \* passStart is the zero time

ASSUME LadderAssumption ==
  /\ N \in Nat \ {0}
  /\ Cooldown \in Nat \ {0}
  /\ NoPass \notin Int

VARIABLES
  idx,        \* l.idx
  tried,      \* l.tried
  passAge,    \* now - l.passStart
  rest,       \* what is left of the wait Next returned
  attempted,  \* history: the steps tried without success in this pass
  span,       \* history: time since this pass began, saturated at Cooldown
  tooSoon,    \* history: a pass began before the Cooldown of the last was over
  returned    \* history: Top came with steps of this pass already counted

vars == <<idx, tried, passAge, rest, attempted, span, tooSoon, returned>>

StepIndex == 0..(N - 1)

TypeOK ==
  /\ idx \in StepIndex
  /\ tried \in StepIndex
  /\ passAge \in (-Cooldown)..Cooldown \cup {NoPass}
  /\ rest \in 0..Cooldown
  /\ attempted \in SUBSET StepIndex
  /\ span \in 0..Cooldown
  /\ tooSoon \in BOOLEAN
  /\ returned \in BOOLEAN

\* newAuto starts at last_good wherever it is in the ladder, or at the top.
Init ==
  /\ idx \in StepIndex
  /\ tried = 0
  /\ passAge = NoPass
  /\ rest = 0
  /\ attempted = {}
  /\ span = 0
  /\ tooSoon = FALSE
  /\ returned = FALSE

-----------------------------------------------------------------------------
\* passStart is set to now on the first failure of a pass.
Elapsed == IF passAge = NoPass THEN 0 ELSE passAge

\* Faulty: the position in the list, as before release r-79.4.
FullPassByPosition == idx + 1 >= N

\* The whole circle was tried, wherever in the list it began.
FullPass == tried + 1 >= N

Wait == IF Elapsed < Cooldown THEN Cooldown - Elapsed ELSE 0

\* History: how long the pass has lasted, measured apart from passStart.
Lasted == IF passAge = NoPass THEN 0 ELSE span

\* Faulty: without the wrap, and with a stop at the end.
NextIdxPastEnd == idx + 1
NextIdxStuck == IF idx + 1 < N THEN idx + 1 ELSE idx

NextIdx == (idx + 1) % N

\* Next, more of the pass to come.
NextStep ==
  /\ ~FullPass
  /\ idx' = NextIdx
  /\ tried' = tried + 1
  /\ passAge' = Elapsed
  /\ attempted' = attempted \cup {idx}
  /\ span' = Lasted
  /\ UNCHANGED <<rest, tooSoon, returned>>

\* Faulty: the new pass is counted from now, not from the end of the wait.
NextPassFromNow ==
  /\ FullPass
  /\ idx' = NextIdx
  /\ tried' = 0
  /\ rest' = Wait
  /\ passAge' = 0
  /\ attempted' = {}
  /\ returned' = FALSE
  /\ IF Wait = 0
       THEN span' = 0 /\ tooSoon' = (tooSoon \/ Lasted < Cooldown)
       ELSE span' = Lasted /\ tooSoon' = tooSoon

\* Next, the pass failed as a whole: passStart = now + wait.
NextPass ==
  /\ FullPass
  /\ idx' = NextIdx
  /\ tried' = 0
  /\ rest' = Wait
  /\ passAge' = 0 - Wait
  /\ attempted' = {}
  /\ returned' = FALSE
  /\ IF Wait = 0
       THEN span' = 0 /\ tooSoon' = (tooSoon \/ Lasted < Cooldown)
       ELSE span' = Lasted /\ tooSoon' = tooSoon

Good ==
  /\ tried' = 0
  /\ passAge' = NoPass
  /\ attempted' = {}
  /\ returned' = FALSE
  /\ UNCHANGED <<idx, rest, span, tooSoon>>

\* Top moves the position and nothing else: what was tried stays counted.
Top ==
  /\ idx' = 0
  /\ returned' = (returned \/ (tried > 0 /\ idx # 0))
  /\ UNCHANGED <<tried, passAge, rest, attempted, span, tooSoon>>

\* One tick of time; the last tick of the sleep begins the new pass.
Tick ==
  /\ passAge' = IF passAge = NoPass \/ passAge = Cooldown THEN passAge
                                                          ELSE passAge + 1
  /\ rest' = IF rest > 0 THEN rest - 1 ELSE 0
  /\ IF rest = 1
       THEN span' = 0 /\ tooSoon' = (tooSoon \/ span + 1 < Cooldown)
       ELSE /\ span' = IF span < Cooldown THEN span + 1 ELSE span
            /\ tooSoon' = tooSoon
  /\ UNCHANGED <<idx, tried, attempted, returned>>

-----------------------------------------------------------------------------
\* The caller: nothing is called before the wait is slept out.
Next ==
  \/ rest = 0 /\ (NextStep \/ NextPass \/ Good \/ Top)
  \/ Tick

Spec == Init /\ [][Next]_vars

\* The caller goes on failing: time passes and each failure is followed by the
\* next step.  (A caller that never fails has no use for the ladder.)
FailingSpec == Spec /\ WF_vars(Tick) /\ WF_vars(rest = 0 /\ (NextStep \/ NextPass))

-----------------------------------------------------------------------------
\* ladder.go:338-342: a pass counts as failed only when each of its steps was
\* tried, also when it began at last_good in the middle or at the end.
PassComplete == FullPass => attempted \cup {idx} = StepIndex

\* The same as far as the code keeps it: the count stands for the steps behind
\* the current one, wherever the pass began and whatever Good has forgotten,
\* unless Top came in the middle of the pass.  Engine checks PassComplete
\* itself, and the engine's Top breaks it.
PassCompleteUnlessReturned == ~returned => PassComplete

\* ladder.go:348-349, 18-20: the next pass begins no earlier than Cooldown
\* after the beginning of the one that failed.
CooldownHeld == ~tooSoon

\* A ladder that keeps failing leaves no step out for ever.
EveryStepComesUp ==
  (<>[][~Good /\ ~Top]_vars) => \A s \in StepIndex : []<>(idx = s)
=============================================================================
