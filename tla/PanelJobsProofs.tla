--------------------------- MODULE PanelJobsProofs ---------------------------
(***************************************************************************)
(* Theorems about PanelJobs, for any sets of jobs and controls, any card   *)
(* and any limits.  Both invariants are inductive with the types: a poll   *)
(* in flight is the only one that can set a timer, and every handler that  *)
(* changes which jobs are followed locks and unlocks the controls anew.    *)
(***************************************************************************)
EXTENDS PanelJobs, TLAPS

PollTypes ==
  /\ post \in [Jobs -> {"idle", "sent", "accepted", "over"}]
  /\ job \in [Jobs -> {"none", "runs", "ended", "lost"}]
  /\ followed \subseteq Jobs
  /\ asking \in [Jobs -> Nat] /\ timers \in [Jobs -> Nat]
ErrorTypes ==
  /\ errors \in [Jobs -> 0..(MaxErrors - 1)]
  /\ refusals \in [Jobs -> 0..(MaxRefusals - 1)]
ControlTypes ==
  /\ disabled \in [Controls -> BOOLEAN]
  /\ backup \in [Controls -> BOOLEAN \cup {None}]
  /\ wish \in [Controls -> BOOLEAN]
  /\ crossed \subseteq Controls

LEMMA TypesTogether == TypeOK <=> PollTypes /\ ErrorTypes /\ ControlTypes
  BY DEF TypeOK, PollTypes, ErrorTypes, ControlTypes

\* A job is asked for once: it is not followed before its answer has come.
FollowedAfterwards == \A j \in Jobs : post[j] # "over" => j \notin followed

PollInv == PollTypes /\ FollowedAfterwards /\ PollsAreChained
IInv == TypeOK /\ FollowedAfterwards /\ PollsAreChained /\ LockKeepsWishes

LEMMA InitInv == Init => IInv
<1> SUFFICES ASSUME Init PROVE IInv
  OBVIOUS
<1>1. TypeOK
  BY PanelJobsAssumption DEF Init, TypeOK
<1>2. FollowedAfterwards /\ PollsAreChained
  BY DEF Init, FollowedAfterwards, PollsAreChained
<1>3. LockKeepsWishes
  BY DEF Init, LockKeepsWishes, Held, Busy
<1> QED
  BY <1>1, <1>2, <1>3 DEF IInv

-----------------------------------------------------------------------------
\* While a poll is under way no timer is set, and its job is followed.
LEMMA OnlyPoll ==
  ASSUME PollInv, NEW j \in Jobs, asking[j] > 0
  PROVE  asking[j] = 1 /\ timers[j] = 0 /\ j \in followed
<1>1. /\ asking[j] \in Nat /\ timers[j] \in Nat
      /\ j \in followed => asking[j] + timers[j] = 1
      /\ j \notin followed => asking[j] + timers[j] = 0
  BY DEF PollInv, PollTypes, PollsAreChained
<1> QED
  BY <1>1

\* The next poll is set, or the job is let go.
LEMMA AgainInv ==
  ASSUME PollInv, NEW j \in Jobs, Answered(j), Again(j)
  PROVE  PollInv'
<1>1. asking[j] = 1 /\ timers[j] = 0 /\ j \in followed
  BY OnlyPoll DEF Answered
<1> QED
  BY <1>1 DEF PollInv, PollTypes, FollowedAfterwards, PollsAreChained, Answered, Again

LEMMA FinishInv ==
  ASSUME PollInv, NEW j \in Jobs, Answered(j), Finish(j)
  PROVE  PollInv'
<1>1. asking[j] = 1 /\ timers[j] = 0 /\ j \in followed
  BY OnlyPoll DEF Answered
<1>2. /\ followed' = followed \ {j}
      /\ asking' = [asking EXCEPT ![j] = @ - 1]
      /\ timers' = [timers EXCEPT ![j] = 0]
      /\ UNCHANGED <<post, job>>
  BY DEF Finish, Answered
<1> QED
  BY <1>1, <1>2 DEF PollInv, PollTypes, FollowedAfterwards, PollsAreChained

\* A timer or a waking starts a poll, if there is none.
LEMMA TickInv ==
  ASSUME PollInv, NEW j \in Jobs, j \in followed, Tick(j), UNCHANGED <<post, job, followed>>
  PROVE  PollInv'
<1>1. asking[j] + timers[j] = 1 /\ asking[j] \in Nat /\ timers[j] \in Nat
  BY DEF PollInv, PollTypes, PollsAreChained
<1>2. asking'[j] + timers'[j] = 1
  BY <1>1 DEF Tick, PollInv, PollTypes
<1> QED
  BY <1>1, <1>2 DEF Tick, PollInv, PollTypes, FollowedAfterwards, PollsAreChained

\* Every step keeps the polls in their chains.
LEMMA PollStep == PollInv /\ [Next]_vars => PollInv'
<1> SUFFICES ASSUME PollInv, [Next]_vars PROVE PollInv'
  OBVIOUS
<1> USE DEF PollInv
<1>1. ASSUME NEW j \in Jobs, Press(j) PROVE PollInv'
  BY <1>1 DEF Press, PollTypes, FollowedAfterwards, PollsAreChained, polls
<1>2. ASSUME NEW j \in Jobs, Accept(j) PROVE PollInv'
  BY <1>2 DEF Accept, PollTypes, FollowedAfterwards, PollsAreChained, polls
<1>3. ASSUME NEW j \in Jobs, Track(j) PROVE PollInv'
  <2>1. j \notin followed /\ asking[j] = 0 /\ timers[j] = 0
    BY <1>3 DEF Track, PollTypes, FollowedAfterwards, PollsAreChained
  <2>2. /\ post' = [post EXCEPT ![j] = "over"] /\ followed' = followed \cup {j}
        /\ asking' = [asking EXCEPT ![j] = 1] /\ UNCHANGED <<job, timers>>
    BY <1>3 DEF Track
  <2> QED
    BY <2>1, <2>2 DEF PollTypes, FollowedAfterwards, PollsAreChained
<1>4. ASSUME NEW j \in Jobs, PostFails(j) PROVE PollInv'
  BY <1>4 DEF PostFails, PollTypes, FollowedAfterwards, PollsAreChained, polls
<1>5. ASSUME NEW j \in Jobs, Fire(j) PROVE PollInv'
  <2>1. j \in followed
    BY <1>5 DEF Fire, PollTypes, PollsAreChained
  <2> QED
    BY <1>5, <2>1, TickInv DEF Fire
<1>6. ASSUME NEW j \in Jobs, Wake(j) PROVE PollInv'
  BY <1>6, TickInv DEF Wake
<1>7. ASSUME NEW j \in Jobs, Hears(j) PROVE PollInv'
  <2>1. Answered(j) /\ (Again(j) \/ Finish(j))
    BY <1>7 DEF Hears, HearsRunning, HearsDone, HearsGone, HearsError
  <2> QED
    BY <2>1, AgainInv, FinishInv
<1>8. ASSUME NEW j \in Jobs, JobEnds(j) \/ JobIsLost(j) PROVE PollInv'
  BY <1>8 DEF JobEnds, JobIsLost, PollTypes, FollowedAfterwards, PollsAreChained, polls
<1>9. ASSUME NEW c \in Controls, NEW off \in BOOLEAN, StatusRead(c, off) PROVE PollInv'
  BY <1>9 DEF StatusRead, PollTypes, FollowedAfterwards, PollsAreChained, polls
<1>10. CASE UNCHANGED vars
  BY <1>10 DEF vars, polls, PollTypes, FollowedAfterwards, PollsAreChained
<1> QED
  BY <1>1, <1>2, <1>3, <1>4, <1>5, <1>6, <1>7, <1>8, <1>9, <1>10 DEF Next

-----------------------------------------------------------------------------
\* Errors that are not enough to give up stay below the limits.
LEMMA ErrorStep == ErrorTypes /\ [Next]_vars => ErrorTypes'
<1> SUFFICES ASSUME ErrorTypes, [Next]_vars PROVE ErrorTypes'
  OBVIOUS
<1> USE PanelJobsAssumption DEF ErrorTypes
<1>1. CASE UNCHANGED <<errors, refusals>>
  BY <1>1
<1>2. ASSUME NEW j \in Jobs, Finish(j) PROVE ErrorTypes'
  BY <1>2 DEF Finish
<1>3. ASSUME NEW j \in Jobs, HearsRunning(j) PROVE ErrorTypes'
  BY <1>3 DEF HearsRunning
<1>4. ASSUME NEW j \in Jobs, NEW refused \in BOOLEAN, ~Enough(j, refused),
             errors' = [errors EXCEPT ![j] = @ + 1],
             refusals' = [refusals EXCEPT ![j] = IF refused THEN @ + 1 ELSE 0]
      PROVE ErrorTypes'
  <2>1. errors' \in [Jobs -> 0..(MaxErrors - 1)]
    BY <1>4 DEF Enough
  <2>2. refusals' \in [Jobs -> 0..(MaxRefusals - 1)]
    BY <1>4 DEF Enough
  <2> QED
    BY <2>1, <2>2
<1>5. ASSUME NEW j \in Jobs, Hears(j) PROVE ErrorTypes'
  BY <1>2, <1>3, <1>4, <1>5 DEF Hears, HearsDone, HearsGone, HearsError
<1>6. ASSUME NEW j \in Jobs, Press(j) \/ Accept(j) \/ Track(j) \/ PostFails(j) \/ Fire(j)
                             \/ Wake(j) \/ JobEnds(j) \/ JobIsLost(j)
      PROVE UNCHANGED <<errors, refusals>>
  BY <1>6 DEF Press, Accept, Track, PostFails, Fire, Wake, JobEnds, JobIsLost, polls
<1>7. ASSUME NEW c \in Controls, NEW off \in BOOLEAN, StatusRead(c, off)
      PROVE UNCHANGED <<errors, refusals>>
  BY <1>7 DEF StatusRead, polls
<1>8. CASE UNCHANGED vars
  BY <1>8, <1>1 DEF vars, polls
<1> QED
  BY <1>1, <1>5, <1>6, <1>7, <1>8 DEF Next

-----------------------------------------------------------------------------
\* What a control is, in the order its handlers leave it.
Kept(c) ==
  /\ Held(c) <=> Busy(c, followed)
  /\ Held(c) => disabled[c] /\ backup[c] = wish[c]
  /\ ~Held(c) => disabled[c] = wish[c]

LEMMA KeptIs == LockKeepsWishes <=> \A c \in Controls \ crossed : Kept(c)
  BY DEF LockKeepsWishes, Kept

LockInv == ControlTypes /\ LockKeepsWishes

\* A control that the lock changes and its page does not.
LEMMA RelockKeeps ==
  ASSUME ControlTypes, NEW c \in Controls, Kept(c), NEW jobs, followed' = jobs,
         NEW off \in [Controls -> BOOLEAN], off[c] = disabled[c],
         backup'[c] = NewBackup(jobs, off)[c], disabled'[c] = NewDisabled(jobs, off)[c],
         wish'[c] = wish[c]
  PROVE  Kept(c)'
  BY PanelJobsAssumption DEF Kept, Held, NewBackup, NewDisabled, ControlTypes, Busy

\* The lock gives every control a backup or a switch of its type.
LEMMA NewTypes ==
  ASSUME ControlTypes, NEW jobs, NEW off \in [Controls -> BOOLEAN]
  PROVE  /\ NewBackup(jobs, off) \in [Controls -> BOOLEAN \cup {None}]
         /\ NewDisabled(jobs, off) \in [Controls -> BOOLEAN]
         /\ \A c \in Controls : NewBackup(jobs, off)[c] = None <=> ~Busy(c, jobs)
<1>1. NewBackup(jobs, off) \in [Controls -> BOOLEAN \cup {None}]
  BY DEF NewBackup, ControlTypes
<1>2. NewDisabled(jobs, off) \in [Controls -> BOOLEAN]
  <2>1. ASSUME NEW c \in Controls
        PROVE  (IF Busy(c, jobs) THEN Held(c) => off[c]
                ELSE IF Held(c) THEN backup[c] ELSE off[c]) \in BOOLEAN
    BY DEF ControlTypes, Held
  <2> QED
    BY <2>1, Zenon DEF NewDisabled
<1>3. \A c \in Controls : NewBackup(jobs, off)[c] = None <=> ~Busy(c, jobs)
  BY PanelJobsAssumption DEF NewBackup, Held, ControlTypes
<1> QED
  BY <1>1, <1>2, <1>3

\* A step that locks nothing and unlocks nothing, and writes to one control.
LEMMA WriteInv ==
  ASSUME LockInv, NEW c \in Controls, NEW off \in BOOLEAN, UNCHANGED <<followed, backup>>,
         disabled' = [disabled EXCEPT ![c] = off], Wants(c, off)
  PROVE  LockInv'
<1>1. ControlTypes'
  BY DEF LockInv, ControlTypes, Wants
<1>2. ASSUME NEW d \in Controls \ crossed' PROVE Kept(d)'
  <2>1. d \notin crossed /\ Kept(d)
    BY <1>2, KeptIs DEF LockInv, Wants
  <2>2. CASE d = c
    BY <1>2, <2>1, <2>2 DEF Kept, Held, Wants, LockInv, ControlTypes, Busy
  <2>3. CASE d # c
    BY <2>1, <2>3 DEF Kept, Held, Wants, LockInv, ControlTypes, Busy
  <2> QED
    BY <2>2, <2>3
<1>3. LockKeepsWishes'
  BY <1>2 DEF LockKeepsWishes, Kept
<1> QED
  BY <1>1, <1>3 DEF LockInv

LEMMA TrackInv ==
  ASSUME LockInv, NEW j \in Jobs, Track(j)
  PROVE  LockInv'
<1> DEFINE c == Of[j]
           off == IF c \in Toggles THEN disabled ELSE [disabled EXCEPT ![c] = FALSE]
<1>1. c \in Controls
  BY PanelJobsAssumption
<1>2. off \in [Controls -> BOOLEAN]
  BY DEF LockInv, ControlTypes
<1>3. backup' = NewBackup(followed', off) /\ disabled' = NewDisabled(followed', off)
  BY DEF Track, Relock
<1>4. wish' \in [Controls -> BOOLEAN] /\ crossed' \subseteq Controls /\ crossed \subseteq crossed'
  BY <1>1 DEF Track, Wants, LockInv, ControlTypes
<1>5. ControlTypes'
  BY <1>2, <1>3, <1>4, NewTypes DEF LockInv, ControlTypes
<1>6. ASSUME NEW d \in Controls \ crossed' PROVE Kept(d)'
  <2>1. d \notin crossed /\ Kept(d)
    BY <1>4, <1>6, KeptIs DEF LockInv
  <2>2. CASE d = c /\ c \notin Toggles
    <3>1. ~Held(d) /\ wish'[d] = FALSE /\ off[d] = FALSE
      BY <1>6, <2>2 DEF Track, Wants, LockInv, ControlTypes
    <3>2. Held(d)' <=> Busy(d, followed')
      <4>1. backup'[d] = None <=> ~Busy(d, followed')
        <5> HIDE DEF off
        <5> QED
          BY <1>2, <1>3, NewTypes DEF LockInv
      <4> QED
        BY <4>1 DEF Held
    <3>3. CASE Busy(d, followed')
      BY <1>3, <3>1, <3>2, <3>3 DEF NewBackup, NewDisabled, Kept, Busy
    <3>4. CASE ~Busy(d, followed')
      BY <1>3, <3>1, <3>2, <3>4 DEF NewBackup, NewDisabled, Kept, Busy
    <3> QED
      BY <3>3, <3>4
  <2>3. CASE d # c \/ c \in Toggles
    <3>1. off[d] = disabled[d] /\ wish'[d] = wish[d]
      BY <2>3 DEF Track, Wants, LockInv, ControlTypes
    <3> HIDE DEF off
    <3> QED
      BY <1>2, <1>3, <2>1, <3>1, RelockKeeps DEF LockInv
  <2> QED
    BY <2>2, <2>3
<1>7. LockKeepsWishes'
  BY <1>6 DEF LockKeepsWishes, Kept
<1> QED
  BY <1>5, <1>7 DEF LockInv

LEMMA LetGoInv ==
  ASSUME LockInv, NEW j \in Jobs, Finish(j)
  PROVE  LockInv'
<1> DEFINE c == Of[j]
<1>1. c \in Controls
  BY PanelJobsAssumption
<1>2. disabled \in [Controls -> BOOLEAN]
  BY DEF LockInv, ControlTypes
<1>3. /\ backup' = NewBackup(followed', disabled)
      /\ disabled' = IF c \in Toggles
                       THEN [NewDisabled(followed', disabled) EXCEPT ![c] = FALSE]
                       ELSE NewDisabled(followed', disabled)
      /\ wish' = IF c \in Toggles THEN [wish EXCEPT ![c] = FALSE] ELSE wish
      /\ crossed' = IF c \in Toggles /\ backup'[c] # None THEN crossed \cup {c} ELSE crossed
  BY DEF Finish
<1>4. ControlTypes'
  BY <1>1, <1>2, <1>3, NewTypes DEF LockInv, ControlTypes
<1>5. ASSUME NEW d \in Controls \ crossed' PROVE Kept(d)'
  <2>1. d \notin crossed /\ Kept(d)
    BY <1>3, <1>5, KeptIs DEF LockInv
  <2>2. CASE d = c /\ c \in Toggles
    <3>1. backup'[d] = None /\ wish'[d] = FALSE /\ disabled'[d] = FALSE
      BY <1>2, <1>3, <1>5, <2>2, NewTypes DEF LockInv, ControlTypes
    <3>2. ~Busy(d, followed')
      BY <1>2, <1>3, <3>1, NewTypes DEF LockInv
    <3> QED
      BY <3>1, <3>2 DEF Kept, Held, Busy
  <2>3. CASE d # c \/ c \notin Toggles
    <3>1. CASE c \notin Toggles
      BY <1>2, <1>3, <2>1, <3>1, RelockKeeps DEF LockInv
    <3>2. CASE d # c /\ c \in Toggles
      <4> DEFINE new == NewDisabled(followed', disabled)
      <4>1. new \in [Controls -> BOOLEAN]
        BY <1>2, NewTypes DEF LockInv
      <4>2. disabled' = [new EXCEPT ![c] = FALSE] /\ wish' = [wish EXCEPT ![c] = FALSE]
        BY <1>3, <3>2
      <4>3. disabled'[d] = new[d] /\ wish'[d] = wish[d]
        <5> HIDE DEF new
        <5> QED
          BY <3>2, <4>1, <4>2 DEF LockInv, ControlTypes
      <4> QED
        BY <1>2, <1>3, <2>1, <4>3, RelockKeeps DEF LockInv
    <3> QED
      BY <2>3, <3>1, <3>2
  <2> QED
    BY <2>2, <2>3
<1>6. LockKeepsWishes'
  BY <1>5 DEF LockKeepsWishes, Kept
<1> QED
  BY <1>4, <1>6 DEF LockInv

LEMMA ReadInv ==
  ASSUME LockInv, NEW c \in Controls, NEW off \in BOOLEAN, StatusRead(c, off)
  PROVE  LockInv'
<1>1. ControlTypes'
  BY DEF LockInv, ControlTypes, StatusRead
<1>2. ASSUME NEW d \in Controls \ crossed' PROVE Kept(d)'
  <2>1. d \notin crossed /\ Kept(d) /\ Busy(d, followed)' = Busy(d, followed)
    BY <1>2, KeptIs DEF LockInv, StatusRead, Busy
  <2>2. CASE Held(c)
    <3>1. /\ backup' = [backup EXCEPT ![c] = off] /\ disabled' = disabled
          /\ wish' = [wish EXCEPT ![c] = off]
      BY <2>2 DEF StatusRead
    <3>2. CASE d = c
      BY <2>1, <2>2, <3>1, <3>2, PanelJobsAssumption DEF Kept, Held, LockInv, ControlTypes
    <3>3. CASE d # c
      BY <2>1, <3>1, <3>3 DEF Kept, Held, LockInv, ControlTypes
    <3> QED
      BY <3>2, <3>3
  <2>3. CASE ~Held(c)
    <3>1. /\ disabled' = [disabled EXCEPT ![c] = off] /\ backup' = backup
          /\ wish' = [wish EXCEPT ![c] = off]
      BY <2>3 DEF StatusRead
    <3>2. CASE d = c
      BY <2>1, <2>3, <3>1, <3>2 DEF Kept, Held, LockInv, ControlTypes
    <3>3. CASE d # c
      BY <2>1, <3>1, <3>3 DEF Kept, Held, LockInv, ControlTypes
    <3> QED
      BY <3>2, <3>3
  <2> QED
    BY <2>2, <2>3
<1>3. LockKeepsWishes'
  BY <1>2 DEF LockKeepsWishes, Kept
<1> QED
  BY <1>1, <1>3 DEF LockInv

\* Every step keeps the controls as the lock and their pages want them.
LEMMA LockStep == LockInv /\ [Next]_vars => LockInv'
<1> SUFFICES ASSUME LockInv, [Next]_vars PROVE LockInv'
  OBVIOUS
<1>1. CASE UNCHANGED <<followed, ui>>
  BY <1>1 DEF LockInv, ControlTypes, LockKeepsWishes, Held, Busy, ui
<1>2. ASSUME NEW j \in Jobs, Press(j) PROVE LockInv'
  BY <1>2, WriteInv, PanelJobsAssumption DEF Press
<1>3. ASSUME NEW j \in Jobs, PostFails(j) PROVE LockInv'
  BY <1>3, WriteInv, PanelJobsAssumption DEF PostFails
<1>4. ASSUME NEW j \in Jobs, Hears(j) PROVE LockInv'
  <2>1. Finish(j) \/ Again(j)
    BY <1>4 DEF Hears, HearsRunning, HearsDone, HearsGone, HearsError
  <2> QED
    BY <1>1, <2>1, LetGoInv DEF Again
<1>5. ASSUME NEW j \in Jobs, Accept(j) \/ Fire(j) \/ Wake(j) \/ JobEnds(j) \/ JobIsLost(j)
      PROVE  LockInv'
  BY <1>1, <1>5 DEF Accept, Fire, Wake, JobEnds, JobIsLost
<1>6. CASE UNCHANGED vars
  BY <1>1, <1>6 DEF vars
<1> QED
  BY <1>2, <1>3, <1>4, <1>5, <1>6, TrackInv, ReadInv DEF Next

-----------------------------------------------------------------------------
LEMMA StepInv == IInv /\ [Next]_vars => IInv'
<1> SUFFICES ASSUME IInv, [Next]_vars PROVE IInv'
  OBVIOUS
<1>1. PollInv /\ ErrorTypes /\ LockInv
  BY TypesTogether DEF IInv, PollInv, LockInv
<1>2. PollInv' /\ ErrorTypes' /\ LockInv'
  BY <1>1, PollStep, ErrorStep, LockStep
<1> QED
  BY <1>2 DEF IInv, PollInv, LockInv, TypeOK, PollTypes, ErrorTypes, ControlTypes

\* All that is kept keeps its types, the counts of errors below their limits, for
\* any jobs, controls and limits.
THEOREM TypeCorrect == Spec => []TypeOK
<1>1. IInv => TypeOK
  BY DEF IInv
<1> QED
  BY <1>1, InitInv, StepInv, PTL DEF Spec

\* job.js:269-395: every poller has one poll or one timer, for any number of jobs,
\* timers, wakings and answers.
THEOREM PollersStayAlive == Spec => []PollsAreChained
<1>1. IInv => PollsAreChained
  BY DEF IInv
<1> QED
  BY <1>1, InitInv, StepInv, PTL DEF Spec

\* job.js:116-169: the lock holds and gives every control back as its page wants
\* it, for any jobs and controls, unless a page wrote past the lock.
THEOREM LockIsTrue == Spec => []LockKeepsWishes
<1>1. IInv => LockKeepsWishes
  BY DEF IInv
<1> QED
  BY <1>1, InitInv, StepInv, PTL DEF Spec
=============================================================================
