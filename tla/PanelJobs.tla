------------------------------ MODULE PanelJobs ------------------------------
(***************************************************************************)
(* The background jobs of the web panel (webpanel/www/js/job.js) in one    *)
(* page: a press of a control asks the router for a job, a poller follows  *)
(* the job until it is over or nobody can say, and as long as any job is   *)
(* followed the controls are locked, those of the WARP card by the jobs of *)
(* others only.  How a control is switched off over its own request is     *)
(* that of its page: pages/warp.js (the card's switch), dashboard.js       *)
(* (service buttons), toggles.js (the toggles, off until the job is over). *)
(*                                                                         *)
(* Handlers run one at a time; requests are answered in any order, late or *)
(* not at all, timers go off and the tab is shown again at any time.       *)
(* A job is that of one press.  The log, the modal and the badges are left *)
(* out, and a page is not drawn anew.  Not among the controls are those    *)
(* that start no job, of which the card's WDTT box is also written past    *)
(* the lock when the status is read (warp.js:577).                         *)
(***************************************************************************)
EXTENDS Naturals

CONSTANTS
  Jobs, Controls,
  Of,           \* Of[j]: the control whose press asks for j
  Card,         \* controls of the WARP card: data-lock-group, opts.lockGroup
  Toggles,      \* controls which stay off until onDone
  MaxErrors,    \* MAX_ERRORS, or the ten of expectGone
  MaxRefusals,  \* MAX_HTTP_ERRORS
  None

ASSUME PanelJobsAssumption ==
  /\ Of \in [Jobs -> Controls]
  /\ Card \subseteq Controls /\ Toggles \subseteq Controls
  /\ MaxErrors \in Nat \ {0} /\ MaxRefusals \in Nat \ {0}
  /\ None \notin BOOLEAN

VARIABLES
  post,      \* the request that asks for the job
  job,       \* the job, on the router
  followed,  \* _activeJobs, _jobPollers
  asking,    \* polls of the job under way (inFlight: there are some)
  timers,    \* timers set for the next poll
  errors, refusals,  \* consecutiveErrors, httpErrors
  disabled,  \* .disabled of a control
  backup,    \* its dataset.lockBackup, None: undefined
  wish,      \* history: what its page last wanted of .disabled
  crossed    \* history: controls written past the lock

polls == <<asking, timers, errors, refusals>>
ui == <<disabled, backup, wish, crossed>>
vars == <<post, job, followed, polls, ui>>

TypeOK ==
  /\ post \in [Jobs -> {"idle", "sent", "accepted", "over"}]
  /\ job \in [Jobs -> {"none", "runs", "ended", "lost"}]
  /\ followed \subseteq Jobs
  /\ asking \in [Jobs -> Nat] /\ timers \in [Jobs -> Nat]
  /\ errors \in [Jobs -> 0..(MaxErrors - 1)]
  /\ refusals \in [Jobs -> 0..(MaxRefusals - 1)]
  /\ disabled \in [Controls -> BOOLEAN]
  /\ backup \in [Controls -> BOOLEAN \cup {None}]
  /\ wish \in [Controls -> BOOLEAN]
  /\ crossed \subseteq Controls

Init ==
  /\ post = [j \in Jobs |-> "idle"]
  /\ job = [j \in Jobs |-> "none"]
  /\ followed = {}
  /\ asking = [j \in Jobs |-> 0] /\ timers = [j \in Jobs |-> 0]
  /\ errors = [j \in Jobs |-> 0] /\ refusals = [j \in Jobs |-> 0]
  /\ disabled = [c \in Controls |-> FALSE]
  /\ backup = [c \in Controls |-> None]
  /\ wish = [c \in Controls |-> FALSE]
  /\ crossed = {}

-----------------------------------------------------------------------------
\* busyFor: a job of the WARP card does not lock the card.
Busy(c, jobs) == \E j \in jobs : ~(c \in Card /\ Of[j] \in Card)

\* Faulty: the backup of a control that was on is taken for none.
HeldIfOff(c) == backup[c] = TRUE

Held(c) == backup[c] # None

\* _updateGlobalUILock, with the jobs followed from now on and the .disabled of
\* the controls as the handler has left them.
NewBackup(jobs, off) ==
  [c \in Controls |-> IF ~Busy(c, jobs) THEN None
                     ELSE IF Held(c) THEN backup[c] ELSE off[c]]
NewDisabled(jobs, off) ==
  [c \in Controls |-> IF Busy(c, jobs) THEN Held(c) => off[c]
                     ELSE IF Held(c) THEN backup[c] ELSE off[c]]
Relock(jobs, off) ==
  backup' = NewBackup(jobs, off) /\ disabled' = NewDisabled(jobs, off)

\* A page writes .disabled itself, whatever the lock.
Wants(c, off) ==
  /\ wish' = [wish EXCEPT ![c] = off]
  /\ crossed' = IF Held(c) THEN crossed \cup {c} ELSE crossed

-----------------------------------------------------------------------------
\* A control is pressed, if it can be; its page switches it off for the request.
Press(j) ==
  /\ post[j] = "idle" /\ ~disabled[Of[j]]
  /\ post' = [post EXCEPT ![j] = "sent"]
  /\ disabled' = [disabled EXCEPT ![Of[j]] = TRUE]
  /\ Wants(Of[j], TRUE)
  /\ UNCHANGED <<job, followed, polls, backup>>

\* The router starts the job.
Accept(j) ==
  /\ post[j] = "sent"
  /\ post' = [post EXCEPT ![j] = "accepted"]
  /\ job' = [job EXCEPT ![j] = "runs"]
  /\ UNCHANGED <<followed, polls, ui>>

\* The answer with the job's id: a button and the card's switch come back
\* before the job is taken up; the first poll goes out at once.
Track(j) ==
  /\ post[j] = "accepted"
  /\ post' = [post EXCEPT ![j] = "over"]
  /\ followed' = followed \cup {j}
  /\ asking' = [asking EXCEPT ![j] = 1]
  /\ IF Of[j] \in Toggles
       THEN Relock(followed', disabled) /\ UNCHANGED <<wish, crossed>>
       ELSE /\ Relock(followed', [disabled EXCEPT ![Of[j]] = FALSE])
            /\ Wants(Of[j], FALSE)
  /\ UNCHANGED <<job, timers, errors, refusals>>

\* The request fails, or its answer is lost.
PostFails(j) ==
  /\ post[j] \in {"sent", "accepted"}
  /\ post' = [post EXCEPT ![j] = "over"]
  /\ disabled' = [disabled EXCEPT ![Of[j]] = FALSE]
  /\ Wants(Of[j], FALSE)
  /\ UNCHANGED <<job, followed, polls, backup>>

\* setLockAware: the state of the card or of the toggles has been read, or could
\* not be; this also happens while a request is under way.
StatusRead(c, off) ==
  /\ c \in Card \cup Toggles
  /\ IF Held(c)
       THEN backup' = [backup EXCEPT ![c] = off] /\ UNCHANGED disabled
       ELSE disabled' = [disabled EXCEPT ![c] = off] /\ UNCHANGED backup
  /\ wish' = [wish EXCEPT ![c] = off]
  /\ UNCHANGED <<post, job, followed, polls, crossed>>

-----------------------------------------------------------------------------
\* Faulty: a second poll goes out while one is under way.
TickAlways(j) ==
  /\ timers' = [timers EXCEPT ![j] = 0]
  /\ asking' = [asking EXCEPT ![j] = @ + 1]

\* tick, up to its await; nothing happens while a poll is under way.
Tick(j) ==
  /\ timers' = [timers EXCEPT ![j] = 0]
  /\ asking' = [asking EXCEPT ![j] = IF @ > 0 THEN @ ELSE 1]

Fire(j) ==
  /\ timers[j] > 0
  /\ Tick(j)
  /\ UNCHANGED <<post, job, followed, errors, refusals, ui>>

\* The tab is shown again: every poller is woken.
Wake(j) ==
  /\ j \in followed
  /\ Tick(j)
  /\ UNCHANGED <<post, job, followed, errors, refusals, ui>>

\* The poll under way has its answer: the next one is set.
Again(j) ==
  /\ asking' = [asking EXCEPT ![j] = @ - 1]
  /\ timers' = [timers EXCEPT ![j] = @ + 1]
  /\ UNCHANGED <<followed, ui>>

\* finish, and what onDone does to the control after it.
Finish(j) ==
  LET c == Of[j] IN
  /\ followed' = followed \ {j}
  /\ asking' = [asking EXCEPT ![j] = @ - 1]
  /\ timers' = [timers EXCEPT ![j] = 0]
  /\ errors' = [errors EXCEPT ![j] = 0] /\ refusals' = [refusals EXCEPT ![j] = 0]
  /\ backup' = NewBackup(followed', disabled)
  /\ IF c \in Toggles
       THEN /\ disabled' = [NewDisabled(followed', disabled) EXCEPT ![c] = FALSE]
            /\ wish' = [wish EXCEPT ![c] = FALSE]
            /\ crossed' = IF backup'[c] # None THEN crossed \cup {c} ELSE crossed
       ELSE /\ disabled' = NewDisabled(followed', disabled)
            /\ UNCHANGED <<wish, crossed>>

Answered(j) == asking[j] > 0 /\ UNCHANGED <<post, job>>

\* The job goes on.  A refusal before stays counted.
HearsRunning(j) ==
  /\ job[j] = "runs" /\ Answered(j)
  /\ Again(j)
  /\ errors' = [errors EXCEPT ![j] = 0]
  /\ UNCHANGED refusals

HearsDone(j) ==
  /\ job[j] = "ended" /\ Answered(j)
  /\ Finish(j)

\* Faulty: a job nobody knows is one that is not done yet.
HearsGoneWaiting(j) ==
  /\ job[j] = "lost" /\ Answered(j)
  /\ Again(j)
  /\ errors' = [errors EXCEPT ![j] = 0]
  /\ UNCHANGED refusals

\* JOB_GONE: the router knows no such job.
HearsGone(j) ==
  /\ job[j] = "lost" /\ Answered(j)
  /\ Finish(j)

\* Faulty: one error more is borne.
EnoughLate(j, refused) ==
  errors[j] >= MaxErrors \/ (refused /\ refusals[j] + 1 >= MaxRefusals)

\* Too many errors in a row, or refusals among them.
Enough(j, refused) ==
  errors[j] + 1 >= MaxErrors \/ (refused /\ refusals[j] + 1 >= MaxRefusals)

\* No answer, one of a server that is moving, or a refusal (isRefusal).
HearsError(j) ==
  /\ Answered(j)
  /\ \E refused \in BOOLEAN :
       \/ Enough(j, refused) /\ Finish(j)
       \/ /\ ~Enough(j, refused) /\ Again(j)
          /\ errors' = [errors EXCEPT ![j] = @ + 1]
          /\ refusals' = [refusals EXCEPT ![j] = IF refused THEN @ + 1 ELSE 0]

-----------------------------------------------------------------------------
\* The router: the job ends; or the router restarts, or reaps what has ended.
JobEnds(j) ==
  /\ job[j] = "runs"
  /\ job' = [job EXCEPT ![j] = "ended"]
  /\ UNCHANGED <<post, followed, polls, ui>>

JobIsLost(j) ==
  /\ job[j] \in {"runs", "ended"}
  /\ job' = [job EXCEPT ![j] = "lost"]
  /\ UNCHANGED <<post, followed, polls, ui>>

Hears(j) == HearsRunning(j) \/ HearsDone(j) \/ HearsGone(j) \/ HearsError(j)

Next ==
  \/ \E j \in Jobs : \/ Press(j) \/ Accept(j) \/ Track(j) \/ PostFails(j)
                    \/ Fire(j) \/ Wake(j) \/ Hears(j)
                    \/ JobEnds(j) \/ JobIsLost(j)
  \/ \E c \in Controls, off \in BOOLEAN : StatusRead(c, off)

Spec == Init /\ [][Next]_vars

\* Timers go off, every request is answered or fails, and jobs end.
FairSpec ==
  /\ Spec
  /\ \A j \in Jobs : WF_vars(Fire(j)) /\ WF_vars(Hears(j)) /\ WF_vars(JobEnds(j))

-----------------------------------------------------------------------------
\* job.js:269-395: a job that is followed always has either a poll under way or
\* a timer for the next one, and never two, whatever answers, timers and wakings
\* come together; a job that is not followed any more has neither.
PollsAreChained ==
  \A j \in Jobs : asking[j] + timers[j] = IF j \in followed THEN 1 ELSE 0

\* job.js:106-109, 131-151: a control is locked just while a job that locks it is
\* followed, and comes back as its page wanted it last, whichever jobs overlapped;
\* unless the page wrote to it past the lock.
LockKeepsWishes ==
  \A c \in Controls \ crossed :
    /\ Held(c) <=> Busy(c, followed)
    /\ IF Held(c) THEN disabled[c] /\ backup[c] = wish[c] ELSE disabled[c] = wish[c]

\* job.js:280-362: no job keeps the page locked for ever, though the router
\* forgets it, refuses to answer or is gone.
JobIsLetGo == \A j \in Jobs : []<>(j \notin followed)
=============================================================================
