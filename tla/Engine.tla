------------------------------- MODULE Engine -------------------------------
(***************************************************************************)
(* The main loop of z2k-warpd (internal/engine/engine.go): it takes the    *)
(* current step of the Ladder, makes the device key the right one at       *)
(* Cloudflare, opens the transport, serves it for as long as the health    *)
(* monitor (SessionHealth) lets it, and moves on.                          *)
(*                                                                         *)
(* One goroutine runs the loop.  What is concurrent is the outside world:  *)
(* the registration API, whose answer may be lost after it has done its    *)
(* work; the paths, which come and go; the readers of status.json; and the *)
(* process itself, which may be stopped or killed between any two steps    *)
(* and then starts from device.json.  The steps of this module are cut     *)
(* where the loop waits for that world.                                    *)
(*                                                                         *)
(* status is the value last given to the status writer (StatusWriter says  *)
(* when the file holds it).  The scan of edges before the first step and   *)
(* the geography of an edge are not modelled.                              *)
(***************************************************************************)
EXTENDS Integers

CONSTANTS
  Mode,          \* "auto", "wg", "h2", or "forced" (--force-transport h2)
  Cooldown, ProbeUpEvery,
  Patience,      \* rounds in which the monitor decides on a settled path
  Nets,          \* what the paths may settle to, {}: they never settle
  NoPass, Nil

\* The transports of the ladder's steps: newAuto puts h2 after the first WG
\* steps and the other WG ports behind it; NewMode and NewFixed filter.
Kind == CASE Mode = "auto" -> <<"wg", "h2", "wg">>
          [] Mode = "wg" -> <<"wg", "wg">>
          [] OTHER -> <<"h2">>
N == CASE Mode = "auto" -> 3
       [] Mode = "wg" -> 2
       [] OTHER -> 1

ASSUME EngineAssumption ==
  /\ Nets \subseteq [0..(N - 1) -> {"blocked", "opens", "carries"}]
  /\ Mode \in {"auto", "wg", "h2", "forced"}
  /\ Patience \in Nat \ {0}
  /\ ProbeUpEvery \in Nat \ {0}
  /\ Cooldown \in Nat \ {0}
  /\ NoPass \notin Int

VARIABLES
  idx, tried, passAge, rest, attempted, span, tooSoon, returned,   \* see Ladder
  proven, verdict,                                                 \* see SessionHealth
  phase,      \* where the loop is
  target,     \* whom the transport is opened for: "ladder", "probe"
  forced,     \* openOnce was called with force
  key,        \* d.Tunnel in memory
  saved,      \* d.Tunnel in device.json
  server,     \* the key Cloudflare has for the device
  committed,  \* serve's committed
  upAge,      \* now - lastUp, saturated
  lastErr,    \* e.lastErr
  lastGood,   \* d.LastGood in memory
  savedGood,  \* d.LastGood in device.json
  status,     \* what was last given to the status writer, Nil: removed
  net,        \* environment: the paths once they have settled
  rounds,     \* environment: rounds of this session on a settled path
  everProven  \* history: the steps some session of which was proven

ladder == <<idx, tried, passAge, rest, attempted, span, tooSoon, returned>>
session == <<proven, verdict>>
keys == <<key, saved, server>>
good == <<lastGood, savedGood>>
vars == <<ladder, session, phase, target, forced, keys, committed, upAge,
          lastErr, good, status, net, rounds, everProven>>

L == INSTANCE Ladder
S == INSTANCE SessionHealth

Steps == L!StepIndex
Keys == {"wg", "masque"}
Errors == {Nil, "device_revoked", "no_endpoint", "no_transit"}
Paths == {"blocked", "opens", "carries"}

TypeOK ==
  /\ L!TypeOK
  /\ proven \in BOOLEAN /\ verdict \in {"alive", "doubtful", "dead"}
  /\ phase \in {"down", "top", "switch", "connect", "serve", "pause",
                "restore", "rest"}
  /\ target \in {"ladder", "probe"}
  /\ forced \in BOOLEAN /\ committed \in BOOLEAN
  /\ key \in Keys /\ saved \in Keys /\ server \in Keys
  /\ upAge \in 0..ProbeUpEvery
  /\ lastErr \in Errors
  /\ lastGood \in Steps \cup {Nil} /\ savedGood \in Steps \cup {Nil}
  /\ status \in [ready : BOOLEAN, step : Steps, err : Errors] \cup {Nil}
  /\ net \in [Steps -> Paths] \cup {Nil}
  /\ rounds \in 0..Patience
  /\ everProven \subseteq Steps

\* An earlier run, perhaps in another mode, may have left any key behind.
Init ==
  /\ L!Init /\ S!Init
  /\ idx = 0
  /\ phase = "down" /\ target = "ladder"
  /\ forced = FALSE /\ committed = FALSE
  /\ key \in Keys /\ saved = key /\ server \in Keys
  /\ upAge = 0
  /\ lastErr = Nil /\ status = Nil
  /\ lastGood = Nil /\ savedGood = Nil
  /\ net = Nil /\ rounds = 0
  /\ everProven = {}

Settled == net # Nil

Report(ready, err) == [ready |-> ready, step |-> idx, err |-> err]

\* d.Save, of the device as it is in memory by now: the whole of device.json is
\* replaced, or it stays as it was.  A last_good whose own save failed is still
\* in memory, and the next save, for whatever reason, writes it.
Save == \/ saved' = key' /\ savedGood' = lastGood'
        \/ ~Settled /\ UNCHANGED <<saved, savedGood>>

-----------------------------------------------------------------------------
\* The process is gone, and with it everything but device.json, status.json and
\* what the server knows.
ProcessEnds ==
  /\ phase # "down" /\ ~Settled
  /\ phase' = "down"
  /\ idx' = 0 /\ tried' = 0 /\ passAge' = NoPass /\ rest' = 0
  /\ attempted' = {} /\ span' = 0 /\ tooSoon' = FALSE /\ returned' = FALSE
  /\ S!Reset
  /\ target' = "ladder" /\ forced' = FALSE /\ committed' = FALSE
  /\ key' = saved /\ lastGood' = savedGood
  /\ upAge' = 0
  /\ lastErr' = Nil
  /\ UNCHANGED <<saved, server, savedGood, net, rounds, everProven>>

\* SIGTERM: the loop ends, the status file is removed.
Stop == ProcessEnds /\ status' = Nil

\* SIGKILL, loss of power: the status stays as it was.
Crash == ProcessEnds /\ UNCHANGED status

\* Run up to the loop: device.json is read, the ladder is built, the status
\* says "not ready".
Start ==
  /\ phase = "down"
  /\ phase' = "top"
  /\ idx' = IF lastGood = Nil THEN 0 ELSE lastGood
  /\ status' = [ready |-> FALSE, step |-> idx', err |-> Nil]
  /\ UNCHANGED <<tried, passAge, rest, attempted, span, tooSoon, returned, session,
                 target, forced, keys, committed, upAge, lastErr, good, net,
                 rounds, everProven>>

\* The head of the loop: the current step is announced as not ready.
TakeStep ==
  /\ phase = "top"
  /\ phase' = "switch"
  /\ status' = Report(FALSE, lastErr)
  /\ UNCHANGED <<ladder, session, target, forced, keys, committed, upAge, lastErr, good,
                 net, rounds, everProven>>

\* wgReachable tries the primary WG endpoint whatever the current step.
TargetStep == IF target = "probe" THEN 0 ELSE idx
TargetKind == IF target = "probe" THEN "wg" ELSE Kind[idx + 1]
Want == IF TargetKind = "h2" THEN "masque" ELSE "wg"

\* Faulty: the wait of a full pass is not slept out.
AdvanceWithoutWait(reason, err, st) ==
  /\ \/ L!NextStep
     \/ L!NextPass
  /\ phase' = "top"
  /\ lastErr' = err
  /\ status' = st

\* advance: the ladder moves; after a full pass the loop sleeps the wait, with
\* the reason in the status.  err is e.lastErr and st the status up to here.
Advance(reason, err, st) ==
  /\ \/ L!NextStep
     \/ L!NextPass
  /\ IF rest' > 0
       THEN /\ phase' = "rest"
            /\ lastErr' = reason
            /\ status' = [ready |-> FALSE, step |-> idx', err |-> reason]
       ELSE /\ phase' = "top"
            /\ lastErr' = err
            /\ status' = st

\* open returns, and its arguments are forgotten.
OpenIsOver == target' = "ladder" /\ forced' = FALSE

\* open has failed: the loop advances, or wgReachable restores the key.
OpenFails(err, st) ==
  /\ OpenIsOver
  /\ \/ /\ target = "ladder"
        /\ Advance("no_endpoint", err, st)
     \/ /\ target = "probe"
        /\ phase' = IF key' # "masque" THEN "restore" ELSE "pause"
        /\ lastErr' = err
        /\ status' = st
        /\ UNCHANGED ladder

\* openOnce, the key in memory is of the right type: nothing is asked.
KeyFits ==
  /\ phase = "switch"
  /\ ~forced /\ key = Want
  /\ phase' = "connect"
  /\ UNCHANGED <<ladder, session, target, forced, keys, committed, upAge,
                 lastErr, good, status, net, rounds, everProven>>

MustSwitch == phase = "switch" /\ (forced \/ key # Want)

\* SwitchTunnel succeeds; device.json is saved, a failure of that is logged.
SwitchSucceeds ==
  /\ MustSwitch
  /\ phase' = "connect"
  /\ key' = Want /\ server' = Want
  /\ UNCHANGED lastGood /\ Save
  /\ UNCHANGED <<ladder, session, target, forced, committed, upAge, lastErr,
                 status, net, rounds, everProven>>

\* SwitchTunnel returns an error: refused or unreachable; done at the server but
\* the answer lost; or answered without peers, after d.Tunnel was set.
SwitchErrs(k) ==
  /\ ~Settled
  /\ \/ UNCHANGED <<key, server>>
     \/ server' = k /\ UNCHANGED key
     \/ server' = k /\ key' = k

SwitchFails ==
  /\ MustSwitch
  /\ SwitchErrs(Want)
  /\ OpenFails(lastErr, status)
  /\ UNCHANGED <<session, saved, committed, upAge, good, net, rounds, everProven>>

\* The last answer is 401, 403 or 404: ErrRevoked goes to the status.  It may be
\* the relay's, after a direct attempt that failed in any of the ways above.
SwitchRevoked ==
  /\ MustSwitch
  /\ SwitchErrs(Want)
  /\ OpenFails("device_revoked", Report(FALSE, "device_revoked"))
  /\ UNCHANGED <<session, saved, committed, upAge, good, net, rounds, everProven>>

-----------------------------------------------------------------------------
\* Cloudflare speaks to a transport only with the key it was given last.
Reachable == server = Want /\ (Settled => net[TargetStep] # "blocked")

\* Faulty: the step is remembered as soon as it opens.
ConnectsRemembers ==
  /\ phase = "connect" /\ target = "ladder"
  /\ Reachable
  /\ phase' = "serve"
  /\ S!Reset
  /\ committed' = FALSE
  /\ upAge' = 0 /\ rounds' = 0
  /\ lastGood' = idx /\ UNCHANGED key /\ Save
  /\ OpenIsOver
  /\ UNCHANGED <<ladder, server, lastErr, status, net, everProven>>

\* The session stands: serve begins with a fresh monitor.
Connects ==
  /\ phase = "connect" /\ target = "ladder"
  /\ Reachable
  /\ phase' = "serve"
  /\ S!Reset
  /\ committed' = FALSE
  /\ upAge' = 0 /\ rounds' = 0
  /\ OpenIsOver
  /\ UNCHANGED <<ladder, keys, lastErr, good, status, net, everProven>>

\* serve returns, and its variables are forgotten.
ServeIsOver == committed' = FALSE /\ upAge' = 0 /\ rounds' = 0

\* wgReachable says yes: h2 is left and the ladder goes back to its top.
WGIsBack ==
  /\ phase = "connect" /\ target = "probe"
  /\ Reachable
  /\ phase' = "top"
  /\ L!Top
  /\ OpenIsOver /\ ServeIsOver
  /\ UNCHANGED <<session, keys, lastErr, good, status, net, everProven>>

\* The access-denied answer, which only h2 can tell: once more, with the key
\* registered again.
Denied ==
  /\ ~forced /\ TargetKind = "h2" /\ server # "masque"
  /\ Settled => net[TargetStep] # "blocked"

NotEnrolled ==
  /\ phase = "connect"
  /\ Denied
  /\ phase' = "switch"
  /\ forced' = TRUE
  /\ UNCHANGED <<ladder, session, target, keys, committed, upAge, lastErr,
                 good, status, net, rounds, everProven>>

\* Any other failure to open, and a second ErrNotEnrolled.
ConnectFails ==
  /\ phase = "connect"
  /\ Settled => ~Reachable /\ ~Denied
  /\ UNCHANGED keys
  /\ OpenFails(lastErr, status)
  /\ UNCHANGED <<session, committed, upAge, good, net, rounds, everProven>>

\* The key goes back to masque after a failed probe; errors are ignored.
RestoreSucceeds ==
  /\ phase = "restore"
  /\ phase' = "pause"
  /\ key' = "masque" /\ server' = "masque"
  /\ UNCHANGED lastGood /\ Save
  /\ UNCHANGED <<ladder, session, target, forced, committed, upAge, lastErr,
                 status, net, rounds, everProven>>

RestoreFails ==
  /\ phase = "restore"
  /\ SwitchErrs("masque")
  /\ phase' = "pause"
  /\ UNCHANGED <<ladder, session, target, forced, saved, committed, upAge,
                 lastErr, good, status, net, rounds, everProven>>

-----------------------------------------------------------------------------
\* Does the session carry traffic?  Known once the paths have settled; a key
\* changed under a session may or may not break it.
SessionKey == IF Kind[idx + 1] = "h2" THEN "masque" ELSE "wg"
Carries == Settled => net[idx] = "carries"
Breaks == Settled => net[idx] # "carries" \/ server # SessionKey

\* On a settled path the monitor makes up its mind within Patience rounds
\* (HealthMonitor: BlackHoleIsFound, GoodPathIsProven).
Decided ==
  IF Settled /\ ~(net[idx] = "carries" /\ proven')
    THEN rounds < Patience /\ rounds' = rounds + 1
    ELSE rounds' = 0

\* commitGood: under force or in mode h2 nothing is remembered.  Else the step is
\* remembered in memory, and in device.json if the save succeeds.
CommitGood ==
  /\ committed' = TRUE
  /\ lastErr' = Nil
  /\ IF Mode \in {"forced", "h2"}
       THEN UNCHANGED <<ladder, good, saved>>
       ELSE L!Good /\ lastGood' = idx /\ Save

\* Faulty: ready is reported of every session that is not dead.
ServeLivesUnproven ==
  /\ phase = "serve"
  /\ phase' = "pause"
  /\ \/ S!Confirm
     \/ S!Doubts
  /\ (~proven /\ proven') => Carries
  /\ Decided
  /\ status' = Report(TRUE, lastErr)
  /\ everProven' = IF proven' THEN everProven \cup {idx} ELSE everProven
  /\ UNCHANGED key
  /\ IF ~committed /\ proven'
       THEN CommitGood
       ELSE UNCHANGED <<ladder, committed, lastErr, good, saved>>
  /\ UNCHANGED <<target, forced, server, upAge, net>>

\* One round of serve that does not end it.
ServeLives ==
  /\ phase = "serve"
  /\ phase' = "pause"
  /\ \/ S!Confirm
     \/ S!Doubts
  /\ (~proven /\ proven') => Carries
  /\ Decided
  /\ status' = Report(proven', lastErr)
  /\ everProven' = IF proven' THEN everProven \cup {idx} ELSE everProven
  /\ UNCHANGED key
  /\ IF ~committed /\ proven'
       THEN CommitGood
       ELSE UNCHANGED <<ladder, committed, lastErr, good, saved>>
  /\ UNCHANGED <<target, forced, server, upAge, net>>

\* The last round: the monitor says Dead; herr: by the transport's own error.
ServeEnds ==
  /\ phase = "serve"
  /\ Breaks
  /\ S!Die
  /\ \E herr \in BOOLEAN :
       LET err == IF ~herr /\ ~proven THEN "no_transit" ELSE lastErr
           reason == IF err = Nil THEN "no_endpoint" ELSE err
       IN Advance(reason, err, Report(FALSE, lastErr))
  /\ ServeIsOver
  /\ UNCHANGED <<target, forced, keys, good, net, everProven>>

\* In automatic mode on h2: time to see whether WireGuard is back.
ProbeUpDue == Mode = "auto" /\ Kind[idx + 1] = "h2" /\ upAge = ProbeUpEvery

ProbeUp ==
  /\ phase = "pause"
  /\ ProbeUpDue
  /\ phase' = "switch"
  /\ target' = "probe"
  /\ upAge' = 0
  /\ UNCHANGED <<ladder, session, forced, keys, committed, lastErr, good, status,
                 net, rounds, everProven>>

\* The wait of a full pass is slept out.
Wake ==
  /\ phase = "rest" /\ rest = 0
  /\ phase' = "top"
  /\ UNCHANGED <<ladder, session, target, forced, keys, committed, upAge,
                 lastErr, good, status, net, rounds, everProven>>

\* Time passes: a tick between two rounds of serve, the wait after a full
\* pass, and what a handshake takes.
Tick ==
  /\ \/ phase = "pause" /\ ~ProbeUpDue /\ phase' = "serve"
     \/ phase = "rest" /\ rest > 0 /\ UNCHANGED phase
     \/ phase = "connect" /\ UNCHANGED phase
  /\ L!Tick
  /\ upAge' = IF phase = "pause" /\ upAge < ProbeUpEvery THEN upAge + 1 ELSE upAge
  /\ UNCHANGED <<session, target, forced, keys, committed, lastErr, good,
                 status, net, rounds, everProven>>

-----------------------------------------------------------------------------
\* From here on the paths stay as they are, the API and the disk work and
\* nobody stops the engine.  This is noticed where the next step is taken.
Settle ==
  /\ ~Settled
  /\ phase \in {"down", "top"}
  /\ net' \in Nets
  /\ UNCHANGED <<ladder, session, phase, target, forced, keys, committed,
                 upAge, lastErr, good, status, rounds, everProven>>

Loop == \/ Start \/ TakeStep
        \/ KeyFits \/ SwitchSucceeds \/ SwitchFails \/ SwitchRevoked
        \/ Connects \/ WGIsBack \/ NotEnrolled \/ ConnectFails
        \/ RestoreSucceeds \/ RestoreFails
        \/ ServeLives \/ ServeEnds \/ ProbeUp \/ Wake

Next == Loop \/ Tick \/ Stop \/ Crash \/ Settle

Spec == Init /\ [][Next]_vars

\* procd starts the engine and the loop never blocks for good: openTimeout, the
\* API client's timeout and the ticks of serve bound every wait.
Fairness == WF_vars(Tick) /\ WF_vars(Loop)

FairSpec == Spec /\ Fairness

-----------------------------------------------------------------------------
\* engine.go:408-417, the shell contract "ready: the tunnel is proven to carry
\* traffic": while the engine runs, ready is only ever reported of the session
\* that proved itself, and not any more when its step has been given up: not
\* in the pause after a full pass, not while the next step is being opened.
ReadyMeansProven ==
  phase # "down" /\ status # Nil /\ status.ready =>
    /\ proven
    /\ \/ phase \in {"serve", "pause", "restore", "top"} /\ verdict # "dead"
       \/ phase \in {"switch", "connect"} /\ target = "probe"

\* engine.go:309-313: a step is remembered only if a session on it was proven, in
\* memory and in device.json, whatever crashes, probes and failed saves come in
\* between; also one that a later save, of a key, has brought to the file.
LastGoodWasProven == {lastGood, savedGood} \ {Nil} \subseteq everProven

\* engine.go:291-295: no step is opened or served before the wait of the full
\* pass is over, whether the last step failed in open or in serve.
WaitIsSleptOut == phase \notin {"rest", "down"} => rest = 0

\* ladder.go:338-342, 348: a pass that is declared failed has met every step.
EachPassComplete == [][L!NextPass => attempted \cup {idx} = Steps]_vars

\* Once the outside world is stable and some step can carry traffic, readiness
\* comes again and again, from whatever keys and positions the failures before
\* have left (engine.go:344-358 repairs a key the server does not know).
Recovers ==
  (Settled /\ \E s \in Steps : net[s] = "carries")
    ~> (status # Nil /\ status.ready)
=============================================================================
