---------------------------- MODULE WarpLifecycle ----------------------------
(***************************************************************************)
(* The life of the WARP service under the controller                       *)
(* (platform/openwrt/warp-controller/src/service.rs, operation.rs,         *)
(* lifecycle.rs, health.rs) and its init script (etc/init.d/z2k-warp).     *)
(*                                                                         *)
(* Each press of enable, disable or restart is a process of its own.  It   *)
(* names itself in the operation marker without the mutation lock, works   *)
(* under the lock, and drops the lock while the init script runs, for the  *)
(* script calls the controller again.  A press that finds a later one in   *)
(* the marker gives up.  A cron tick checks and repairs; procd keeps the   *)
(* engine running; the engine becomes ready and ceases to be.              *)
(*                                                                         *)
(* The mutation lock is exclusive (MutationLock).  What is done under it   *)
(* in one go is one step.  The engine is installed and registered; nft     *)
(* sets, the probe's own route, and "remove" are left out, and so is the   *)
(* restart which a reload's health check may add to that of the tick.      *)
(***************************************************************************)
EXTENDS Sequences

CONSTANTS
  Presses,  \* the user's operations, each a process
  Calls,    \* what they may be, together
  Tick, None

Kinds == {"enable", "if-idle", "disable", "restart"}

ASSUME WarpLifecycleAssumption ==
  /\ Calls \subseteq [Presses -> Kinds]
  /\ Tick \notin Presses /\ None \notin Presses /\ None # Tick

VARIABLES
  config,   \* GAME_WARP_ENABLED
  marker,   \* the operation marker: who is at work
  lock,     \* who holds the mutation lock
  service,  \* procd: "none", "empty" (no instance), "main"
  process,  \* "absent", "runs", "dying" (its instance is gone)
  ready,    \* the engine's status file says so
  routes,   \* user traffic is routed into the tunnel
  claimed,  \* the one recovery attempt of the tick is spent
  kind, pc, was, answer,
  script,   \* script[a]: what the init script that a runs has still to do
  last      \* history: the press that began last

system == <<service, process, ready>>
press == <<kind, pc, was, answer>>
vars == <<config, marker, lock, system, routes, claimed, press, script, last>>

Actors == Presses \cup {Tick}
ScriptSteps == {"eventStop", "kill", "plan", "rules", "instance", "close", "health"}
Labels == {"idle", "prelocked", "waitLock", "check", "transit", "init",
           "after", "clear", "remove", "done"}

TypeOK ==
  /\ config \in BOOLEAN /\ ready \in BOOLEAN /\ routes \in BOOLEAN /\ claimed \in BOOLEAN
  /\ marker \in Presses \cup {None} /\ last \in Presses \cup {None}
  /\ lock \in Presses \cup {None}
  /\ service \in {"none", "empty", "main"}
  /\ process \in {"absent", "runs", "dying"}
  /\ kind \in [Presses -> Kinds]
  /\ pc \in [Presses -> Labels]
  /\ was \in [Presses -> BOOLEAN]
  /\ answer \in [Presses -> {"none", "ok", "failed"}]
  /\ script \in [Actors -> Seq(ScriptSteps)]

Init ==
  /\ config \in BOOLEAN
  /\ service = IF config THEN "main" ELSE "none"
  /\ process = IF config THEN "runs" ELSE "absent"
  /\ ready = FALSE /\ routes = FALSE /\ claimed = FALSE
  /\ marker = None /\ last = None /\ lock = None
  /\ kind \in Calls
  /\ pc = [o \in Presses |-> "idle"]
  /\ was = [o \in Presses |-> FALSE]
  /\ answer = [o \in Presses |-> "none"]
  /\ script = [a \in Actors |-> <<>>]

Goto(o, label) == pc' = [pc EXCEPT ![o] = label]
Running == process # "absent"
Usable == Running /\ ready

\* The answer, done or not (later, superseded, an error), and the lock is dropped
\* if it is held.
Answer(o, code) ==
  /\ answer' = [answer EXCEPT ![o] = code]
  /\ lock' = IF lock = o THEN None ELSE lock
  /\ Goto(o, "clear")
  /\ UNCHANGED <<kind, was>>

-----------------------------------------------------------------------------
\* operation.rs: no marker, or one's own: nobody has come later.
Current(o) == marker \in {None, o}

\* The marker names a process that is still there.
Active == marker # None /\ pc[marker] # "done"

\* enable --if-idle: nothing is done while anybody is at work.
Probe(o) ==
  /\ kind[o] = "if-idle" /\ pc[o] = "idle"
  /\ IF lock # None \/ Active
       THEN /\ answer' = [answer EXCEPT ![o] = "ok"] /\ Goto(o, "done")
            /\ UNCHANGED lock
       ELSE lock' = o /\ Goto(o, "prelocked") /\ UNCHANGED answer
  /\ UNCHANGED <<config, marker, system, routes, claimed, kind, was, script, last>>

\* begin: the marker is overwritten, whoever holds the lock.
Begin(o) ==
  /\ \/ kind[o] # "if-idle" /\ pc[o] = "idle" /\ Goto(o, "waitLock") /\ last' = o
     \/ pc[o] = "prelocked" /\ Goto(o, "check") /\ UNCHANGED last
  /\ marker' = o
  /\ UNCHANGED <<config, lock, system, routes, claimed, kind, was, answer, script>>

TakeLock(o) ==
  /\ pc[o] = "waitLock" /\ lock = None
  /\ lock' = o
  /\ Goto(o, "check")
  /\ UNCHANGED <<config, marker, system, routes, claimed, kind, was, answer, script, last>>

\* Thirty seconds have passed, or an update of the package is going on.
Busy(o) ==
  /\ pc[o] = "waitLock" \/ (pc[o] = "init" /\ script[o] = <<>> /\ lock # None)
  /\ Answer(o, "failed")
  /\ UNCHANGED <<config, marker, system, routes, claimed, script, last>>

GiveUp(o) ==
  /\ pc[o] = "check" /\ ~Current(o)
  /\ Answer(o, "failed")
  /\ UNCHANGED <<config, marker, system, routes, claimed, script, last>>

-----------------------------------------------------------------------------
Enable(o) ==
  /\ pc[o] = "check" /\ Current(o) /\ kind[o] \in {"enable", "if-idle"}
  /\ was' = [was EXCEPT ![o] = config]
  /\ config' = TRUE /\ claimed' = FALSE
  /\ Goto(o, "transit")
  /\ UNCHANGED <<marker, lock, system, routes, kind, answer, script, last>>

Disable(o) ==
  /\ pc[o] = "check" /\ Current(o) /\ kind[o] = "disable"
  /\ routes' = FALSE
  /\ Goto(o, "transit")
  /\ UNCHANGED <<config, marker, lock, system, claimed, kind, was, answer, script, last>>

Restart(o) ==
  /\ pc[o] = "check" /\ Current(o) /\ kind[o] = "restart"
  /\ IF config
       THEN /\ was' = [was EXCEPT ![o] = TRUE] /\ claimed' = FALSE /\ routes' = FALSE
            /\ Goto(o, "transit")
            /\ UNCHANGED <<lock, kind, answer>>
       ELSE Answer(o, "ok") /\ UNCHANGED <<claimed, routes>>
  /\ UNCHANGED <<config, marker, system, script, last>>

\* Enabling: the nft sets or marks could not be written.
SyncFails(o) ==
  /\ pc[o] = "transit" /\ kind[o] \in {"enable", "if-idle"}
  /\ config' = FALSE
  /\ Answer(o, "failed")
  /\ UNCHANGED <<marker, system, routes, claimed, script, last>>

\* Disabling: the routes were not removed; or /proc or ubus is unreadable.
Unreadable(o) ==
  /\ pc[o] = "transit"
  /\ Answer(o, "failed")
  /\ UNCHANGED <<config, marker, system, routes, claimed, script, last>>

\* lifecycle.rs: what the init script is asked for.
ServiceAction(k, wasOn) ==
  LET active == service # "none" IN
  IF k = "disable" THEN IF active \/ Running THEN "stop" ELSE "none"
  ELSE IF ~active /\ Running THEN "defer"
  ELSE IF ~active THEN "start"
  ELSE IF k = "restart" THEN "restart"
  ELSE IF ~Running THEN "start"
  ELSE IF ~wasOn THEN "restart" ELSE "reload"

Start == <<"plan", "rules", "instance">>
Stop == <<"eventStop", "kill">>
Script == [start |-> Start, stop |-> Stop, restart |-> Stop \o Start,
           reload |-> <<"health">>]

\* Faulty: the lock is kept over the init script.
TransitKeepingLock(o) ==
  LET action == ServiceAction(kind[o], was[o]) IN
  /\ pc[o] = "transit"
  /\ \/ action = "defer" /\ Answer(o, "failed") /\ UNCHANGED script
     \/ /\ action = "none" /\ Goto(o, "after")
        /\ UNCHANGED <<lock, kind, was, answer, script>>
     \/ /\ action \in DOMAIN Script
        /\ UNCHANGED lock
        /\ script' = [script EXCEPT ![o] = Script[action]]
        /\ Goto(o, "init")
        /\ UNCHANGED <<kind, was, answer>>
  /\ UNCHANGED <<config, marker, system, routes, claimed, last>>

\* transition_service: observe, then drop the lock and run the init script.
Transit(o) ==
  LET action == ServiceAction(kind[o], was[o]) IN
  /\ pc[o] = "transit"
  /\ \/ action = "defer" /\ Answer(o, "failed") /\ UNCHANGED script
     \/ /\ action = "none" /\ Goto(o, "after")
        /\ UNCHANGED <<lock, kind, was, answer, script>>
     \/ /\ action \in DOMAIN Script
        /\ lock' = None
        /\ script' = [script EXCEPT ![o] = Script[action]]
        /\ Goto(o, "init")
        /\ UNCHANGED <<kind, was, answer>>
  /\ UNCHANGED <<config, marker, system, routes, claimed, last>>

\* Faulty: a lock that is busy is taken for one's own.
RelockAnyway(o) ==
  /\ pc[o] = "init" /\ script[o] = <<>>
  /\ lock' = IF lock = None THEN o ELSE lock
  /\ Goto(o, "after")
  /\ UNCHANGED <<config, marker, system, routes, claimed, kind, was, answer, script, last>>

\* The init script has ended: the lock again, and is one still the last?
Relock(o) ==
  /\ pc[o] = "init" /\ script[o] = <<>> /\ lock = None
  /\ \/ /\ Current(o)
        /\ lock' = o /\ Goto(o, "after")
        /\ UNCHANGED <<kind, was, answer>>
     \/ ~Current(o) /\ Answer(o, "failed")
     \/ Answer(o, "failed")  \* procd refused
  /\ UNCHANGED <<config, marker, system, routes, claimed, script, last>>

\* wait_ready_and_reconcile: the lock is held until the engine is ready, a
\* later press shows in the marker, or the time is up.
WaitReady(o) ==
  /\ pc[o] = "after" /\ kind[o] # "disable"
  /\ \/ ~Current(o) /\ Answer(o, "failed") /\ UNCHANGED routes
     \/ Current(o) /\ Usable /\ Answer(o, "ok") /\ routes' = TRUE
     \/ Current(o) /\ Usable /\ Answer(o, "failed") /\ routes' = FALSE  \* fail_open
     \/ Current(o) /\ ~Usable /\ Answer(o, "failed") /\ UNCHANGED routes
  /\ UNCHANGED <<config, marker, system, claimed, script, last>>

\* Disabling: the flag is written last, once the process is gone.
WaitStop(o) ==
  /\ pc[o] = "after" /\ kind[o] = "disable"
  /\ \/ /\ ~Running
        /\ config' = FALSE /\ routes' = FALSE /\ claimed' = FALSE
        /\ Answer(o, "ok")
     \/ Running /\ Answer(o, "failed") /\ UNCHANGED <<config, routes, claimed>>
  /\ UNCHANGED <<marker, system, script, last>>

\* clear_if_owner: read, and then remove.
ClearRead(o) ==
  /\ pc[o] = "clear"
  /\ Goto(o, IF marker = o THEN "remove" ELSE "done")
  /\ UNCHANGED <<config, marker, lock, system, routes, claimed, kind, was, answer, script, last>>

ClearRemove(o) ==
  /\ pc[o] = "remove"
  /\ marker' = None
  /\ Goto(o, "done")
  /\ UNCHANGED <<config, lock, system, routes, claimed, kind, was, answer, script, last>>

-----------------------------------------------------------------------------
\* Faulty: whoever is not ready keeps its routes.
ConvergeLeaving ==
  \/ config /\ Usable /\ routes' = TRUE
  \/ ~config /\ routes' = FALSE
  \/ config /\ ~Usable /\ UNCHANGED routes

\* Faulty: routes that are missing are not put back.
ConvergeRemoving ==
  \/ config /\ Usable /\ UNCHANGED routes
  \/ routes' = FALSE

\* health::plan and what follows: the routes are those of a ready engine that
\* is wanted, or are taken away.  A repair that fails takes them away, too.
Converge ==
  \/ config /\ Usable /\ routes' = TRUE
  \/ routes' = FALSE

\* The controller's own events, called by the init script, need the lock; one
\* that waited in vain for it fails.
Event(a) ==
  /\ lock = None
  /\ \/ /\ Head(script[a]) = "eventStop"
        /\ routes' = FALSE /\ claimed' = FALSE
     \/ /\ Head(script[a]) \in {"rules", "health"}
        /\ Converge /\ UNCHANGED claimed
  /\ script' = [script EXCEPT ![a] = Tail(@)]
  /\ UNCHANGED <<config, marker, lock, system, press, last>>

\* An event fails: it waited in vain for the lock, or some of its own work was
\* refused, and what it did before stays done.  A start that cannot prepare its
\* rules, or stop, opens no instance; a stop goes on and kills.
EventFails(a) ==
  /\ \/ Head(script[a]) \in {"eventStop", "rules", "health"}
        /\ UNCHANGED <<routes, claimed>>
     \/ /\ lock = None /\ Head(script[a]) = "eventStop"
        /\ routes' \in {routes, FALSE} /\ claimed' = FALSE
     \/ /\ lock = None /\ Head(script[a]) \in {"rules", "health"}
        /\ Converge /\ UNCHANGED claimed
  /\ script' = [script EXCEPT ![a] =
                  IF Head(@) = "rules" THEN <<"close">> ELSE Tail(@)]
  /\ UNCHANGED <<config, marker, lock, system, press, last>>

\* start_service asks whether WARP is wanted, and then prepares the start; when
\* that cannot be told it puts the start off, without an instance.
Plan(a) ==
  /\ Head(script[a]) = "plan"
  /\ \/ config /\ script' = [script EXCEPT ![a] = Tail(@)]
     \/ ~config /\ script' = [script EXCEPT ![a] = <<"eventStop", "close">>]
     \/ script' = [script EXCEPT ![a] = <<"close">>]
  /\ UNCHANGED <<config, marker, lock, system, routes, claimed, press, last>>

Dismissed == IF process = "runs" THEN "dying" ELSE process

Procd(a) ==
  /\ \/ /\ Head(script[a]) = "kill"
        /\ service' = "none" /\ process' = Dismissed /\ UNCHANGED claimed
     \/ /\ Head(script[a]) = "close"
        /\ service' = "empty" /\ process' = Dismissed /\ UNCHANGED claimed
     \/ /\ Head(script[a]) = "instance"
        /\ service' = "main" /\ claimed' = FALSE /\ UNCHANGED process
  /\ script' = [script EXCEPT ![a] = Tail(@)]
  /\ UNCHANGED <<config, marker, lock, ready, routes, press, last>>

InitStep(a) ==
  /\ script[a] # <<>>
  /\ Event(a) \/ Plan(a) \/ Procd(a)
InitStepFails(a) == script[a] # <<>> /\ EventFails(a)

-----------------------------------------------------------------------------
\* Faulty: the tick keeps the lock over the restart it runs.
HealthCheckKeepingLock ==
  /\ lock = None /\ script[Tick] = <<>>
  /\ Converge
  /\ IF config /\ ~Running /\ service = "empty" /\ ~claimed
       THEN /\ claimed' = TRUE /\ script' = [script EXCEPT ![Tick] = Stop \o Start]
            /\ lock' = Tick
       ELSE UNCHANGED <<claimed, script, lock>>
  /\ UNCHANGED <<config, marker, system, press, last>>

\* health-check, from cron.  A service that was registered without its instance
\* is restarted, once, after the lock was dropped.
HealthCheck ==
  /\ lock = None /\ script[Tick] = <<>>
  /\ Converge
  /\ IF config /\ ~Running /\ service = "empty" /\ ~claimed
       THEN claimed' = TRUE /\ script' = [script EXCEPT ![Tick] = Stop \o Start]
       ELSE UNCHANGED <<claimed, script>>
  /\ UNCHANGED <<config, marker, lock, system, press, last>>

\* ready-event and startup-reconcile: only while the marker names no press that
\* is at work; a missing marker is enough.
ReadyEvent ==
  /\ lock = None /\ ~Active
  /\ config /\ Usable
  /\ routes' \in BOOLEAN
  /\ UNCHANGED <<config, marker, lock, system, claimed, press, script, last>>

\* procd starts what is registered, and again what has died; what it has
\* dismissed ends.
Spawn ==
  /\ service = "main" /\ process = "absent"
  /\ process' = "runs" /\ ready' = FALSE
  /\ UNCHANGED <<config, marker, lock, service, routes, claimed, press, script, last>>

Exit ==
  /\ process = "dying" \/ (process = "runs" /\ service = "main")
  /\ process' = "absent" /\ ready' = FALSE
  /\ UNCHANGED <<config, marker, lock, service, routes, claimed, press, script, last>>

EngineStatus ==
  /\ Running /\ ready' = ~ready
  /\ UNCHANGED <<config, marker, lock, service, process, routes, claimed, press, script, last>>

Work(o) ==
  \/ Probe(o) \/ Begin(o) \/ TakeLock(o) \/ GiveUp(o)
  \/ Enable(o) \/ Disable(o) \/ Restart(o) \/ Transit(o) \/ Relock(o)
  \/ WaitReady(o) \/ WaitStop(o) \/ ClearRead(o) \/ ClearRemove(o)
Mishap(o) == Busy(o) \/ SyncFails(o) \/ Unreadable(o)

Next ==
  \/ \E o \in Presses : Work(o) \/ Mishap(o)
  \/ \E a \in Actors : InitStep(a) \/ InitStepFails(a)
  \/ HealthCheck \/ ReadyEvent \/ Spawn \/ Exit \/ EngineStatus

Spec == Init /\ [][Next]_vars

\* Whoever polls the lock finds it free in the end, if it is free again and
\* again; cron ticks; what can be repaired is not for ever repaired in vain;
\* a dismissed process ends.  No timeout is relied on, except where the wait
\* itself is the work.
FairSpec ==
  /\ Spec
  /\ \A o \in Presses : SF_vars((Work(o) \/ InitStep(o)) /\ pc[o] # "idle")
  /\ SF_vars(InitStep(Tick))
  /\ SF_vars(HealthCheck /\ (config /\ Usable => routes'))
  /\ WF_vars(Exit /\ process = "dying")

-----------------------------------------------------------------------------
\* service.rs:858-893: who works on the WARP state holds the lock, also after
\* it was dropped for the init script.
HolderWorks ==
  \A o \in Presses : pc[o] \in {"prelocked", "check", "transit", "after"} => lock = o

\* service.rs:858: no press waits for its own init script, whose calls into the
\* controller wait for the press: each is answered though no wait times out.
PressIsAnswered == \A o \in Presses : pc[o] = "waitLock" ~> pc[o] = "done"

\* openwrt-warp-contract.md:59: routes into a tunnel that is off, dead or not
\* ready do not stay.
Sound == routes => config /\ Usable
StaleRoutesGo == ~Sound ~> Sound

\* The same line: what is enabled and ready comes into use, whichever steps of
\* presses, ticks and crashes went before.
TunnelIsUsed == <>[](config /\ Usable) => <>routes

\* files/z2k-warp.sh:627-634: "the last action is the one that counts"; an
\* enabling that was interrupted does not start the daemon after the disabling
\* stopped it.  When all is quiet, a press that was the last and was answered
\* "done" is what the system looks like.
Quiet == \A o \in Presses : pc[o] = "done"
LastPressHolds ==
  Quiet /\ last # None /\ answer[last] = "ok" =>
    /\ kind[last] = "enable" => config
    /\ kind[last] = "disable" => ~config /\ process # "runs"
=============================================================================
