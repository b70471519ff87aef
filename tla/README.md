# A TLA+ model of the WARP subsystem of z2k and of its panel's jobs

z2k makes a home router (OpenWrt, Entware) reach blocked services. Most of the
repository is shell, lists and menus around `nfqws2`. The part with logic of
its own over time is the WARP subsystem, from the press of a switch in a browser
down to the packets of a tunnel:

* the web panel (JavaScript, `src/webpanel/www/js`): a press asks the router for
  a background job, which the page follows while its controls are locked;
* the WARP controller (Rust, `src/platform/openwrt/warp-controller`): short-lived
  commands (hotplug, init script, panel, watchdog) that all change the same
  routing state and are serialised by a lock directory;
* `z2k-warpd` (Go, `src/z2k-warpd/internal`): a daemon that keeps one tunnel to
  Cloudflare alive over whichever transport the line lets through;
* around them the DNS observer of the domain router, the Telegram proxy and the
  shell transactions (update, release).

The modules here model the daemon's control loop with the components it is built
on, its shared TUN device, the controller's lock and the life cycle it drives, and
the panel's jobs. Line numbers are those of the sources.

## 1. Inventory

### Components, their state and operations

| component | state | operations | interacts with |
|---|---|---|---|
| status writer `internal/status/status.go` | last write time, pending value, timer, the file | `Write`, `Flush`, `Remove`, the goroutine of `time.AfterFunc` | called by the engine loop; the file is read by shell |
| transport ladder `internal/ladder/ladder.go` | steps, position, count tried, start of the pass | `newAuto`, `NewMode`, `NewPreferred`, `Next`, `Good`, `Top` | owned by the engine loop |
| health monitor `internal/health/health.go` | proven, failures, successes, time of last probe, rx/tx baseline | `Assess`, `probe`, `Reset` | called once a tick by `serve`; probes go through the tunnel |
| engine loop `internal/engine/engine.go` | device in memory, ladder, monitor, last error | `Run`, `advance`, `open`/`openOnce`, `serve`, `commitGood`, `wgReachable` | API, transports, device.json, status writer |
| account `internal/account/account.go` | device.json, the device at Cloudflare | `Register`, `SwitchTunnel`, one-shot repair | called by the engine |
| edge scan `internal/engine/edge_scan.go`, `internal/edgepick` | ranked edges | scan before the first step | feeds the ladder |
| shared TUN `internal/tunshare/tunshare.go` | the current handle, a queue each | reader goroutine, `Handle`, `Handle.Read`, both `Close` | between tunnel device and transports |
| domain router `internal/domainroute` | pair cache with TTLs, kernel sets | DNS packets, reconciliation, expiry | nftables |
| mutation lock `warp-controller/src/lock.rs` | lock directory with owner and pid file | `acquire`, `acquire_for_process`, `reap_if_stale`, `drop`, `release_for_process` | every controller command |
| controller lifecycle `warp-controller/src/service.rs`, `operation.rs`, `lifecycle.rs`, `health.rs`, `recovery.rs`; `etc/init.d/z2k-warp` | operation marker, desired and actual state, routes, the claimed recovery | enable (`--if-idle`), disable, restart, events, health-check, ready-event | the lock, procd, nft, ip |
| panel jobs `webpanel/www/js/job.js`, `pages/warp.js`, `dashboard.js`, `toggles.js` | jobs followed, poll or timer of each, error counts, `.disabled` and `lockBackup` of each control | press, `trackJob`, `tick`, `wake`, `finish`, `setLockAware`, `_updateGlobalUILock` | the router's job files over HTTP |
| shell transactions `src/lib`, `src/platform/openwrt` | journals, backups, state files | update, rollback | the file system |
| Telegram proxy `src/platform/openwrt/tg-proxy` | connection pools | relay tasks | sockets |

### What is hard, and what makes each part correct

* **Status writer.** `Timer.Stop` does not recall a goroutine that has started
  and waits for the mutex. Such a goroutine clears a `w.timer` that belongs to
  a newer `Write`. Correct means: a deferred value always has a timer, it
  arrives, the last value wins, the rate holds, `Remove` is final.
* **Ladder.** A pass may begin at `last_good` in the middle of the list, and
  its wait is counted from its beginning. Correct means: a pass fails only
  when every step was tried, passes are spaced, no step is left out. The list
  of steps is computed from five inputs; it may not come out empty or lose one.
* **Health monitor.** Two probe pauses, traffic counters that grow in a black
  hole, a verdict read from a probe that was skipped. Correct means: proof is
  earned, death is confirmed, a black hole is found and a good path proven in
  bounded time.
* **Engine.** Three copies of the key type (memory, device.json, Cloudflare)
  that differ after a lost answer, a failed save or a kill; a probe that
  switches the key under a session in use. Correct means: `ready` is only said
  of a proven session, memory is only of a proven step, the pause is slept,
  and readiness comes back once the world is stable.
* **Mutation lock.** Every access is by path, the directory may be another one
  by then, and the owner that was read may have ended. A process may be killed at
  each step. Correct means: one holder, no
  reaper deletes the lock of a living owner, and whoever asks is answered.

* **Shared TUN.** The reader picks the current handle under the mutex and sends to
  its queue outside of it; handles are closed by their successor, by their own
  transport and by the teardown. Correct means: no packet goes to a transport that
  had been replaced when the packet was read, a late `Close` does not cut off the
  new handle, and a replaced transport is told to stop.
* **Controller lifecycle.** The marker is written without the lock; the lock is
  dropped while the init script runs, for the script calls the controller again.
  Correct means: who changes state holds the lock, nobody waits for himself, the
  last press counts, routes into a dead tunnel go and those of a live one come.
* **Panel jobs.** Answers come late, in any order or not at all, timers and a tab
  that is shown again both send polls, jobs overlap. Correct means: one poll or one
  timer per job, a control comes back as its page wanted it, and no job is
  followed for ever.

`PROJECT.json` lists every hazard at its line with the properties about it.

## 2. Modules

```
StatusWriter ------ StatusWriterProofs       MCStatusWriter
Ladder -----------+ LadderProofs             MCLadder
LadderSteps ------+                          MCLadderSteps
SessionHealth <---- HealthMonitor            MCHealthMonitor   (refinement)
                    HealthMonitorProofs
Ladder, SessionHealth ----> Engine           MCEngine          (composition)
                            EngineProofs
TunPromise <------- TunShare                 MCTunShare        (refinement)
                    TunShareProofs
MutationLock ------ MutationLockProofs       MCMutationLock
WarpLifecycle ----- WarpLifecycleProofs      MCWarpLifecycle
PanelJobs --------- PanelJobsProofs          MCPanelJobs
```

**StatusWriter.** All four operations hold `w.mu` for their whole body, so each
is one action. A timer is armed, then fired (its goroutine waits for the mutex
and cannot be stopped), then free again. Time is kept as ages that saturate:
`sinceLast` is now minus `w.last`, `left[t]` what is left of timer `t`. `Replace`
is the atomic write, which leaves the old file when it fails. The history
variables say whether a goroutine of a due timer was overtaken by a caller
(`prompt`), whether a write failed (`written`), what the newest value is
(`latest`) and whether a timed write came too soon (`early`). `Overtakes` is part
of every caller's action, because only the scheduler decides who gets the mutex.

**Ladder.** `Next` (two actions: more of the pass to come, or the pass failed as
a whole), `Good`, `Top`. Steps are indices. `passAge` is now minus `passStart`,
negative while the caller sleeps. `rest` is what is left of the wait. `attempted`,
`span` and `tooSoon` are histories by which the code's counters are judged: they
are computed apart from `tried` and `passStart`. `Top` may come at any step and any
count, as nothing in `ladder.go` or its caller asks for either; `returned` is the
history that it came with steps counted and moved the position, so that the pass
has two beginnings. `PassCompleteUnlessReturned` is what the count is good for short of
that, `EachPassComplete` of `Engine` asks for it of all passes, and fails.

**LadderSteps.** The construction of the list: expansion of fallback blocks,
deduplication, ports, the insertion of h2, the mode filters, verified edges, the
start position. A behaviour takes one input (`BuilderInit`) and builds the ladder of
it (`Build`); the loops of the code that append are folds, the filters one operator,
`Among`. The module checks the ladder over every input of a bounded set, and the
theorems are about every input. Its names differ from those of `Ladder` (`from` for
`l.idx`, `BuilderSpec`), so that one proof module can extend both.

**HealthMonitor, SessionHealth.** `Assess` branch by branch, each with the three
outcomes of `probe` (skipped, passed, failed). The environment chooses the
snapshot (an error, disconnected, rx grown, tx grown) and the path. `path` says
what a probe would meet; `outcomes` and `pathAge` are histories.
`SessionHealth` is the promise without probes and time, and `HealthMonitor`
implements it (`ImplementsSessionHealth`).

**Engine.** `L == INSTANCE Ladder` and `S == INSTANCE SessionHealth`: the engine is
composed of the ladder as it is and of what the monitor promises. The loop is
cut where it waits for the world: `TakeStep`, the switch of the key (`KeyFits`,
`SwitchSucceeds`, `SwitchFails`, `SwitchRevoked`), the connection (`Connects`,
`NotEnrolled`, `ConnectFails`), the rounds of `serve` (`ServeLives`, `ServeEnds`,
`ProbeUp`), the restoring of the key after a failed probe, and the sleep.
`target` says for whom `openOnce` works: the ladder's step or the probe for WG.
`SwitchErrs` has the three outcomes of `SwitchTunnel` that return an error:
nothing done; done at the server and the answer lost; done, and `d.Tunnel` set
before the answer turned out to lack its peers (`account.go:419`). `SwitchRevoked`
has them too, since the refusal may be the relay's after such a direct attempt.
The device is kept twice, in memory (`key`, `lastGood`) and in device.json (`saved`,
`savedGood`). `Save` writes all of memory or nothing, so that a `last_good` whose own
save failed reaches the file with the next save of a key, or is lost with the
process. `Stop` and
`Crash` may come between any two steps. The transports of the steps are WG, h2,
WG in automatic mode, which is the order of `newAuto` at the size at which every
position relative to h2 exists.

**MutationLock.** One step for each access to the lock directory or to `/proc`:
`ReadOwner` reads a name and `OwnerStat` looks it up, `ReadPid` and `PidStat` likewise.
Two operations of several accesses are one step each. `remove_dir_all` is one, but
while somebody is about to do it readers may miss either file (`Missing`), and a kill
may leave any part (`Remains`). The second look at a quarantine is one, for nobody else
writes there. `dir` is what is at the lock path, `quarantine[p]` what reaper `p` has
renamed away, `seen[p]` what it has read in this call of `reap_if_stale`. A process
is one lifetime (`owner` holds pid and start time, so that a pid that comes back is
another process), which ends normally (`Exit`) or by a kill (`Die`). `Age` stands for
300 s; it is not enabled while a living process is between `mkdir` and its files, or
in the middle of a removal. `ByCLI` processes are shells, for which a child takes and
drops the lock (`acquire_for_process`): they can die while the child works.
`disturbed` is a history: somebody was killed, or a lock with an owner grew old, or
an owner ended after a reaper had read its name and before it looked it up.

**TunShare, TunPromise.** The reader's loop is cut at the read of the device, at the
mutex (`Pick`) and at each send; `Handle()` is the swap under the mutex (`Handle`), the
`Close` of the old handle (`CloseOld`, `Detach`) and the return; `Shared.Close()` takes the
current handle, closes it and then the device. `Handle.Close` runs once, whoever
calls it: its channel is closed first (`CloseDone`), and `cur` forgotten only after
that, and only if it is still this handle (`Detach`). Handles and packets are
numbered; `era[p]` is the newest handle when the device gave `p`, `owner[p]` who
read it. `TunPromise` says what the transports may rely on: a packet goes to one
transport at most, to none that was replaced before it was given, and in order
over all of them. `KeepsPromise` is the refinement.

**WarpLifecycle.** Each press is a process with a program counter; what it does
under the lock in one go is one action. The lock is taken to be exclusive and
always free again, which is the subject of `MutationLock`. `script[a]` is what the
init script that actor `a` has called still has to do: its own calls of the
controller (`eventStop`, `rules`, `health`) need the lock, its calls of procd (`kill`,
`instance`, `close`) do not. An event may fail with the lock free as well as for want
of it, and a start may be put off because nobody can tell whether WARP is wanted
(`Plan`). `Converge` is the plan of `health.rs` with its failures,
`HealthCheck` the cron tick with its one recovery. `service` and `process` are procd's
two answers, which the code asks for apart. What a press may find is the engine
running or off; `ready` goes up and down freely.

**PanelJobs.** Each handler of the page is one action, cut at `await`. `asking` and
`timers` count the polls and timers of a job, so that "one of either" is a statement
and not built in. `NewBackup` and `NewDisabled` are `_updateGlobalUILock` for all
controls at once; `Finish` has its order (unlock, then `onDone`). `wish` is what the
page last wanted of `.disabled`, `crossed` the controls the page wrote past the lock.
The three pages differ in when they give a control back, and the model has all
three ways. `StatusRead` is every loader that goes through `setLockAware`; controls
that start no job are left out, and with them the one that its loader writes past
the lock (the WDTT box, `warp.js:577`): it would be among `crossed`.

Operators that begin with a comment "Faulty:" are no part of any specification;
each states a plausible defect that some property is meant to exclude.

## 3. Runs

| run | question | size |
|---|---|---|
| `status` | does every deferred value arrive, in order and in time, with late goroutines and failing writes? | 2 values, 3 timers, interval 2; 17 460 states |
| `ladder_safe` | do passes count every step from every start, with returns to the top at any time, and keep the cooldown? | 5 steps, cooldown 8; 922 states |
| `ladder_steps` | is the list of steps sound, ordered and begun at the right place for every input? | 7 files, 5 port lists, 5 alternatives, 6 modes, 5 starts, 5 rankings, with and without issued address |
| `health_small` | is the monitor right about dead and proven sessions, and in time? | 2 failures, 2 successes, periods 2 and 4, doubt 6 |
| `engine_auto` | is the loop sound under every failure, and does it recover? | 3 steps, cooldown 2, probe for WG every 2; 980 780 states |
| `engine_pass` | has each pass that is declared failed met every step? (no) | as `engine_auto` |
| `lock_safe` | does the lock exclude while undisturbed, and with kills is it never taken from a living owner and never lost? | 3 processes, one takes it again and again, 2 may die, 1 is a shell; held locks may grow old; 551 977 states |
| `lock_exclusive` | does it exclude whatever happens? (no) | 4 processes, each takes it once; nobody is killed, nothing grows old |
| `tunshare_handover` | do reader and closers keep the promise in any order, and does the handover end? | 2 handles, 3 packets, batches of 2, queue of 1; 317 453 states |
| `warp_all` | with two presses, cron, procd and a dying engine: lock, answers, routes | each of the 10 pairs of presses; 176 069 states |
| `warp_last` | does the last press always count? (no) | enable and disable |
| `panel` | are polls chained, controls given back and jobs let go? | 3 jobs, 2 controls, 2 errors, 2 refusals; 394 419 states |

**Why the bounds are enough.** The status writer needs a timer of the current
`Write` and two late ones for one goroutine to clear another's timer and a third
to be there; two values tell old from new. The ladder's bounds let a pass start
before, at and after the middle, and be both shorter and longer than the
cooldown; the theorems remove them. In `ladder_steps` a line of the file is a
host, a block too small, and blocks that give fewer, just enough and more than
`HostsPerNet` hosts; a port list has valid, invalid, repeated and default ports;
the list of WG steps is shorter than, as long as and longer than `EarlyWG`. In
the monitor, the proof takes two spaced probes and death two failures, the
smallest numbers for which "in a row" means something; `MaxPathAge` is beyond
every bound the properties name. The engine has WG before and behind h2; a
cooldown of 2 lets a pass be shorter or longer than it. Four processes are
what `Exclusive` needs to fail when each takes the lock once and nobody is killed (the
old owner, the reaper, the new owner, and the one that takes the path from it). Three,
one of which comes again, are enough for a reaper to meet a dead owner and a new one,
and two reapers; the theorems are about any number. Two handles are a replaced one and its
successor; three packets in batches of two let a handle be made within a batch
and after it, and a queue of one makes it overflow; three handles were run with
two packets (634 962 states), too, and the safety theorems are about any number.
Two presses are the one that is superseded and the one that supersedes; the tick
and the init scripts come on top of them. Three jobs are two of the WARP card,
which does not lock itself out, and one of a toggle, which locks the card and is
locked by it; two errors and two refusals are the smallest limits at which a row
can be broken.

**CHECK_DEADLOCK FALSE** stands where the system may stop: in the configurations of
the lock (all processes may have ended), of `LadderSteps` (the list has been built)
and of `TunShare` (the bound on packets and handles is reached and all is closed).

### Fairness

* `StatusWriter`: the clock advances, a due timer fires, its goroutine gets the
  mutex (Go's mutex is starvation-free, nothing else holds it for long). Nothing
  is assumed of callers: `DeferredArrives` holds even if they never stop writing.
* `Ladder`: time passes and the caller goes on failing; this is the only caller
  for which "every step comes up" is a question.
* `Engine`: time passes and the loop goes on. `openTimeout`, the API client's
  timeout and the ticks of `serve` bound each wait, and procd starts the process
  again. `Recovers` speaks of a world that became stable
  (`Settle`): paths stay, the API and the disk work, nobody kills the engine. That
  is a premise, not fairness; before it, everything may fail for ever. `Patience`
  is the number of rounds in which the monitor decides on a stable path; that it
  does is what `BlackHoleIsFound` and `GoodPathIsProven` say of `HealthMonitor`.
* `MutationLock`: a living process runs on, its work under the lock ends, and it
  asks again when it was refused (the acquire loop, and callers that retry); time
  passes. `AskingIsAnswered` has the premise `CollisionsEnd`: two reapers in
  lockstep may for ever look at the path while the other has the directory in
  its quarantine. The code's sleeps make that improbable and do not exclude it.
  Its other premise, `TakersEnd`, says that a process that takes the lock again
  ends some time: one that never does may come first each time.
* `TunShare`: a `Close` that has begun goes on, and a `Read` whose channel is closed
  returns in the end although packets may be there too (Go's `select` chooses at
  random). Nobody is obliged to begin a `Close`, a transport may stop by itself.
* `WarpLifecycle`: a press that has begun, and the scripts, get the lock if it is free
  again and again (they poll it); cron ticks, and a repair does not fail for ever;
  a dismissed process ends. No timeout is relied on where the lock is waited for:
  a press that waited for its own script would violate `PressIsAnswered`, although
  the code would get out of it after 30 s with an error.
* `PanelJobs`: timers go off, each request is answered or fails, jobs end.

## 4. What is proved

All theorems are for every value of the constants, under the named assumptions
of the modules (intervals and numbers of steps are positive, the null values
are no values). The proof modules hold the component's theorems.

* **StatusWriterProofs.** `IInv` adds to the types that `w.timer`, when set, is
  armed or fired, and that a value is pending exactly when a timer is set. That
  is why a late goroutine does no harm when it clears another timer: it takes
  the pending value in the same critical section. From it `DeferredIsTimed`
  (`PendingHasTimer`) and `RemovedStaysRemoved` (`RemoveIsFinal`). `PInv`, inductive
  together with `IInv`, is about runs in which no goroutine is overtaken: the only
  timer is `w.timer`, it goes off exactly at the end of the interval, and what it
  will write is the newest value. From it `LastValueWins` (`LastWins`) and
  `RateIsLimited` (`RateLimited`).
* **LadderProofs.** `PassComplete` is not inductive: that N failures met each step
  depends on where each lies behind the current one. `Reach` says so with a
  distance on the circle, as long as no return to the top has moved the position in
  the middle of the count (`returned`), and `Clock` ties the age the code sees to the history of
  the pass. Theorems `PassesAreComplete` and `PassesAreSpaced`, for a ladder of any
  length, any start, any cooldown and returns to the top at any time.
  For `LadderSteps` the invariant is short (`BuilderInv`: the steps are what `Build` makes
  of the input) and the argument is about the operators. `FoldLeft` is the value of
  a function that `MapThenFoldSet` chooses; `FoldExists` shows that there is one,
  `FoldRecursion` what it does with one element more, and from there `AmongStep`,
  `DistinctStep`, `AddHostsStep` and `ExpandFallbackStep` give each operator its equation.
  The library's induction theorems take an operator as a parameter and cannot be
  used; `SeqSetInduction` is induction over sequences for membership in a *set*, from
  the well-foundedness of the naturals. By it `AmongFacts`, `DistinctFacts` and
  `AddHostsFacts` say what the filters, the deduplication and `addHost` keep, and
  `DistinctConcat` that verified edges go before the others and displace none.
  `LadderFor` is what a ladder for an input must be; every way `Build` can go makes
  one (`BuiltFacts`). From it `SoundLadder` (`LadderIsSound`), `OrderedLadder`
  (`LadderIsOrdered`) and `StartIsHonoured` (`StartHonoured`), for every list of ports,
  alternatives, fallback file (with blocks of any size), mode, memory and
  verified edges. That the ladder is not empty and begins at one of its steps is what
  `Ladder` assumes of `N` and of the first `idx`.
* **HealthMonitorProofs.** `Refinement` maps every branch of `Assess` to a step of
  `SessionHealth`; it needs no invariant, since each branch checks that the session
  lives. `IInv` adds to the types that the counters are true counts of the history:
  the newest `fails` outcomes are failures (`FailRow`), and of an unproven session
  the newest `successes` are successes spaced by `ProveEvery` (`SuccessRow`). From it
  `DeathIsConfirmed` (`DeadIsConfirmed`) and `ProofIsEarned` (`ProvenIsEarned`, an action
  property). The two bounds on time need `Pace`, inductive together with `IInv`
  (`PaceKept`): a living session was probed within the last pause (`ProbedInTime`), and
  each pause the path has lasted has brought a failure on a dead one (`DownPace`) and
  a success on a good one (`UpPace`). From it `BlackHoleFound` (`BlackHoleIsFound`) and
  `GoodPathProven` (`GoodPathIsProven`), for all periods and limits.
* **MutationLockProofs.** `IInv` says that an owner found dead stays dead, that
  what a reaper has renamed away stays in its quarantine, and that it deletes
  only what it has read again and found to match. From it `LivingOwnersAreSafe`
  (`OnlyDeadAreReaped`), for any number of processes, any kills, torn files and
  old locks. `CalmInv` is about runs without kills, old owned locks and owners that
  end between a reaper's two looks: one process at a time is between `mkdir` and
  the removal, the directory is its own, who has been read and not yet looked up
  is alive, and so no reaper has anything to rename. From it `LockExcludes`
  (`MutualExclusion`) and `HolderIsTheOwner` (`HolderIsNamed`).
* **EngineProofs.** `IInv` adds to the types that what the ladder computes as the wait
  stays within the cooldown (`Clock`: a pass that is not asleep began in the past),
  that the status says "not ready" wherever no session is in use and that one shown
  as ready has proved itself (`Shown`), and that something is left of the wait only
  in the sleep (`Slept`). The steps of `Ladder` and `SessionHealth` are used through
  their INSTANCE. Theorems `ReadyIsProven`, `MemoryIsEarned` and `PauseIsSlept`, for every
  mode: the runs take the automatic one, which has both kinds of transport.
* **TunShareProofs.** A packet in a queue outlives the moment it was sent in, so the
  promise rests on an order (`OrderInv`): queues are sorted, older handles hold earlier
  packets, what the reader still holds nobody has seen, and the handle it has
  picked is as new as anything that ever got a packet. `PromiseKept` maps each step to a
  step or a stutter of `TunPromise`; `NewestStaysCurrent` is `NewestIsCurrent`.
* **WarpLifecycleProofs.** `HolderWorks` is inductive with the types (`WorkIsLocked`): the
  lock names one press. The lemmas are about the scripts, which are concatenated.
* **PanelJobsProofs.** `PollersStayAlive` (`PollsAreChained`) needs that a job is followed
  only after its answer came. `LockIsTrue` (`LockKeepsWishes`) is inductive, since every
  change of the followed jobs locks anew: for any jobs, controls and limits.

Only model-checked: everything about liveness (`DeferredArrives`, `EveryStepComesUp`,
`Recovers`, `AskingIsAnswered`, `HandoverEnds`, `PressIsAnswered`, `StaleRoutesGo`,
`TunnelIsUsed`, `JobIsLetGo`: the prover has neither fairness nor ENABLED). Every
invariant and every other action property of the runs is a theorem. `Exclusive` and
`LastPressHolds` are violated.

## 5. Where code and words differ

With a run each (`findings` in PROJECT.json):

* **The lock does not always exclude** (`lock_exclusive`, `lock.rs:165`). A reaper
  reads the name of the owner, looks it up in `/proc`, and renames away what is at the
  path: three accesses. In the run nobody is killed. `p1` holds the lock and `p2`
  reads its name; `p1` releases and ends; `p3` takes the lock; `p2` finds no `p1` and
  renames `p3`'s directory away; `p4` makes the path anew. `p3` and `p4` both hold the
  lock, and what `p2` wants to give back finds the path taken. An owner that is killed,
  or an age of 300 s taken before the lock changed hands, opens the same gap. Short
  of these three the lock does exclude, for any number of processes: a theorem. They
  are sufficient for the proof and not each time the lock fails (a reaper that read a
  dead owner may find the path free). In the case of the age the fresh directory of a
  living taker, still without files, is even deleted, and the taker gets an error:
  `OnlyDeadAreReaped` is about directories that name their owner.
* **A pass may be counted short** (`engine_pass`, `engine.go:472`). `ladder.go:338-342`
  counts the steps tried so that no pass fails before each was. `Top` keeps that count
  (`ladder.go:367`), and the engine calls it from a session on h2 that is up and not
  yet proven as well. The position goes back to 0, steps are tried a second time, and
  the cooldown begins with others untried. The session has to stay unproven without
  being found dead for `ProbeUpEvery`, on a path whose probes succeed and fail in turn;
  the cost is one cooldown. Theorem `PassesAreComplete` says that nothing else shortens
  a pass.
* **The last press does not always count** (`warp_last`, `operation.rs:56`). A missing
  marker counts as one's own. A press that waits for the lock, or for its init
  script, finds the marker its successor has written and then cleared, and goes
  on. The shell this was taken from asks whether the marker is its own
  (`files/z2k-warp.sh:645`).

Seen while modelling, kept as premises or notes instead of runs:

* A torn owner file locks everybody out (`lock.rs:155`): an owner that cannot be
  parsed counts as living, without a look at the age. `lock_safe` has the premise
  that no kill comes in the middle of the write (`TornWrites = FALSE`); the theorem
  about living owners does not need it.
* A directory can be given back after its owner has released it (`lock.rs:136`,
  `231-234`): a reaper moves away a lock that was made anew since it looked, the
  living owner releases, finds nothing at the path and goes on, and the reaper puts
  the directory back. It names a living process that holds nothing, and nobody gets
  the lock until that process ends; the second reason for `TakersEnd`.
* A failed probe for WG may keep the WG key (`engine.go:541`): the error of the
  switch back is ignored, and after a lost answer it is not even tried.
* `device_revoked` gives way to `no_endpoint` at the end of the pass (`engine.go:253`).
* The last value wins (`status.go:51-52`) only while goroutines are prompt: `Write`
  past the interval leaves `w.pending` and the timer as they are, so a late
  goroutine writes the older value over the newer. `LastWins` has the premise
  `prompt`.
* h2 is called the last step (`ladder.go:280`), and stands behind the first
  `earlyWG` WG steps with the others behind it (`ladder.go:302`).
* A black hole is said to live half a minute (`ladder.go:293`); with the periods
  of `engine.go:239-240` and growing rx it can live two checks, 40 s.
* In mode wg a key that the server does not have is never registered again:
  only h2 is told of it (`engine.go:348`). `Recovers` is checked in automatic mode.
* A reason that the probe for WG sets (`engine.go:370`) stays in the status of the
  proven session it interrupted; `commitGood` comes once a session.
* One error of the TUN device ends its reader (`tunshare.go:81`), and nothing makes
  a new one: transports opened after it carry nothing until the process restarts.
* A stop and a start may meet while the lock is dropped around the init scripts
  (`service.rs:858`): the engine then runs though it is switched off, and the health
  check of a disabled WARP removes routes and stops nothing (`health.rs:177`).
* `--if-idle` asks under the lock whether anybody is at work, and writes the marker
  without asking again (`service.rs:202-237`): a press begun in between is superseded.
* The pages write `.disabled` themselves while the lock holds a control
  (`toggles.js:2326`, `warp.js:891`, `dashboard.js:145`), which `job.js:106` warns of: the lock
  gives back an older value, and a control may stay off. `LockKeepsWishes` leaves
  such controls (`crossed`) out.
* Two answers that come in the other order make the earlier press the one whose
  outcome the card shows (`warp.js:77`).
* A successful poll resets the errors and not the refusals (`job.js:276`, `319`).

## 6. Not modelled

* Transports, tunnel device, NAT, log rotation: cryptography and packet I/O. The
  engine sees "opens or not, carries or not", which is its environment here.
* The engine's instance lock: one `flock`, the kernel does the exclusion.
* The edge scan before the first step and the geography of the active edge: the
  scan's result is an input of `LadderSteps`, which takes any.
* Registration and its repair: requests one after the other; `SwitchTunnel` is in
  `Engine`.
* JSON formats, labels, wording of errors, metrics.
* In the lock: errors other than a missing file, and a lock path that is not a
  directory.
* In the lifecycle: install and remove, nft sets, the probe's own route, the legacy
  instance, the updater's hook. nft, ip, lists and devices of the controller are
  calls that succeed or fail.
* In the panel: the modal, badges and logs, what the pages render, and the shell
  that answers.
* The domain router's observer (cache, kernel sets and reconciliation under two
  mutexes), the release and update transactions in shell, the Telegram proxy and
  the Lua that keeps strategies: each has state over time and is left out. They do
  not share state with what is modelled, except that the observer's sets decide
  what is sent into the tunnel.
* `src/reference`: scripts of a third-party site, captured as a model for
  animations. They are by far the most JavaScript of the repository (about 100 000
  of 112 000 lines) and no part of the program runs them. The modelled sources are
  Go and Rust, but for the panel.
* Lists, menus, build and archive.
