--------------------------- MODULE HealthMonitor ---------------------------
(***************************************************************************)
(* The liveness monitor of one transport session                           *)
(* (z2k-warpd/internal/health/health.go: Monitor, Assess, probe, Reset).   *)
(*                                                                         *)
(* The engine calls Assess once a tick with a snapshot of the session.     *)
(* Only what Assess compares is kept of a snapshot: whether it carries an  *)
(* error, whether the session is connected, whether rx and tx have grown.  *)
(* A probe goes through the tunnel to the outside; its outcome is decided  *)
(* by path, the environment's state: "up", "down" or "flaky" (either).     *)
(*                                                                         *)
(* Ages replace the time stamps: probeAge is now - lastProbe, rxAge is     *)
(* now - rxLastMoved, saturated where the code no longer tells them apart. *)
(***************************************************************************)
EXTENDS Integers, Sequences

CONSTANTS
  Fails,             \* failures in a row that mean Dead
  ConfirmSuccesses,  \* successes in a row that prove the transport
  ProveEvery,        \* pause between probes of an unproven transport
  CheckEvery,        \* pause between probes of a proven one
  Doubt,             \* how long "tx grows, rx does not" is tolerated
  Never,             \* lastProbe is the zero time
  MaxPathAge         \* bound of the history variable pathAge

ASSUME HealthAssumption ==
  /\ {Fails, ConfirmSuccesses, ProveEvery, CheckEvery, Doubt} \subseteq Nat \ {0}
  /\ MaxPathAge \in Nat
  /\ Never \notin Int

VARIABLES
  seen, proven, fails,
  successes,   \* saturated at ConfirmSuccesses
  probeAge, rxAge,
  verdict,     \* what the last Assess returned
  due,         \* a tick has passed since the last Assess
  path,        \* environment: what a probe would meet
  pathAge,     \* history: for how long path has been so in this session
  sessionErr,  \* history: the last snapshot carried an error
  outcomes     \* history: the last probes of this session, newest first

monitor == <<seen, proven, fails, successes, probeAge, rxAge>>
vars == <<monitor, verdict, due, path, pathAge, sessionErr, outcomes>>

Upper(a, b) == IF a > b THEN a ELSE b
Lower(a, b) == IF a < b THEN a ELSE b

MaxAge == Upper(Upper(CheckEvery, ProveEvery), Doubt)
Older(age) == Lower(age + 1, MaxAge)

\* How many outcomes the properties look back on.
Memory == Upper(Fails, ConfirmSuccesses)

Outcome == [ok : BOOLEAN, spaced : BOOLEAN]

TypeOK ==
  /\ seen \in BOOLEAN /\ proven \in BOOLEAN
  /\ fails \in 0..Fails
  /\ successes \in 0..ConfirmSuccesses
  /\ probeAge \in 0..MaxAge \cup {Never}
  /\ rxAge \in 0..MaxAge
  /\ verdict \in {"alive", "doubtful", "dead"}
  /\ due \in BOOLEAN
  /\ path \in {"up", "down", "flaky"}
  /\ pathAge \in 0..MaxPathAge
  /\ sessionErr \in BOOLEAN
  /\ outcomes \in Seq(Outcome) /\ Len(outcomes) <= Memory

Init ==
  /\ seen = FALSE /\ proven = FALSE
  /\ fails = 0 /\ successes = 0
  /\ probeAge = Never /\ rxAge = 0
  /\ verdict = "doubtful"
  /\ due = TRUE
  /\ path \in {"up", "down", "flaky"}
  /\ pathAge = 0
  /\ sessionErr = FALSE
  /\ outcomes = <<>>

-----------------------------------------------------------------------------
\* Faulty: an unproven transport is probed no oftener than a proven one.
ProbeEverySlow == CheckEvery

ProbeEvery == IF proven THEN CheckEvery ELSE ProveEvery
TooEarly == probeAge # Never /\ probeAge < ProbeEvery

Remember(ok) ==
  outcomes' = SubSeq(<<[ok |-> ok, spaced |-> probeAge # Never /\ probeAge >= ProveEvery]>>
                       \o outcomes, 1, Lower(Len(outcomes) + 1, Memory))

\* probe: too soon after the last one, the verdict is read off the failures.
ProbeSkipped(rx) ==
  /\ TooEarly
  /\ verdict' = IF fails >= Fails THEN "dead" ELSE "doubtful"
  /\ rxAge' = rx
  /\ UNCHANGED <<proven, fails, successes, probeAge, outcomes>>

\* Faulty: a success does not end the row of failures.
ProbePassesKeepsFails ==
  /\ ~TooEarly
  /\ path \in {"up", "flaky"}
  /\ probeAge' = 0
  /\ rxAge' = 0
  /\ successes' = Lower(successes + 1, ConfirmSuccesses)
  /\ IF successes + 1 >= ConfirmSuccesses
       THEN proven' = TRUE /\ verdict' = "alive"
       ELSE proven' = proven /\ verdict' = "doubtful"
  /\ Remember(TRUE)
  /\ UNCHANGED fails

ProbePasses ==
  /\ ~TooEarly
  /\ path \in {"up", "flaky"}
  /\ probeAge' = 0
  /\ fails' = 0
  /\ rxAge' = 0
  /\ successes' = Lower(successes + 1, ConfirmSuccesses)
  /\ IF successes + 1 >= ConfirmSuccesses
       THEN proven' = TRUE /\ verdict' = "alive"
       ELSE proven' = proven /\ verdict' = "doubtful"
  /\ Remember(TRUE)

\* Faulty: a failure does not end the row of successes.
ProbeFailsKeepsSuccesses(rx) ==
  /\ ~TooEarly
  /\ path \in {"down", "flaky"}
  /\ probeAge' = 0
  /\ fails' = fails + 1
  /\ rxAge' = rx
  /\ verdict' = IF fails + 1 >= Fails THEN "dead" ELSE "doubtful"
  /\ UNCHANGED <<proven, successes>>
  /\ Remember(FALSE)

\* Faulty: one failure more than Fails is tolerated.
ProbeFailsLate(rx) ==
  /\ ~TooEarly
  /\ path \in {"down", "flaky"}
  /\ probeAge' = 0
  /\ successes' = 0
  /\ fails' = fails + 1
  /\ rxAge' = rx
  /\ verdict' = IF fails + 1 > Fails THEN "dead" ELSE "doubtful"
  /\ UNCHANGED proven
  /\ Remember(FALSE)

ProbeFails(rx) ==
  /\ ~TooEarly
  /\ path \in {"down", "flaky"}
  /\ probeAge' = 0
  /\ successes' = 0
  /\ fails' = fails + 1
  /\ rxAge' = rx
  /\ verdict' = IF fails + 1 >= Fails THEN "dead" ELSE "doubtful"
  /\ UNCHANGED proven
  /\ Remember(FALSE)

Probe(rx) == ProbeSkipped(rx) \/ ProbePasses \/ ProbeFails(rx)

\* serve goes on after every verdict but Dead.
MayAssess == due /\ verdict # "dead"

\* The snapshot carries an error: Dead at once, nothing else is looked at.
AssessError ==
  /\ MayAssess
  /\ verdict' = "dead"
  /\ sessionErr' = TRUE
  /\ UNCHANGED <<monitor, outcomes>>

\* No session: probe, the counters of the snapshot are not read.
AssessDisconnected ==
  /\ MayAssess
  /\ Probe(rxAge)
  /\ UNCHANGED <<seen, sessionErr>>

\* The first connected snapshot is the baseline of rx and tx.
BaseRx == IF seen THEN rxAge ELSE 0

\* Faulty: traffic is taken for proof.
AssessUnprovenByTraffic ==
  /\ MayAssess
  /\ ~proven
  /\ seen' = TRUE
  /\ verdict' = "alive"
  /\ UNCHANGED <<proven, fails, successes, probeAge, rxAge, sessionErr, outcomes>>

\* Connected but never proven: traffic counters prove nothing, probe.
AssessUnproven ==
  /\ MayAssess
  /\ ~proven
  /\ seen' = TRUE
  /\ Probe(BaseRx)
  /\ UNCHANGED sessionErr

\* Connected and proven, and time to prove it again.
AssessCheck ==
  /\ MayAssess
  /\ proven
  /\ probeAge >= CheckEvery
  /\ seen' = TRUE
  /\ Probe(BaseRx)
  /\ UNCHANGED sessionErr

\* Faulty: growing counters put the periodic check off.
AssessTrafficFirst ==
  /\ MayAssess
  /\ proven
  /\ seen' = TRUE
  /\ rxAge' = 0
  /\ verdict' = "alive"
  /\ UNCHANGED <<proven, fails, successes, probeAge, sessionErr, outcomes>>

\* Proven, no check due: rx has grown, or nothing is sent, or not for long.
AssessTraffic ==
  /\ MayAssess
  /\ proven
  /\ probeAge < CheckEvery
  /\ seen' = TRUE
  /\ \/ seen /\ rxAge' = 0           \* rx has grown
     \/ rxAge' = BaseRx              \* idle
  /\ verdict' = "alive"
  /\ UNCHANGED <<proven, fails, successes, probeAge, sessionErr, outcomes>>

\* Proven, no check due, tx grows and rx has not for Doubt.
AssessDoubt ==
  /\ MayAssess
  /\ proven
  /\ probeAge < CheckEvery
  /\ seen
  /\ rxAge >= Doubt
  /\ Probe(rxAge)
  /\ UNCHANGED <<seen, sessionErr>>

Assess ==
  /\ \/ AssessError \/ AssessDisconnected \/ AssessUnproven
     \/ AssessCheck \/ AssessTraffic \/ AssessDoubt
  /\ due' = FALSE
  /\ UNCHANGED <<path, pathAge>>

\* serve sleeps a tick; the path may change meanwhile.
Tick ==
  /\ ~due
  /\ verdict # "dead"
  /\ due' = TRUE
  /\ probeAge' = IF probeAge = Never THEN Never ELSE Older(probeAge)
  /\ rxAge' = Older(rxAge)
  /\ path' \in {"up", "down", "flaky"}
  /\ pathAge' = IF path' = path THEN Lower(pathAge + 1, MaxPathAge) ELSE 0
  /\ UNCHANGED <<seen, proven, fails, successes, verdict, sessionErr, outcomes>>

\* The transport is opened anew: Monitor.Reset.
Reset ==
  /\ seen' = FALSE /\ proven' = FALSE
  /\ fails' = 0 /\ successes' = 0
  /\ probeAge' = Never /\ rxAge' = 0
  /\ verdict' = "doubtful"
  /\ due' = TRUE
  /\ pathAge' = 0
  /\ sessionErr' = FALSE
  /\ outcomes' = <<>>
  /\ UNCHANGED path

Next == Assess \/ Tick \/ Reset

Spec == Init /\ [][Next]_vars

-----------------------------------------------------------------------------
\* The promise the engine relies on: proven at most once and never taken back,
\* "alive" only of a proven session, nothing after "dead" but a new session.
Session == INSTANCE SessionHealth WITH proven <- proven, verdict <- verdict
ImplementsSessionHealth == Session!Spec

\* health.go:87-99, 60-61: a transport becomes proven only by a probe that
\* completes ConfirmSuccesses successes in a row in this very session, each
\* at least ProveEvery after the one before.
ProvenIsEarned ==
  [][~proven /\ proven' =>
       /\ Len(outcomes') >= ConfirmSuccesses
       /\ \A i \in 1..ConfirmSuccesses : outcomes'[i].ok
       /\ \A i \in 1..(ConfirmSuccesses - 1) : outcomes'[i].spaced]_vars

\* A session is declared dead only by its own error or by Fails probes that
\* failed in a row: no single lost probe, no pause in the traffic kills it.
DeadIsConfirmed ==
  verdict = "dead" =>
    \/ sessionErr
    \/ /\ Len(outcomes) >= Fails
       /\ \A i \in 1..Fails : ~outcomes[i].ok

\* A path that carries nothing is found out, whatever the traffic counters of
\* the session say: at the latest after Fails probes, at the pace of a session
\* that is proven or is not.
BlackHoleIsFound ==
  /\ path = "down" /\ ~due
  /\ pathAge >= Fails * (IF proven THEN CheckEvery ELSE ProveEvery)
  => verdict = "dead"

\* A path that carries everything is proven before a ladder step's patience
\* runs out: after ConfirmSuccesses probes.
GoodPathIsProven ==
  path = "up" /\ ~due /\ pathAge >= ConfirmSuccesses * ProveEvery =>
    proven \/ sessionErr
=============================================================================
