---------------------------- MODULE LadderSteps ----------------------------
(***************************************************************************)
(* How z2k-warpd builds the steps of its transport ladder                  *)
(* (internal/ladder/ladder.go: expandFallback, SetFallbackHosts, ParseMode,*)
(* newAuto, NewMode, NewPreferred).  The functions are pure; a behaviour   *)
(* of this module takes one input the engine may be started with and       *)
(* builds the ladder of it.  Ladder then walks the steps by their index.   *)
(*                                                                         *)
(* An address is <<network, offset>>; a line of the fallback list is an    *)
(* address with the size of the CIDR block it begins, or with size 0 when  *)
(* it is not a block.                                                      *)
(***************************************************************************)
EXTENDS Integers, Sequences, SequencesExt

CONSTANTS
  DefaultPort, MaxPort,  \* 2408, 65535
  EarlyWG,               \* WG steps before h2
  HostsPerNet,           \* addresses taken from a network
  Networks,              \* what the first half of an address is taken from
  Builtin,               \* builtinFallbackHosts
  NoHost, Nil,
  Inputs                 \* what the engine is started with

Address == Networks \X Nat
Host == Address \cup {NoHost}
Line == [addr : Address, size : Nat]
Endpoint == [host : Host, ports : Seq(Int)]
Step == [transport : {"wg", "h2"}, host : Host, port : Int]

Input ==
  [v4 : Host, ports : Seq(Int), alt : Seq(Endpoint), file : Seq(Line),
   transport : STRING, start : Step \cup {Nil}, preferred : Seq(Step)]

ASSUME LadderStepsAssumption ==
  /\ MaxPort \in Nat
  /\ DefaultPort \in 1..MaxPort
  /\ EarlyWG \in Nat \ {0}
  /\ HostsPerNet \in Nat \ {0}
  /\ Builtin \in Seq(Line)
  /\ Inputs \subseteq Input

VARIABLES
  input,   \* the device, the files and the flags
  steps,   \* l.steps, Nil: not built yet
  from     \* l.idx of the new ladder

builderVars == <<input, steps, from>>

H2 == [transport |-> "h2", host |-> NoHost, port |-> 443]
WG(host, port) == [transport |-> "wg", host |-> host, port |-> port]

\* Of the elements of s those that are in the set T, in their order.
Among(s, T) ==
  LET keep(acc, e) == IF e \in T THEN Append(acc, e) ELSE acc
  IN FoldLeft(keep, <<>>, s)

\* The addresses of a block are taken at a stride, its base is not used.
ExpandLine(line) ==
  LET share == line.size \div (HostsPerNet + 1)
      stride == IF share < 1 THEN 1 ELSE share
      offsets == Among([i \in 1..HostsPerNet |-> stride * i], 0..(line.size - 1))
  IN CASE line.size = 0 -> <<line.addr>>
       [] line.size \in 1..2 -> <<>>
       [] OTHER -> [i \in DOMAIN offsets |->
                      <<line.addr[1], line.addr[2] + offsets[i]>>]

ExpandFallback(list) ==
  LET expand(acc, line) == acc \o ExpandLine(line)
  IN FoldLeft(expand, <<>>, list)

\* SetFallbackHosts: an empty file brings the built-in list back.
FallbackHosts(file) == IF file = <<>> THEN Builtin ELSE file

\* ParseMode: what is not recognised is automatic.
ParseMode(s) == CASE s = "wg" -> "wg"
                  [] s \in {"h2", "masque"} -> "h2"
                  [] OTHER -> "auto"

\* The first occurrence of each element.
Distinct(s) ==
  LET add(acc, e) == IF Contains(acc, e) THEN acc ELSE Append(acc, e)
  IN FoldLeft(add, <<>>, s)

\* addHost: the default port and those given, valid and each once; a host that
\* is in the ladder already is not added again.
HostSteps(host, ports) ==
  LET ps == Distinct(Among(<<DefaultPort>> \o ports, 1..MaxPort))
  IN [i \in DOMAIN ps |-> WG(host, ps[i])]

AddHost(acc, h) ==
  IF h.host = NoHost \/ \E i \in DOMAIN acc : acc[i].host = h.host
    THEN acc ELSE acc \o HostSteps(h.host, h.ports)

AddHosts(hosts) == FoldLeft(AddHost, <<>>, hosts)

\* The WG steps: the address that was issued, its alternatives, the fallback.
WGSteps(in) ==
  LET fallback == ExpandFallback(FallbackHosts(in.file))
      others == [host : Host \ {in.v4}, ports : Seq(Int)]
      hosts == <<[host |-> in.v4, ports |-> in.ports]>>
               \o Among(in.alt, others)
               \o [i \in DOMAIN fallback |->
                     [host |-> fallback[i], ports |-> in.ports]]
  IN AddHosts(hosts)

\* Faulty: h2 behind all WG steps, as the comment at ladder.go:280 has it.
InsertH2Last(wg) == Append(wg, H2)

\* h2 stands behind the first WG steps, the rest of them behind it.
InsertH2(wg) ==
  IF Len(wg) > EarlyWG
    THEN SubSeq(wg, 1, EarlyWG) \o <<H2>> \o SubSeq(wg, EarlyWG + 1, Len(wg))
    ELSE Append(wg, H2)

NewAuto(in) == InsertH2(WGSteps(in))

StepsOn(transport) == {s \in Step : s.transport = transport}

\* Faulty: the filtered ladder may be empty.
NewModeMaybeEmpty(in, mode) ==
  IF mode = "auto" THEN NewAuto(in) ELSE Among(NewAuto(in), StepsOn(mode))

\* A mode chosen by hand filters; a ladder is never left without a step.
NewMode(in, mode) ==
  LET filtered == Among(NewAuto(in), StepsOn(mode))
  IN IF mode = "auto" \/ filtered = <<>> THEN NewAuto(in) ELSE filtered

\* Faulty: last_good is forgotten.
StartAtTop(ladder, start) == 0

\* l.idx: last_good where it is in the ladder, else the top.
StartAt(ladder, start) ==
  LET found == {i \in DOMAIN ladder : ladder[i] = start}
  IN IF found = {} THEN 0
                   ELSE (CHOOSE i \in found : \A j \in found : i <= j) - 1

\* The preferred steps that are usable, each once.
Usable(preferred) ==
  Distinct(Among(preferred, [transport : {"wg"}, host : Host \ {NoHost},
                             port : 1..MaxPort]))

\* NewPreferred: verified edges ahead of the ladder, no step of it lost.  The
\* ladder then begins at its top, last_good or not.
Build ==
  /\ steps = Nil
  /\ LET mode == ParseMode(input.transport)
         first == Usable(input.preferred)
         base == NewMode(input, mode)
     IN IF mode = "h2" \/ first = <<>>
          THEN /\ steps' = base
               /\ from' = StartAt(base, input.start)
          ELSE /\ steps' = Distinct(first \o base)
               /\ from' = 0
  /\ UNCHANGED input

BuilderInit ==
  /\ input \in Inputs
  /\ steps = Nil
  /\ from = 0

BuilderSpec == BuilderInit /\ [][Build]_builderVars

-----------------------------------------------------------------------------
Built == steps # Nil
Mode == ParseMode(input.transport)
PositionsOf(transport) == {i \in DOMAIN steps : steps[i].transport = transport}

\* The addresses known to the device or to the fallback list in force.
KnownHosts ==
  LET f == ExpandFallback(FallbackHosts(input.file))
  IN ({input.v4} \cup {a.host : a \in ToSet(input.alt)} \cup ToSet(f)) \ {NoHost}

\* ladder.go:185-190: Current would panic on an empty ladder, and next to no
\* input gives one; 343-345: the passes count steps, so none may come twice.
WellFormed ==
  Built => /\ steps # <<>> /\ from \in 0..(Len(steps) - 1)
           /\ \A i, j \in DOMAIN steps : steps[i] = steps[j] => i = j
           /\ \A i \in PositionsOf("wg") : steps[i].port \in 1..MaxPort

\* ladder.go:168-173: a mode chosen by hand never leaves for the other
\* transport while it has a step of its own, and keeps all of its steps.
ModeRespected ==
  Built =>
    /\ Mode = "wg" /\ PositionsOf("h2") # {} => KnownHosts = {}
    /\ Mode = "h2" => PositionsOf("wg") = {}
    /\ Mode # "h2" => KnownHosts \subseteq {s.host : s \in ToSet(steps)}

\* Both: whatever the inputs, there is a ladder, and it is one of its mode.
LadderIsSound == WellFormed /\ ModeRespected

\* ladder.go:27-29: enable waits two minutes, so h2 must come up within the
\* first steps whatever the number of ports and addresses, but for the edges
\* that were verified a moment ago.
H2IsEarly ==
  Built /\ Mode = "auto" =>
    \E i \in DOMAIN steps :
      /\ steps[i] = H2
      /\ i <= EarlyWG + 1 + Len(Usable(input.preferred))

\* ladder.go:203-204: preferred edges displace no step of the ladder and leave
\* the order of the others as it was.
NothingLost ==
  Built => LET base == NewMode(input, Mode)
               others == Step \ ToSet(Usable(input.preferred))
           IN /\ ToSet(base) \subseteq ToSet(steps)
              /\ Among(steps, others) = Among(base, others)

\* Both: whatever edges were verified, h2 comes in time and no step is displaced.
LadderIsOrdered == H2IsEarly /\ NothingLost

\* ladder.go:161-163: without preferred edges the ladder begins at last_good if
\* that is a step of it, whatever the mode and the other inputs.
StartHonoured ==
  Built /\ Usable(input.preferred) = <<>> /\ Contains(steps, input.start)
    => steps[from + 1] = input.start
=============================================================================
