---------------------------- MODULE LadderProofs ----------------------------
(***************************************************************************)
(* Theorems about Ladder, for every number of steps and every Cooldown,    *)
(* and about LadderSteps, for every input and every table of addresses.    *)
(*                                                                         *)
(* PassComplete is not inductive: that a pass of N failures has met every  *)
(* step depends on where each step lies behind the current one.  Reach     *)
(* says so with a distance: Dist(s) calls of Next ago the ladder stood on  *)
(* s, and every step no further back than tried has been attempted.  A Top *)
(* in the middle of a pass moves the position and not the count, and Reach *)
(* claims nothing of that pass any more.                                   *)
(* CooldownHeld needs passAge tied to the history variable span.           *)
(*                                                                         *)
(* LadderSteps takes one step, and its invariant BuilderInv says what that *)
(* step builds.  The work is in the operators: Among, Distinct, AddHosts   *)
(* and ExpandFallback are folds (SequencesExt!FoldLeft), a fold is the     *)
(* value of a function that Folds!MapThenFoldSet chooses, and nothing is   *)
(* known of that function until one is shown to exist (FoldExists).  From  *)
(* there on each operator has its equation for one element more at the end *)
(* (AmongStep, ...), and its facts by induction over such sequences, for   *)
(* membership in a set (SeqSetInduction).                                  *)
(***************************************************************************)
EXTENDS Ladder, LadderSteps, TLAPS, SequenceTheorems, WellFoundedInduction

\* How many calls of Next ago step s was the current one (1..N).
Dist(s) == IF s < idx THEN idx - s ELSE idx + N - s

Reach == ~returned => \A s \in StepIndex : Dist(s) <= tried => s \in attempted

\* A pass under way: span is the age the code sees.  Asleep: the pass begins
\* when the rest is over, and span has then grown to Cooldown.
Clock ==
  /\ rest = 0 /\ passAge # NoPass => passAge = span
  /\ rest > 0 => passAge = 0 - rest /\ span + rest >= Cooldown

IInv == TypeOK /\ Reach /\ Clock /\ CooldownHeld

-----------------------------------------------------------------------------
\* (idx + 1) % len(steps) written without a remainder (Ladder.Next).
LEMMA NextIdxValue ==
  ASSUME NEW i \in StepIndex
  PROVE  (i + 1) % N = IF i + 1 = N THEN 0 ELSE i + 1
  BY LadderAssumption, SMT DEF StepIndex

\* The starting position may be any step; nothing was tried yet.
LEMMA InitInv == Init => IInv
<1> SUFFICES ASSUME Init PROVE IInv
  OBVIOUS
<1>1. TypeOK
  <2>1. idx \in StepIndex /\ tried \in StepIndex
    BY LadderAssumption DEF Init, StepIndex
  <2>2. rest \in 0..Cooldown /\ span \in 0..Cooldown
    BY LadderAssumption DEF Init
  <2>3. /\ passAge \in (-Cooldown)..Cooldown \cup {NoPass}
        /\ attempted \in SUBSET StepIndex
        /\ tooSoon \in BOOLEAN /\ returned \in BOOLEAN
    BY DEF Init
  <2> QED
    BY <2>1, <2>2, <2>3 DEF TypeOK
<1>2. Reach
  BY LadderAssumption DEF Init, Reach, Dist, StepIndex
<1>3. Clock /\ CooldownHeld
  BY DEF Init, Clock, CooldownHeld
<1> QED
  BY <1>1, <1>2, <1>3 DEF IInv

\* Moving on to the next step puts every step one call further back.
LEMMA NextStepInv == IInv /\ rest = 0 /\ NextStep => IInv'
<1> SUFFICES ASSUME IInv, rest = 0, NextStep PROVE IInv'
  OBVIOUS
<1> USE LadderAssumption
<1>1. idx' = IF idx + 1 = N THEN 0 ELSE idx + 1
  BY NextIdxValue DEF NextStep, NextIdx, IInv, TypeOK
<1>2. TypeOK'
  BY <1>1 DEF IInv, TypeOK, Clock, NextStep, FullPass, Elapsed, Lasted, StepIndex
<1>3. Reach'
  <2> SUFFICES ASSUME ~returned', NEW s \in StepIndex, Dist(s)' <= tried'
               PROVE  s \in attempted'
    BY DEF Reach
  <2>1. CASE s = idx
    BY <2>1 DEF NextStep
  <2>2. CASE s # idx
    <3>1. Dist(s)' = Dist(s) + 1
      BY <1>1, <2>2 DEF Dist, IInv, TypeOK, StepIndex
    <3>2. Dist(s) \in Int /\ tried \in Int
      BY DEF Dist, IInv, TypeOK, StepIndex
    <3>3. Dist(s) <= tried
      BY <3>1, <3>2 DEF NextStep
    <3> QED
      BY <3>3 DEF IInv, Reach, NextStep
  <2> QED
    BY <2>1, <2>2
<1>4. Clock' /\ CooldownHeld'
  BY DEF IInv, TypeOK, Clock, CooldownHeld, NextStep, Elapsed, Lasted
<1> QED
  BY <1>2, <1>3, <1>4 DEF IInv

\* A new pass has tried nothing, and begins when its rest is over.
LEMMA NextPassInv == IInv /\ rest = 0 /\ NextPass => IInv'
<1> SUFFICES ASSUME IInv, rest = 0, NextPass PROVE IInv'
  OBVIOUS
<1> USE LadderAssumption
<1>1. idx' = IF idx + 1 = N THEN 0 ELSE idx + 1
  BY NextIdxValue DEF NextPass, NextIdx, IInv, TypeOK
<1>2. Elapsed \in 0..Cooldown /\ Wait \in 0..Cooldown
  BY DEF IInv, TypeOK, Clock, Elapsed, Wait
<1>3. Elapsed = Lasted
  BY DEF IInv, Clock, Elapsed, Lasted
<1>4. TypeOK'
  <2>1. idx' \in StepIndex /\ tried' \in StepIndex
    BY <1>1 DEF IInv, TypeOK, NextPass, StepIndex
  <2>2. rest' \in 0..Cooldown /\ span' \in 0..Cooldown
    BY <1>2, <1>3 DEF NextPass
  <2>3. passAge' \in (-Cooldown)..Cooldown
    BY <1>2 DEF NextPass
  <2>4. attempted' \in SUBSET StepIndex /\ tooSoon' \in BOOLEAN /\ returned' \in BOOLEAN
    BY DEF IInv, TypeOK, NextPass
  <2> QED
    BY <2>1, <2>2, <2>3, <2>4 DEF TypeOK
<1>5. Reach'
  BY <1>4 DEF Reach, Dist, NextPass, TypeOK, StepIndex
<1>6. Clock' /\ CooldownHeld'
  <2>1. CASE Wait = 0
    <3>1. ~(Elapsed < Cooldown) /\ Lasted \in 0..Cooldown
      BY <1>2, <1>3, <2>1 DEF Wait
    <3>2. rest' = Wait /\ passAge' = 0 - Wait /\ span' = 0
      BY <2>1 DEF NextPass
    <3>3. ~tooSoon'
      BY <1>3, <2>1, <3>1 DEF NextPass, IInv, CooldownHeld
    <3> QED
      <4>1. rest' = 0 /\ passAge' = 0
        BY <2>1, <3>2
      <4>2. Clock'
        BY <3>2, <4>1 DEF Clock
      <4>3. CooldownHeld'
        BY <3>3 DEF CooldownHeld
      <4> QED
        BY <4>2, <4>3
  <2>2. CASE Wait # 0
    <3>1. rest' = Wait /\ passAge' = 0 - Wait /\ span' = Lasted /\ ~tooSoon'
      BY <2>2 DEF NextPass, IInv, CooldownHeld
    <3>2. Wait > 0 /\ Lasted + Wait = Cooldown
      BY <1>2, <1>3, <2>2 DEF Wait
    <3> QED
      BY <1>2, <3>1, <3>2 DEF Clock, CooldownHeld
  <2> QED
    BY <2>1, <2>2
<1> QED
  BY <1>4, <1>5, <1>6 DEF IInv

\* A success forgets the pass; the position stays.
LEMMA GoodInv == IInv /\ rest = 0 /\ Good => IInv'
<1> SUFFICES ASSUME IInv, rest = 0, Good PROVE IInv'
  OBVIOUS
<1> USE LadderAssumption
<1>1. TypeOK'
  <2>1. tried' \in StepIndex /\ attempted' \in SUBSET StepIndex
    BY DEF Good, StepIndex
  <2>2. passAge' \in (-Cooldown)..Cooldown \cup {NoPass} /\ returned' \in BOOLEAN
    BY DEF Good
  <2>3. UNCHANGED <<idx, rest, span, tooSoon>>
    BY DEF Good
  <2> QED
    BY <2>1, <2>2, <2>3 DEF IInv, TypeOK, StepIndex
<1>2. Reach'
  BY DEF IInv, TypeOK, Reach, Dist, Good, StepIndex
<1>3. Clock' /\ CooldownHeld'
  BY DEF IInv, Clock, CooldownHeld, Good
<1> QED
  BY <1>1, <1>2, <1>3 DEF IInv

\* Going back to the top is harmless while nothing of the pass was tried, or
\* when the ladder stands there already; otherwise returned says that it came.
LEMMA TopInv == IInv /\ Top => IInv'
<1> SUFFICES ASSUME IInv, Top PROVE IInv'
  OBVIOUS
<1> USE LadderAssumption
<1>1. TypeOK'
  BY DEF IInv, TypeOK, Top, StepIndex
<1>2. Reach'
  <2> SUFFICES ASSUME ~returned' PROVE Reach'
    BY DEF Reach
  <2>1. ~returned /\ ~(tried > 0 /\ idx # 0)
    BY DEF Top
  <2>2. CASE idx = 0
    BY <2>1, <2>2 DEF IInv, Reach, Dist, Top
  <2>3. CASE ~(tried > 0)
    BY <2>3 DEF IInv, TypeOK, Reach, Dist, Top, StepIndex
  <2> QED
    BY <2>1, <2>2, <2>3
<1>3. Clock' /\ CooldownHeld'
  BY DEF IInv, Clock, CooldownHeld, Top
<1> QED
  BY <1>1, <1>2, <1>3 DEF IInv

\* Time: span and passAge grow together, and the rest shrinks as span grows.
LEMMA TickInv == IInv /\ Tick => IInv'
<1> SUFFICES ASSUME IInv, Tick PROVE IInv'
  OBVIOUS
<1> USE LadderAssumption
<1>1. TypeOK'
  <2>1. idx' \in StepIndex /\ tried' \in StepIndex /\ attempted' \in SUBSET StepIndex
    BY DEF IInv, TypeOK, Tick
  <2>2. rest' \in 0..Cooldown /\ span' \in 0..Cooldown
    BY DEF IInv, TypeOK, Tick
  <2>3. passAge' \in (-Cooldown)..Cooldown \cup {NoPass}
    BY DEF IInv, TypeOK, Tick
  <2>4. tooSoon' \in BOOLEAN /\ returned' \in BOOLEAN
    BY Zenon DEF IInv, TypeOK, Tick
  <2> QED
    BY <2>1, <2>2, <2>3, <2>4 DEF TypeOK
<1>2. Reach'
  BY DEF IInv, Reach, Dist, Tick
<1>3. Clock' /\ CooldownHeld'
  BY DEF IInv, TypeOK, Clock, CooldownHeld, Tick
<1> QED
  BY <1>1, <1>2, <1>3 DEF IInv

\* Nothing changes in a stuttering step.
LEMMA StutterInv == IInv /\ UNCHANGED vars => IInv'
  BY DEF IInv, TypeOK, Reach, Dist, Clock, CooldownHeld, vars

\* IInv is an inductive invariant of the ladder and its caller.
THEOREM Inductive == Spec => []IInv
<1>1. IInv /\ [Next]_vars => IInv'
  BY NextStepInv, NextPassInv, GoodInv, TopInv, TickInv, StutterInv DEF Next
<1> QED
  BY <1>1, InitInv, PTL DEF Spec

\* Type correctness: the index Current uses never leaves the list of steps.
THEOREM TypeCorrect == Spec => []TypeOK
  BY Inductive, PTL DEF IInv

\* ladder.go:338-342 for a ladder of any length and any start: a pass into which
\* no Top has come is declared failed only with every step tried in it.
THEOREM PassesAreComplete == Spec => []PassCompleteUnlessReturned
<1>1. IInv => PassCompleteUnlessReturned
  <2> SUFFICES ASSUME IInv, ~returned, FullPass PROVE attempted \cup {idx} = StepIndex
    BY DEF PassCompleteUnlessReturned, PassComplete
  <2>1. attempted \subseteq StepIndex /\ idx \in StepIndex
    BY DEF IInv, TypeOK
  <2>2. ASSUME NEW s \in StepIndex, s # idx PROVE s \in attempted
    <3>1. Dist(s) <= tried
      BY <2>2, LadderAssumption DEF Dist, FullPass, IInv, TypeOK, StepIndex
    <3> QED
      BY <3>1 DEF IInv, Reach
  <2> QED
    BY <2>1, <2>2
<1> QED
  BY <1>1, Inductive, PTL

\* ladder.go:348-349 for every Cooldown: passes that fail begin at least a
\* Cooldown apart, however fast the steps fail.
THEOREM PassesAreSpaced == Spec => []CooldownHeld
  BY Inductive, PTL DEF IInv
-----------------------------------------------------------------------------
\* The order of the naturals as a relation.
LEMMA LessIsRelated == \A x, y \in Nat : x < y => <<x, y>> \in OpToRel(<, Nat)
<1> SUFFICES ASSUME NEW x \in Nat, NEW y \in Nat, x < y
             PROVE  <<x, y>> \in OpToRel(<, Nat)
  OBVIOUS
<1>1. <<x, y>> \in Nat \X Nat /\ <<x, y>>[1] < <<x, y>>[2]
  OBVIOUS
<1> QED
  BY <1>1, Zenon DEF OpToRel

\* A set of naturals that is not empty has a least element.
LEMMA LeastNumber ==
  ASSUME NEW T \in SUBSET Nat, T # {}
  PROVE  \E x \in T : \A y \in T : x <= y
<1>1. IsWellFoundedOn(OpToRel(<, Nat), Nat)
  BY NatLessThanWellFounded, Zenon
<1>2. \E x \in T : \A y \in T : ~(<<y, x>> \in OpToRel(<, Nat))
  BY <1>1, WFMin, Zenon
<1>3. \E x \in T : \A y \in T : ~(y < x)
  BY <1>2, LessIsRelated, Zenon
<1> QED
  BY <1>3

\* Induction over the naturals, for membership in a set.
LEMMA NatSetInduction ==
  ASSUME NEW G, 0 \in G, \A n \in Nat : n \in G => n + 1 \in G
  PROVE  \A n \in Nat : n \in G
<1> SUFFICES ASSUME Nat \ G # {} PROVE FALSE
  OBVIOUS
<1>1. PICK x \in Nat \ G : \A y \in Nat \ G : x <= y
  BY LeastNumber
<1>2. x # 0 /\ x - 1 \in Nat
  BY <1>1
<1>3. x - 1 \in G
  BY <1>1, <1>2
<1> QED
  BY <1>1, <1>2, <1>3

\* The prefixes of a sequence.
LEMMA PrefixFacts ==
  ASSUME NEW E, NEW s \in Seq(E)
  PROVE  /\ Len(s) \in Nat /\ DOMAIN s = 1..Len(s)
         /\ SubSeq(s, 1, 0) = <<>> /\ SubSeq(s, 1, Len(s)) = s
         /\ \A k \in Nat : k <= Len(s) => SubSeq(s, 1, k) \in Seq(E)
         /\ \A k \in Nat : k <= Len(s) => Len(SubSeq(s, 1, k)) = k
         /\ \A k \in Nat : k + 1 <= Len(s) =>
              /\ s[k + 1] \in E
              /\ SubSeq(s, 1, k + 1) = Append(SubSeq(s, 1, k), s[k + 1])
<1>1. Len(s) \in Nat /\ DOMAIN s = 1..Len(s) /\ \A i \in 1..Len(s) : s[i] \in E
  BY LenProperties, ElementOfSeq
<1>2. SubSeq(s, 1, 0) = <<>>
  BY SubSeqEmpty
<1>3. SubSeq(s, 1, Len(s)) = s
  BY SubSeqFull
<1>4. ASSUME NEW k \in Nat, k <= Len(s)
      PROVE  /\ SubSeq(s, 1, k) \in Seq(E) /\ Len(SubSeq(s, 1, k)) = k
             /\ \A i \in 1..k : SubSeq(s, 1, k)[i] = s[i]
  <2>1. \A i \in 1..k : s[i] \in E
    BY <1>1, <1>4
  <2>2. /\ SubSeq(s, 1, k) \in Seq(E)
        /\ Len(SubSeq(s, 1, k)) = IF 1 <= k THEN k - 1 + 1 ELSE 0
        /\ \A i \in 1..(k - 1 + 1) : SubSeq(s, 1, k)[i] = s[1 + i - 1]
    BY <2>1, SubSeqProperties
  <2> QED
    BY <2>2
<1>5. ASSUME NEW k \in Nat, k + 1 <= Len(s)
      PROVE  /\ s[k + 1] \in E
             /\ SubSeq(s, 1, k + 1) = Append(SubSeq(s, 1, k), s[k + 1])
  <2> DEFINE p == SubSeq(s, 1, k)
             q == SubSeq(s, 1, k + 1)
  <2>1. s[k + 1] \in E
    BY <1>1, <1>5
  <2>2. /\ p \in Seq(E) /\ Len(p) = k /\ \A i \in 1..k : p[i] = s[i]
    BY <1>1, <1>4, <1>5
  <2>3. /\ q \in Seq(E) /\ Len(q) = k + 1 /\ \A i \in 1..(k + 1) : q[i] = s[i]
    BY <1>1, <1>4, <1>5
  <2> HIDE DEF p, q
  <2>4. /\ Append(p, s[k + 1]) \in Seq(E) /\ Len(Append(p, s[k + 1])) = k + 1
        /\ \A i \in 1..k : Append(p, s[k + 1])[i] = p[i]
        /\ Append(p, s[k + 1])[k + 1] = s[k + 1]
    BY <2>1, <2>2, AppendProperties
  <2>5. \A i \in 1..(k + 1) : q[i] = Append(p, s[k + 1])[i]
    BY <2>2, <2>3, <2>4
  <2>6. q = Append(p, s[k + 1])
    BY <2>3, <2>4, <2>5, SeqEqual
  <2> QED
    BY <2>1, <2>6 DEF p, q
<1> QED
  BY <1>1, <1>2, <1>3, <1>4, <1>5

\* Induction over sequences that grow at the end, for membership in a set.
LEMMA SeqSetInduction ==
  ASSUME NEW E, NEW G, <<>> \in G,
         \A s \in Seq(E), e \in E : s \in G => Append(s, e) \in G
  PROVE  \A s \in Seq(E) : s \in G
<1> SUFFICES ASSUME NEW s \in Seq(E) PROVE s \in G
  OBVIOUS
<1> DEFINE K == {k \in Nat : k <= Len(s) => SubSeq(s, 1, k) \in G}
<1>0. /\ Len(s) \in Nat /\ SubSeq(s, 1, 0) = <<>> /\ SubSeq(s, 1, Len(s)) = s
      /\ \A k \in Nat : k <= Len(s) => SubSeq(s, 1, k) \in Seq(E)
      /\ \A k \in Nat : k + 1 <= Len(s) =>
           /\ s[k + 1] \in E
           /\ SubSeq(s, 1, k + 1) = Append(SubSeq(s, 1, k), s[k + 1])
  BY PrefixFacts
<1>1. 0 \in K
  BY <1>0
<1>2. ASSUME NEW k \in Nat, k \in K PROVE k + 1 \in K
  <2> SUFFICES ASSUME k + 1 <= Len(s) PROVE SubSeq(s, 1, k + 1) \in G
    OBVIOUS
  <2>1. k <= Len(s)
    BY <1>0
  <2>2. SubSeq(s, 1, k) \in Seq(E) /\ SubSeq(s, 1, k) \in G
    BY <1>0, <1>2, <2>1
  <2>3. s[k + 1] \in E /\ SubSeq(s, 1, k + 1) = Append(SubSeq(s, 1, k), s[k + 1])
    BY <1>0
  <2> HIDE DEF K
  <2>4. Append(SubSeq(s, 1, k), s[k + 1]) \in G
    BY <2>2, <2>3
  <2> QED
    BY <2>3, <2>4
<1> HIDE DEF K
<1>3. \A k \in Nat : k \in K
  BY <1>1, <1>2, NatSetInduction
<1>4. Len(s) \in K
  BY <1>0, <1>3
<1>5. Len(s) \in Nat /\ SubSeq(s, 1, Len(s)) = s
  BY <1>0
<1>6. SubSeq(s, 1, Len(s)) \in G
  BY <1>4, <1>5 DEF K
<1> QED
  BY <1>5, <1>6, Zenon

\* The greatest element of a set of positions.
LEMMA MaxOfPositions ==
  ASSUME NEW n \in Nat, NEW t \in SUBSET (1..n), t # {}
  PROVE  /\ Max(t) \in t /\ Max(t) \in 1..n
         /\ n \in t => Max(t) = n
<1> DEFINE B == {m \in Nat : \A x \in t : x <= m}
<1>1. n \in B
  OBVIOUS
<1>2. PICK m \in B : \A y \in B : m <= y
  BY <1>1, LeastNumber
<1>3. m \in t
  <2> SUFFICES ASSUME m \notin t PROVE FALSE
    OBVIOUS
  <2>1. PICK x \in t : TRUE
    OBVIOUS
  <2>2. m - 1 \in B
    BY <2>1, <1>2
  <2> QED
    BY <1>2, <2>2
<1>4. \E x \in t : \A y \in t : x >= y
  BY <1>2, <1>3
<1>5. Max(t) \in t /\ \A y \in t : Max(t) >= y
  BY <1>4, Zenon DEF Max
<1> DEFINE x == Max(t)
<1>6. x \in t /\ \A y \in t : x >= y
  BY <1>5
<1> HIDE DEF x
<1>7. x \in t /\ x \in 1..n /\ (n \in t => x = n)
  BY <1>6
<1> QED
  BY <1>7 DEF x

\* A fold over the sequence s, of the operator given here as a function F.
IsFold(g, s, A, b, F) ==
  /\ g \in [SUBSET (1..Len(s)) -> A]
  /\ \A t \in SUBSET (1..Len(s)) :
       g[t] = IF t = {} THEN b ELSE F[g[t \ {Max(t)}]][s[Max(t)]]

\* The function Folds!MapThenFoldSet, and with it FoldLeft, chooses: of its
\* values nothing is known but this.
IsChosenFold(g, s, A, b, F) ==
  /\ g[{}] = b
  /\ \A t \in SUBSET (1..Len(s)) :
       t # {} /\ g[t \ {Max(t)}] \in A => g[t] = F[g[t \ {Max(t)}]][s[Max(t)]]

\* There is such a function.
LEMMA FoldExists ==
  ASSUME NEW A, NEW b \in A, NEW E, NEW F \in [A -> [E -> A]], NEW s \in Seq(E)
  PROVE  \E g : IsFold(g, s, A, b, F)
<1> DEFINE Fits(m, g) ==
             /\ g \in [SUBSET (1..m) -> A]
             /\ \A t \in SUBSET (1..m) :
                  g[t] = IF t = {} THEN b ELSE F[g[t \ {Max(t)}]][s[Max(t)]]
           Done(m) == \E g : Fits(m, g)
           K == {m \in Nat : m <= Len(s) => Done(m)}
<1>0. Len(s) \in Nat /\ \A i \in 1..Len(s) : s[i] \in E
  BY LenProperties, ElementOfSeq
<1>1. 0 \in K
  <2> DEFINE g == [t \in SUBSET (1..0) |-> b]
  <2>1. Fits(0, g)
    OBVIOUS
  <2> HIDE DEF Fits
  <2>2. Done(0)
    BY <2>1
  <2> HIDE DEF Done
  <2> QED
    BY <2>2
<1>2. ASSUME NEW m \in Nat, m + 1 <= Len(s), Done(m) PROVE Done(m + 1)
  <2>1. PICK g : Fits(m, g)
    BY <1>2
  <2> DEFINE h == [t \in SUBSET (1..(m + 1)) |->
                     IF m + 1 \in t THEN F[g[t \ {m + 1}]][s[m + 1]] ELSE g[t]]
  <2>2. s[m + 1] \in E
    BY <1>0, <1>2
  <2>3. ASSUME NEW t \in SUBSET (1..(m + 1)), m + 1 \in t
        PROVE  /\ t \ {m + 1} \in SUBSET (1..m) /\ Max(t) = m + 1
               /\ h[t] = F[h[t \ {m + 1}]][s[m + 1]] /\ h[t] \in A
    <3>1. t \ {m + 1} \in SUBSET (1..m)
      OBVIOUS
    <3>2. Max(t) = m + 1
      BY <2>3, MaxOfPositions
    <3>3. g[t \ {m + 1}] \in A /\ h[t \ {m + 1}] = g[t \ {m + 1}]
      BY <2>1, <3>1
    <3> QED
      BY <2>2, <2>3, <3>1, <3>2, <3>3
  <2>4. ASSUME NEW t \in SUBSET (1..(m + 1)), m + 1 \notin t
        PROVE  /\ t \in SUBSET (1..m) /\ h[t] = g[t] /\ h[t] \in A
    <3>1. ASSUME NEW x \in t PROVE x \in 1..m
      <4>1. x \in 1..(m + 1) /\ x # m + 1
        BY <2>4
      <4> QED
        BY <4>1
    <3>2. t \in SUBSET (1..m)
      BY <3>1
    <3> QED
      BY <2>1, <2>4, <3>2
  <2>5. ASSUME NEW t \in SUBSET (1..(m + 1))
        PROVE  /\ h[t] \in A
               /\ h[t] = IF t = {} THEN b ELSE F[h[t \ {Max(t)}]][s[Max(t)]]
    <3>1. CASE m + 1 \in t
      BY <2>3, <3>1
    <3>2. CASE m + 1 \notin t
      <4>1. t \in SUBSET (1..m) /\ h[t] = g[t] /\ h[t] \in A
        BY <2>4, <3>2
      <4>2. CASE t = {}
        BY <2>1, <4>1, <4>2
      <4>3. CASE t # {}
        <5>1. Max(t) \in t
          BY <4>1, <4>3, MaxOfPositions
        <5>2. t \ {Max(t)} \in SUBSET (1..m) /\ m + 1 \notin t \ {Max(t)}
          BY <3>2, <4>1
        <5>3. h[t \ {Max(t)}] = g[t \ {Max(t)}]
          BY <5>2
        <5> QED
          BY <2>1, <4>1, <4>3, <5>3
      <4> QED
        BY <4>2, <4>3
    <3> QED
      BY <3>1, <3>2
  <2>6. Fits(m + 1, h)
    BY <2>5
  <2> HIDE DEF Fits
  <2> QED
    BY <2>6
<1> HIDE DEF Done
<1>3. \A m \in Nat : m \in K => m + 1 \in K
  BY <1>0, <1>2
<1> HIDE DEF K
<1>4. Len(s) \in K
  BY <1>0, <1>1, <1>3, NatSetInduction
<1>5. Done(Len(s))
  BY <1>0, <1>4 DEF K
<1>6. PICK g : Fits(Len(s), g)
  BY <1>5 DEF Done
<1>7. IsFold(g, s, A, b, F)
  BY <1>6 DEF IsFold
<1> QED
  BY <1>7

\* The values a fold takes on the positions 1..k.
FoldValues(g, s, A, b, F) ==
  /\ g[1..0] = b
  /\ g[1..Len(s)] \in A
  /\ \A k \in Nat : k + 1 <= Len(s) => g[1..(k + 1)] = F[g[1..k]][s[k + 1]]

LEMMA FoldOnPrefixes ==
  ASSUME NEW A, NEW b \in A, NEW E, NEW F \in [A -> [E -> A]], NEW s \in Seq(E),
         NEW g, IsChosenFold(g, s, A, b, F)
  PROVE  FoldValues(g, s, A, b, F)
<1> DEFINE K == {k \in Nat : k <= Len(s) => g[1..k] \in A}
<1>0. Len(s) \in Nat /\ \A i \in 1..Len(s) : s[i] \in E
  BY LenProperties, ElementOfSeq
<1>1. ASSUME NEW k \in Nat, k + 1 <= Len(s), g[1..k] \in A
      PROVE  /\ g[1..(k + 1)] = F[g[1..k]][s[k + 1]]
             /\ g[1..(k + 1)] \in A
  <2> DEFINE t == 1..(k + 1)
  <2>1. \A x \in t : x \in 1..Len(s)
    BY <1>0, <1>1
  <2>2. t \in SUBSET (1..Len(s)) /\ k + 1 \in t /\ t \in SUBSET (1..(k + 1))
    BY <2>1
  <2>3. t \ {k + 1} = 1..k
    OBVIOUS
  <2> HIDE DEF t
  <2>4. t # {} /\ k + 1 \in Nat
    BY <2>2
  <2>5. Max(t) = k + 1
    BY <2>2, <2>4, MaxOfPositions
  <2>6. t \ {Max(t)} = 1..k
    BY <2>3, <2>5
  <2>7. g[t] = F[g[t \ {Max(t)}]][s[Max(t)]]
    BY <1>1, <2>2, <2>4, <2>6 DEF IsChosenFold
  <2>8. g[t] = F[g[1..k]][s[k + 1]]
    BY <2>5, <2>6, <2>7
  <2>9. s[k + 1] \in E
    BY <1>0, <2>2
  <2>10. F[g[1..k]][s[k + 1]] \in A
    BY <1>1, <2>9
  <2> QED
    BY <2>8, <2>10 DEF t
<1>2. 1..0 = {} /\ g[1..0] = b
  BY DEF IsChosenFold
<1>3. 0 \in K
  BY <1>2
<1>4. \A k \in Nat : k \in K => k + 1 \in K
  BY <1>0, <1>1
<1> HIDE DEF K
<1>5. \A k \in Nat : k \in K
  BY <1>3, <1>4, NatSetInduction
<1>6. g[1..Len(s)] \in A
  BY <1>0, <1>5 DEF K
<1>7. ASSUME NEW k \in Nat, k + 1 <= Len(s)
      PROVE  g[1..(k + 1)] = F[g[1..k]][s[k + 1]]
  <2>1. k <= Len(s)
    BY <1>0, <1>7
  <2>2. g[1..k] \in A
    BY <1>5, <2>1 DEF K
  <2> QED
    BY <1>1, <1>7, <2>2
<1> QED
  BY <1>2, <1>6, <1>7 DEF FoldValues

\* s1 is s with e behind it.
Longer(s1, s, e) == s1 = Append(s, e)

\* The fold h over s1 takes one step more than the fold g over s.
OneStepMore(h, s1, g, s, F, e) == h[1..Len(s1)] = F[g[1..Len(s)]][e]

\* One element more at the end is one step more.
LEMMA FoldStep ==
  ASSUME NEW A, NEW b \in A, NEW E, NEW F \in [A -> [E -> A]],
         NEW s \in Seq(E), NEW e \in E, NEW s1 \in Seq(E), Longer(s1, s, e),
         NEW g, IsChosenFold(g, s, A, b, F), NEW h, IsChosenFold(h, s1, A, b, F)
  PROVE  OneStepMore(h, s1, g, s, F, e)
<1> DEFINE K == {k \in Nat : k <= Len(s) => g[1..k] = h[1..k]}
<1>1. /\ Len(s1) = Len(s) + 1 /\ s1[Len(s) + 1] = e
      /\ \A i \in 1..Len(s) : s1[i] = s[i]
      /\ Len(s) \in Nat
  BY AppendProperties, LenProperties DEF Longer
<1>3. FoldValues(g, s, A, b, F) /\ FoldValues(h, s1, A, b, F)
  BY FoldOnPrefixes
<1>5. 0 \in K
  BY <1>3 DEF FoldValues
<1>6. ASSUME NEW k \in Nat, k \in K, k + 1 <= Len(s)
      PROVE  g[1..(k + 1)] = h[1..(k + 1)]
  <2>1. k + 1 \in 1..Len(s) /\ k <= Len(s) /\ k + 1 <= Len(s1)
    BY <1>1, <1>6
  <2>2. s1[k + 1] = s[k + 1]
    BY <1>1, <2>1
  <2>3. g[1..k] = h[1..k]
    BY <1>6, <2>1
  <2>4. g[1..(k + 1)] = F[g[1..k]][s[k + 1]] /\ h[1..(k + 1)] = F[h[1..k]][s1[k + 1]]
    BY <1>3, <1>6, <2>1 DEF FoldValues
  <2> QED
    BY <2>2, <2>3, <2>4
<1>7. \A k \in Nat : k \in K => k + 1 \in K
  BY <1>6
<1> HIDE DEF K
<1>8. Len(s) \in K
  BY <1>1, <1>5, <1>7, NatSetInduction
<1>9. g[1..Len(s)] = h[1..Len(s)]
  BY <1>1, <1>8 DEF K
<1> DEFINE n == Len(s)
<1>10. n \in Nat /\ n + 1 <= Len(s1)
  BY <1>1
<1>11. h[1..(n + 1)] = F[h[1..n]][s1[n + 1]]
  <2> HIDE DEF n
  <2> QED
    BY <1>3, <1>10 DEF FoldValues
<1> QED
  BY <1>1, <1>9, <1>11 DEF OneStepMore

\* R is a fold of F: its value for the empty sequence, and for one element more.
GrowsBy(R, A, b, E, F) ==
  /\ R[<<>>] = b
  /\ \A s \in Seq(E) : R[s] \in A
  /\ \A s \in Seq(E), e \in E : R[Append(s, e)] = F[R[s]][e]

\* An operator that is such a fold for every sequence, given here as a function R.
LEMMA FoldRecursion ==
  ASSUME NEW A, NEW b \in A, NEW E, NEW F \in [A -> [E -> A]], NEW R,
         \A s \in Seq(E) :
           \E g : IsChosenFold(g, s, A, b, F) /\ R[s] = g[1..Len(s)]
  PROVE  GrowsBy(R, A, b, E, F)
<1>1. R[<<>>] = b
  <2>1. <<>> \in Seq(E) /\ Len(<<>>) = 0
    BY EmptySeq
  <2>2. PICK g : IsChosenFold(g, <<>>, A, b, F) /\ R[<<>>] = g[1..Len(<<>>)]
    BY <2>1
  <2>3. FoldValues(g, <<>>, A, b, F)
    BY <2>1, <2>2, FoldOnPrefixes
  <2>4. g[1..0] = b
    BY <2>3 DEF FoldValues
  <2> QED
    BY <2>1, <2>2, <2>4
<1>2. ASSUME NEW s \in Seq(E) PROVE R[s] \in A
  <2>1. PICK g : IsChosenFold(g, s, A, b, F) /\ R[s] = g[1..Len(s)]
    OBVIOUS
  <2>2. FoldValues(g, s, A, b, F)
    BY <2>1, FoldOnPrefixes
  <2> QED
    BY <2>1, <2>2 DEF FoldValues
<1>3. ASSUME NEW s \in Seq(E), NEW e \in E PROVE R[Append(s, e)] = F[R[s]][e]
  <2>1. PICK g : IsChosenFold(g, s, A, b, F) /\ R[s] = g[1..Len(s)]
    OBVIOUS
  <2>2. PICK s1 \in Seq(E) : Longer(s1, s, e)
    BY AppendProperties DEF Longer
  <2>3. PICK h : IsChosenFold(h, s1, A, b, F) /\ R[s1] = h[1..Len(s1)]
    OBVIOUS
  <2>4. IsChosenFold(g, s, A, b, F) /\ IsChosenFold(h, s1, A, b, F)
    BY <2>1, <2>3
  <2>5. OneStepMore(h, s1, g, s, F, e)
    BY <2>2, <2>4, FoldStep
  <2> QED
    BY <2>1, <2>2, <2>3, <2>5 DEF Longer, OneStepMore
<1> QED
  BY <1>1, <1>2, <1>3 DEF GrowsBy

\* What a fold computes from, and where.
LEMMA FoldDomain ==
  ASSUME NEW E, NEW s \in Seq(E)
  PROVE  /\ DOMAIN s = 1..Len(s)
         /\ \A t \in SUBSET (1..Len(s)) : t # {} =>
              /\ Max(t) \in 1..Len(s) /\ s[Max(t)] \in E
              /\ t \ {Max(t)} \in SUBSET (1..Len(s))
<1>1. DOMAIN s = 1..Len(s) /\ Len(s) \in Nat /\ \A i \in 1..Len(s) : s[i] \in E
  BY LenProperties, ElementOfSeq
<1>2. \A t \in SUBSET (1..Len(s)) : t # {} => Max(t) \in 1..Len(s)
  BY <1>1, MaxOfPositions
<1> QED
  BY <1>1, <1>2

-----------------------------------------------------------------------------
\* The operators of LadderSteps that are folds, by the last element.
LEMMA AmongStep ==
  ASSUME NEW E, NEW T
  PROVE  /\ Among(<<>>, T) = <<>>
         /\ \A s \in Seq(E) : Among(s, T) \in Seq(E)
         /\ \A s \in Seq(E), e \in E :
              Among(Append(s, e), T) =
                IF e \in T THEN Append(Among(s, T), e) ELSE Among(s, T)
<1> DEFINE F == [acc \in Seq(E) |-> [e \in E |->
                   IF e \in T THEN Append(acc, e) ELSE acc]]
           Eq(s, g) == g = [t \in SUBSET DOMAIN s |->
                              IF t = {} THEN <<>>
                              ELSE IF s[Max(t)] \in T
                                     THEN Append(g[t \ {Max(t)}], s[Max(t)])
                                     ELSE g[t \ {Max(t)}]]
           C(s) == CHOOSE g : Eq(s, g)
           R == [s \in Seq(E) |-> Among(s, T)]
<1>1. F \in [Seq(E) -> [E -> Seq(E)]] /\ <<>> \in Seq(E)
  BY AppendProperties, EmptySeq
<1>2. ASSUME NEW s \in Seq(E)
      PROVE  \E g : /\ IsChosenFold(g, s, Seq(E), <<>>, F)
                    /\ R[s] = g[1..Len(s)]
  <2>1. R[s] = C(s)[DOMAIN s]
    BY DEF Among, FoldLeft, MapThenFoldSet
  <2>2. PICK g : IsFold(g, s, Seq(E), <<>>, F)
    <3> HIDE DEF F
    <3> QED
      BY <1>1, FoldExists
  <2>3. ASSUME NEW t \in SUBSET (1..Len(s))
        PROVE  g[t] = IF t = {} THEN <<>>
                      ELSE IF s[Max(t)] \in T
                             THEN Append(g[t \ {Max(t)}], s[Max(t)])
                             ELSE g[t \ {Max(t)}]
    BY <2>2, FoldDomain DEF IsFold
  <2>4. DOMAIN g = SUBSET (1..Len(s)) /\ g = [t \in DOMAIN g |-> g[t]]
    BY <2>2 DEF IsFold
  <2>5. Eq(s, g)
    BY <2>3, <2>4, FoldDomain
  <2> HIDE DEF Eq
  <2>6. Eq(s, C(s))
    BY <2>5
  <2> HIDE DEF C
  <2>7. C(s)[{}] = <<>>
    BY <2>6 DEF Eq
  <2>8. ASSUME NEW t \in SUBSET (1..Len(s)), t # {}, C(s)[t \ {Max(t)}] \in Seq(E)
        PROVE  C(s)[t] = F[C(s)[t \ {Max(t)}]][s[Max(t)]]
    BY <2>6, <2>8, FoldDomain DEF Eq
  <2> HIDE DEF F, R
  <2>9. IsChosenFold(C(s), s, Seq(E), <<>>, F)
    BY <2>7, <2>8 DEF IsChosenFold
  <2> QED
    BY <2>1, <2>9, FoldDomain
<1> HIDE DEF F, R
<1>3. GrowsBy(R, Seq(E), <<>>, E, F)
  BY <1>1, <1>2, FoldRecursion
<1>4. /\ <<>> \in Seq(E)
      /\ \A s \in Seq(E), e \in E : Append(s, e) \in Seq(E)
  BY EmptySeq, AppendProperties
<1>5. \A s \in Seq(E) : R[s] = Among(s, T)
  BY DEF R
<1>6. \A s \in Seq(E), e \in E : R[Append(s, e)] =
        IF e \in T THEN Append(R[s], e) ELSE R[s]
  BY <1>3 DEF F, GrowsBy
<1> QED
  BY <1>3, <1>4, <1>5, <1>6 DEF GrowsBy

LEMMA DistinctStep ==
  ASSUME NEW E
  PROVE  /\ Distinct(<<>>) = <<>>
         /\ \A s \in Seq(E) : Distinct(s) \in Seq(E)
         /\ \A s \in Seq(E), e \in E :
              Distinct(Append(s, e)) =
                IF Contains(Distinct(s), e) THEN Distinct(s) ELSE Append(Distinct(s), e)
<1> DEFINE F == [acc \in Seq(E) |-> [e \in E |->
                   IF Contains(acc, e) THEN acc ELSE Append(acc, e)]]
           Eq(s, g) == g = [t \in SUBSET DOMAIN s |->
                              IF t = {} THEN <<>>
                              ELSE IF Contains(g[t \ {Max(t)}], s[Max(t)])
                                     THEN g[t \ {Max(t)}]
                                     ELSE Append(g[t \ {Max(t)}], s[Max(t)])]
           C(s) == CHOOSE g : Eq(s, g)
           R == [s \in Seq(E) |-> Distinct(s)]
<1>1. F \in [Seq(E) -> [E -> Seq(E)]] /\ <<>> \in Seq(E)
  BY AppendProperties, EmptySeq
<1>2. ASSUME NEW s \in Seq(E)
      PROVE  \E g : /\ IsChosenFold(g, s, Seq(E), <<>>, F)
                    /\ R[s] = g[1..Len(s)]
  <2>1. R[s] = C(s)[DOMAIN s]
    BY DEF Distinct, FoldLeft, MapThenFoldSet
  <2>2. PICK g : IsFold(g, s, Seq(E), <<>>, F)
    <3> HIDE DEF F
    <3> QED
      BY <1>1, FoldExists
  <2>3. ASSUME NEW t \in SUBSET (1..Len(s))
        PROVE  g[t] = IF t = {} THEN <<>>
                      ELSE IF Contains(g[t \ {Max(t)}], s[Max(t)])
                             THEN g[t \ {Max(t)}]
                             ELSE Append(g[t \ {Max(t)}], s[Max(t)])
    BY <2>2, FoldDomain DEF IsFold
  <2>4. DOMAIN g = SUBSET (1..Len(s)) /\ g = [t \in DOMAIN g |-> g[t]]
    BY <2>2 DEF IsFold
  <2>5. Eq(s, g)
    BY <2>3, <2>4, FoldDomain
  <2> HIDE DEF Eq
  <2>6. Eq(s, C(s))
    BY <2>5
  <2> HIDE DEF C
  <2>7. C(s)[{}] = <<>>
    BY <2>6 DEF Eq
  <2>8. ASSUME NEW t \in SUBSET (1..Len(s)), t # {}, C(s)[t \ {Max(t)}] \in Seq(E)
        PROVE  C(s)[t] = F[C(s)[t \ {Max(t)}]][s[Max(t)]]
    BY <2>6, <2>8, FoldDomain DEF Eq
  <2> HIDE DEF F, R
  <2>9. IsChosenFold(C(s), s, Seq(E), <<>>, F)
    BY <2>7, <2>8 DEF IsChosenFold
  <2> QED
    BY <2>1, <2>9, FoldDomain
<1> HIDE DEF F, R
<1>3. GrowsBy(R, Seq(E), <<>>, E, F)
  BY <1>1, <1>2, FoldRecursion
<1>4. /\ <<>> \in Seq(E)
      /\ \A s \in Seq(E), e \in E : Append(s, e) \in Seq(E)
  BY EmptySeq, AppendProperties
<1>5. \A s \in Seq(E) : R[s] = Distinct(s)
  BY DEF R
<1>6. \A s \in Seq(E), e \in E : R[Append(s, e)] =
        IF Contains(R[s], e) THEN R[s] ELSE Append(R[s], e)
  BY <1>3 DEF F, GrowsBy
<1> QED
  BY <1>3, <1>4, <1>5, <1>6 DEF GrowsBy

-----------------------------------------------------------------------------
\* No element of s stands at two positions.
NoneTwice(s) == \A i, j \in DOMAIN s : s[i] = s[j] => i = j

\* Every element of s is in d, no further back.
NoLater(d, s) ==
  \A i \in DOMAIN s : \E j \in DOMAIN d : j <= i /\ d[j] = s[i]

LEMMA AppendSet ==
  ASSUME NEW E, NEW s \in Seq(E), NEW e \in E
  PROVE  /\ Append(s, e) \in Seq(E)
         /\ ToSet(Append(s, e)) = ToSet(s) \cup {e}
         /\ NoneTwice(Append(s, e)) <=> NoneTwice(s) /\ e \notin ToSet(s)
<1>1. PICK s1 : s1 = Append(s, e)
  OBVIOUS
<1>2. /\ s1 \in Seq(E) /\ DOMAIN s = 1..Len(s) /\ DOMAIN s1 = 1..(Len(s) + 1)
      /\ s1[Len(s) + 1] = e
      /\ \A i \in 1..Len(s) : s1[i] = s[i]
      /\ Len(s) \in Nat
  BY <1>1, AppendProperties, LenProperties
<1> DEFINE n == Len(s)
<1>3. n \in Nat /\ DOMAIN s = 1..n /\ DOMAIN s1 = 1..(n + 1) /\ s1[n + 1] = e
      /\ \A i \in 1..n : s1[i] = s[i] /\ i \in 1..(n + 1)
  BY <1>2
<1> HIDE DEF n
<1>4. n + 1 \in 1..(n + 1) /\ \A i \in 1..(n + 1) : i = n + 1 \/ i \in 1..n
  BY <1>3
<1>5. ToSet(s1) = ToSet(s) \cup {e}
  BY <1>3, <1>4 DEF ToSet
<1>6. NoneTwice(s1) => NoneTwice(s) /\ e \notin ToSet(s)
  <2>1. n + 1 \notin 1..n
    BY <1>3
  <2> QED
    BY <1>3, <1>4, <2>1 DEF NoneTwice, ToSet
<1>7. NoneTwice(s) /\ e \notin ToSet(s) => NoneTwice(s1)
  BY <1>3, <1>4 DEF NoneTwice, ToSet
<1> QED
  BY <1>1, <1>2, <1>5, <1>6, <1>7

LEMMA EmptySet ==
  /\ ToSet(<<>>) = {} /\ NoneTwice(<<>>) /\ DOMAIN <<>> = {} /\ Len(<<>>) = 0
  /\ \A E : <<>> \in Seq(E)
<1>1. DOMAIN <<>> = {} /\ Len(<<>>) = 0 /\ \A E : <<>> \in Seq(E)
  BY EmptySeq
<1> QED
  BY <1>1 DEF ToSet, NoneTwice

LEMMA SetOfASequence ==
  ASSUME NEW E, NEW s \in Seq(E)
  PROVE  /\ Len(s) \in Nat /\ DOMAIN s = 1..Len(s)
         /\ ToSet(s) \subseteq E
         /\ \A e : Contains(s, e) <=> e \in ToSet(s)
         /\ ToSet(s) = {} <=> s = <<>>
<1>1. Len(s) \in Nat /\ DOMAIN s = 1..Len(s) /\ \A i \in 1..Len(s) : s[i] \in E
  BY LenProperties, ElementOfSeq
<1>2. s = <<>> <=> Len(s) = 0
  BY EmptySeq
<1>3. Len(s) # 0 => 1 \in 1..Len(s)
  BY <1>1
<1>4. ToSet(s) \subseteq E
  BY <1>1 DEF ToSet
<1>5. \A e : Contains(s, e) <=> e \in ToSet(s)
  BY <1>1 DEF ToSet, Contains
<1>6. ToSet(s) = {} <=> s = <<>>
  BY <1>1, <1>2, <1>3, EmptySet DEF ToSet
<1> QED
  BY <1>1, <1>4, <1>5, <1>6

LEMMA ConcatSet ==
  ASSUME NEW E, NEW a \in Seq(E), NEW b \in Seq(E)
  PROVE  /\ a \o b \in Seq(E)
         /\ Len(a \o b) = Len(a) + Len(b)
         /\ \A i \in 1..Len(a) : (a \o b)[i] = a[i]
         /\ \A i \in 1..Len(b) : (a \o b)[Len(a) + i] = b[i]
         /\ ToSet(a \o b) = ToSet(a) \cup ToSet(b)
         /\ NoneTwice(a) /\ NoneTwice(b) /\ ToSet(a) \cap ToSet(b) = {}
              => NoneTwice(a \o b)
<1>1. PICK c : c = a \o b
  OBVIOUS
<1>2. c \in Seq(E) /\ Len(c) = Len(a) + Len(b) /\ Len(a) \in Nat /\ Len(b) \in Nat
      /\ \A i \in 1..Len(c) : c[i] = IF i <= Len(a) THEN a[i] ELSE b[i - Len(a)]
  BY <1>1, ConcatProperties, LenProperties
<1> DEFINE m == Len(a)
           n == Len(b)
<1>3. /\ m \in Nat /\ n \in Nat
      /\ DOMAIN a = 1..m /\ DOMAIN b = 1..n /\ DOMAIN c = 1..(m + n)
      /\ \A i \in 1..(m + n) : c[i] = IF i <= m THEN a[i] ELSE b[i - m]
  BY <1>2, LenProperties
<1> HIDE DEF m, n
<1>4. /\ \A i \in 1..m : i \in 1..(m + n) /\ c[i] = a[i]
      /\ \A i \in 1..n : m + i \in 1..(m + n) /\ c[m + i] = b[i]
      /\ \A i \in 1..(m + n) : i \in 1..m \/ \E k \in 1..n : i = m + k
  <2>1. \A i \in 1..m : i \in 1..(m + n) /\ c[i] = a[i]
    BY <1>3
  <2>2. ASSUME NEW i \in 1..n PROVE m + i \in 1..(m + n) /\ c[m + i] = b[i]
    <3>1. m + i \in 1..(m + n) /\ ~(m + i <= m) /\ (m + i) - m = i
      BY <1>3
    <3> QED
      BY <1>3, <3>1
  <2>3. ASSUME NEW i \in 1..(m + n), i \notin 1..m PROVE \E k \in 1..n : i = m + k
    <3>1. i - m \in 1..n /\ i = m + (i - m)
      BY <1>3, <2>3
    <3> QED
      BY <3>1
  <2> QED
    BY <2>1, <2>2, <2>3
<1>5. ToSet(c) = ToSet(a) \cup ToSet(b)
  <2>1. ASSUME NEW i \in 1..(m + n) PROVE c[i] \in ToSet(a) \cup ToSet(b)
    <3>1. CASE i \in 1..m
      BY <1>3, <1>4, <3>1 DEF ToSet
    <3>2. CASE i \notin 1..m
      <4>1. PICK k \in 1..n : i = m + k
        BY <1>4, <3>2
      <4>2. c[i] = b[k]
        BY <1>4, <4>1
      <4> QED
        BY <1>3, <4>2 DEF ToSet
    <3> QED
      BY <3>1, <3>2
  <2>2. \A x \in ToSet(a) \cup ToSet(b) : x \in ToSet(c)
    BY <1>3, <1>4 DEF ToSet
  <2> QED
    BY <1>3, <2>1, <2>2 DEF ToSet
<1>6. ASSUME NoneTwice(a), NoneTwice(b), ToSet(a) \cap ToSet(b) = {}
      PROVE  NoneTwice(c)
  <2> SUFFICES ASSUME NEW i \in 1..(m + n), NEW j \in 1..(m + n), c[i] = c[j]
               PROVE  i = j
    BY <1>3 DEF NoneTwice
  <2>1. \A k \in 1..m : a[k] \in ToSet(a)
    BY <1>3 DEF ToSet
  <2>2. \A k \in 1..n : b[k] \in ToSet(b)
    BY <1>3 DEF ToSet
  <2>3. CASE i \in 1..m /\ j \in 1..m
    BY <1>3, <1>4, <1>6, <2>3 DEF NoneTwice
  <2>4. CASE i \in 1..m /\ j \notin 1..m
    BY <1>4, <1>6, <2>1, <2>2, <2>4
  <2>5. CASE i \notin 1..m /\ j \in 1..m
    BY <1>4, <1>6, <2>1, <2>2, <2>5
  <2>6. CASE i \notin 1..m /\ j \notin 1..m
    <3>1. PICK k \in 1..n, l \in 1..n : i = m + k /\ j = m + l
      BY <1>4, <2>6
    <3>2. b[k] = b[l]
      BY <1>4, <3>1
    <3> QED
      BY <1>3, <1>6, <3>1, <3>2 DEF NoneTwice
  <2> QED
    BY <2>3, <2>4, <2>5, <2>6
<1>7. /\ \A i \in 1..Len(a) : c[i] = a[i]
      /\ \A i \in 1..Len(b) : c[Len(a) + i] = b[i]
  BY <1>4 DEF m, n
<1> QED
  BY <1>1, <1>2, <1>5, <1>6, <1>7

LEMMA ConcatAppend ==
  ASSUME NEW E, NEW a \in Seq(E), NEW b \in Seq(E), NEW e \in E
  PROVE  a \o Append(b, e) = Append(a \o b, e)
<1>1. /\ Append(b, e) \in Seq(E) /\ Len(Append(b, e)) = Len(b) + 1
      /\ Append(b, e)[Len(b) + 1] = e
      /\ \A i \in 1..Len(b) : Append(b, e)[i] = b[i]
      /\ Len(a) \in Nat /\ Len(b) \in Nat
  BY AppendProperties, LenProperties
<1>2. PICK b1 \in Seq(E) : b1 = Append(b, e)
  BY <1>1
<1>3. PICK c \in Seq(E) : c = a \o b
  BY ConcatProperties
<1>4. PICK d \in Seq(E) : d = a \o b1
  BY ConcatProperties
<1>5. PICK x \in Seq(E) : x = Append(c, e)
  BY AppendProperties
<1>6. /\ Len(c) = Len(a) + Len(b)
      /\ \A i \in 1..Len(c) : c[i] = IF i <= Len(a) THEN a[i] ELSE b[i - Len(a)]
  BY <1>3, ConcatProperties
<1>7. /\ Len(d) = Len(a) + Len(b1)
      /\ \A i \in 1..Len(d) : d[i] = IF i <= Len(a) THEN a[i] ELSE b1[i - Len(a)]
  BY <1>4, ConcatProperties
<1>8. /\ Len(x) = Len(c) + 1 /\ x[Len(c) + 1] = e
      /\ \A i \in 1..Len(c) : x[i] = c[i]
  BY <1>5, AppendProperties
<1> DEFINE m == Len(a)
           n == Len(b)
<1>9. /\ m \in Nat /\ n \in Nat
      /\ Len(b1) = n + 1 /\ b1[n + 1] = e /\ \A i \in 1..n : b1[i] = b[i]
      /\ Len(c) = m + n /\ Len(d) = m + n + 1 /\ Len(x) = m + n + 1
      /\ \A i \in 1..(m + n) : c[i] = IF i <= m THEN a[i] ELSE b[i - m]
      /\ \A i \in 1..(m + n + 1) : d[i] = IF i <= m THEN a[i] ELSE b1[i - m]
      /\ x[m + n + 1] = e
      /\ \A i \in 1..(m + n) : x[i] = c[i]
  BY <1>1, <1>2, <1>6, <1>7, <1>8
<1> HIDE DEF m, n
<1>10. ASSUME NEW i \in 1..(m + n + 1) PROVE d[i] = x[i]
  <2>1. CASE i = m + n + 1
    <3>1. ~(i <= m) /\ i - m = n + 1
      BY <1>9, <2>1
    <3> QED
      BY <1>9, <2>1, <3>1
  <2>2. CASE i <= m
    <3>1. i \in 1..(m + n)
      BY <1>9, <2>2
    <3> QED
      BY <1>9, <2>2, <3>1
  <2>3. CASE i # m + n + 1 /\ ~(i <= m)
    <3>1. i \in 1..(m + n) /\ i - m \in 1..n
      BY <1>9, <2>3
    <3> QED
      BY <1>9, <2>3, <3>1
  <2> QED
    BY <2>1, <2>2, <2>3
<1>11. d = x
  BY <1>9, <1>10, SeqEqual
<1> QED
  BY <1>2, <1>3, <1>4, <1>5, <1>11

-----------------------------------------------------------------------------
\* What Among leaves of a sequence.
LEMMA AmongFacts ==
  ASSUME NEW E, NEW T, NEW s \in Seq(E)
  PROVE  /\ Among(s, T) \in Seq(E)
         /\ ToSet(Among(s, T)) = ToSet(s) \cap T
         /\ NoneTwice(s) => NoneTwice(Among(s, T))
         /\ ToSet(s) \subseteq T => Among(s, T) = s
         /\ Among(s, T) = <<>> <=> ToSet(s) \cap T = {}
<1> DEFINE P(q) == /\ ToSet(Among(q, T)) = ToSet(q) \cap T
                   /\ NoneTwice(q) => NoneTwice(Among(q, T))
                   /\ ToSet(q) \subseteq T => Among(q, T) = q
           G == {q \in Seq(E) : P(q)}
<1>1. /\ Among(<<>>, T) = <<>>
      /\ \A q \in Seq(E) : Among(q, T) \in Seq(E)
      /\ \A q \in Seq(E), e \in E :
           Among(Append(q, e), T) = IF e \in T THEN Append(Among(q, T), e)
                                              ELSE Among(q, T)
  BY AmongStep
<1>2. <<>> \in G
  BY <1>1, EmptySet
<1>3. ASSUME NEW q \in Seq(E), NEW e \in E, P(q) PROVE P(Append(q, e))
  <2>1. PICK q1 : q1 = Append(q, e)
    OBVIOUS
  <2>2. PICK f \in Seq(E) : f = Among(q, T)
    BY <1>1
  <2>3. PICK f1 : f1 = Append(f, e)
    OBVIOUS
  <2>4. /\ ToSet(q1) = ToSet(q) \cup {e}
        /\ NoneTwice(q1) <=> NoneTwice(q) /\ e \notin ToSet(q)
        /\ ToSet(f1) = ToSet(f) \cup {e}
        /\ NoneTwice(f1) <=> NoneTwice(f) /\ e \notin ToSet(f)
    BY <2>1, <2>2, <2>3, AppendSet
  <2>5. Among(q1, T) = IF e \in T THEN f1 ELSE f
    BY <1>1, <2>1, <2>2, <2>3
  <2>6. /\ ToSet(f) = ToSet(q) \cap T
        /\ NoneTwice(q) => NoneTwice(f)
        /\ ToSet(q) \subseteq T => f = q
    BY <1>3, <2>2
  <2>7. P(q1)
    BY <2>1, <2>3, <2>4, <2>5, <2>6
  <2> QED
    BY <2>1, <2>7
<1> HIDE DEF P
<1>4. \A q \in Seq(E), e \in E : q \in G => Append(q, e) \in G
  BY <1>3, AppendSet
<1> HIDE DEF G
<1>5. s \in G
  BY <1>2, <1>4, SeqSetInduction
<1>6. P(s)
  BY <1>5 DEF G
<1>7. Among(s, T) \in Seq(E)
  BY <1>1
<1>8. Among(s, T) = <<>> <=> ToSet(Among(s, T)) = {}
  BY <1>7, SetOfASequence
<1> QED
  BY <1>6, <1>7, <1>8 DEF P

LEMMA AmongConcat ==
  ASSUME NEW E, NEW T, NEW a \in Seq(E), NEW b \in Seq(E)
  PROVE  Among(a \o b, T) = Among(a, T) \o Among(b, T)
<1> DEFINE G == {q \in Seq(E) : Among(a \o q, T) = Among(a, T) \o Among(q, T)}
<1>1. /\ Among(<<>>, T) = <<>>
      /\ \A q \in Seq(E) : Among(q, T) \in Seq(E)
      /\ \A q \in Seq(E), e \in E :
           Among(Append(q, e), T) = IF e \in T THEN Append(Among(q, T), e)
                                              ELSE Among(q, T)
  BY AmongStep
<1>2. <<>> \in G
  <2>1. a \o <<>> = a /\ Among(a, T) \o <<>> = Among(a, T) /\ <<>> \in Seq(E)
    BY <1>1, ConcatEmptySeq, EmptySet
  <2> QED
    BY <1>1, <2>1
<1>3. ASSUME NEW q \in Seq(E), NEW e \in E,
             Among(a \o q, T) = Among(a, T) \o Among(q, T)
      PROVE  Among(a \o Append(q, e), T) = Among(a, T) \o Among(Append(q, e), T)
  <2>1. a \o q \in Seq(E) /\ a \o Append(q, e) = Append(a \o q, e)
    BY ConcatSet, ConcatAppend
  <2>2. Among(Append(a \o q, e), T) =
          IF e \in T THEN Append(Among(a \o q, T), e) ELSE Among(a \o q, T)
    BY <1>1, <2>1
  <2>3. Among(a, T) \o Append(Among(q, T), e) = Append(Among(a, T) \o Among(q, T), e)
    <3>1. PICK c \in Seq(E), d \in Seq(E) : c = Among(a, T) /\ d = Among(q, T)
      BY <1>1
    <3>2. c \o Append(d, e) = Append(c \o d, e)
      BY ConcatAppend
    <3> QED
      BY <3>1, <3>2
  <2>4. Among(Append(q, e), T) =
          IF e \in T THEN Append(Among(q, T), e) ELSE Among(q, T)
    BY <1>1
  <2>5. CASE e \in T
    BY <1>3, <2>1, <2>2, <2>3, <2>4, <2>5, Zenon
  <2>6. CASE e \notin T
    BY <1>3, <2>1, <2>2, <2>4, <2>6, Zenon
  <2> QED
    BY <2>5, <2>6
<1>4. \A q \in Seq(E), e \in E : q \in G => Append(q, e) \in G
  BY <1>3, AppendSet, Zenon
<1> HIDE DEF G
<1>5. b \in G
  BY <1>2, <1>4, SeqSetInduction
<1> QED
  BY <1>5 DEF G

\* What Distinct leaves of a sequence.
LEMMA DistinctFacts ==
  ASSUME NEW E, NEW s \in Seq(E)
  PROVE  /\ Distinct(s) \in Seq(E)
         /\ ToSet(Distinct(s)) = ToSet(s)
         /\ NoneTwice(Distinct(s))
         /\ NoneTwice(s) => Distinct(s) = s
         /\ NoLater(Distinct(s), s)
<1> DEFINE P(q) == /\ ToSet(Distinct(q)) = ToSet(q)
                   /\ NoneTwice(Distinct(q))
                   /\ NoneTwice(q) => Distinct(q) = q
                   /\ NoLater(Distinct(q), q)
                   /\ Len(Distinct(q)) <= Len(q)
           G == {q \in Seq(E) : P(q)}
<1>1. /\ Distinct(<<>>) = <<>>
      /\ \A q \in Seq(E) : Distinct(q) \in Seq(E)
      /\ \A q \in Seq(E), e \in E :
           Distinct(Append(q, e)) =
             IF Contains(Distinct(q), e) THEN Distinct(q) ELSE Append(Distinct(q), e)
  BY DistinctStep
<1>2. <<>> \in G
  BY <1>1, EmptySet DEF NoLater
<1>3. ASSUME NEW q \in Seq(E), NEW e \in E, P(q) PROVE P(Append(q, e))
  <2>1. PICK q1 \in Seq(E) : q1 = Append(q, e)
    BY AppendSet
  <2>2. PICK d \in Seq(E) : d = Distinct(q)
    BY <1>1
  <2>3. PICK d1 \in Seq(E) : d1 = Append(d, e)
    BY AppendSet
  <2>4. /\ ToSet(q1) = ToSet(q) \cup {e}
        /\ NoneTwice(q1) <=> NoneTwice(q) /\ e \notin ToSet(q)
        /\ ToSet(d1) = ToSet(d) \cup {e}
        /\ NoneTwice(d1) <=> NoneTwice(d) /\ e \notin ToSet(d)
    BY <2>1, <2>2, <2>3, AppendSet
  <2>5. Contains(d, e) <=> e \in ToSet(d)
    BY SetOfASequence
  <2>6. Distinct(q1) = IF e \in ToSet(d) THEN d ELSE d1
    BY <1>1, <2>1, <2>2, <2>3, <2>5
  <2>7. /\ ToSet(d) = ToSet(q) /\ NoneTwice(d)
        /\ NoneTwice(q) => d = q
        /\ NoLater(d, q) /\ Len(d) <= Len(q)
    BY <1>3, <2>2
  <2>8. /\ Len(q) \in Nat /\ DOMAIN q = 1..Len(q) /\ DOMAIN q1 = 1..(Len(q) + 1)
        /\ q1[Len(q) + 1] = e /\ \A i \in 1..Len(q) : q1[i] = q[i]
        /\ Len(d) \in Nat /\ DOMAIN d = 1..Len(d) /\ DOMAIN d1 = 1..(Len(d) + 1)
        /\ d1[Len(d) + 1] = e /\ \A i \in 1..Len(d) : d1[i] = d[i]
        /\ Len(q1) = Len(q) + 1 /\ Len(d1) = Len(d) + 1
    BY <2>1, <2>2, <2>3, AppendProperties, LenProperties
  <2>9. CASE e \in ToSet(d)
    <3>1. Distinct(q1) = d
      BY <2>6, <2>9
    <3>2. NoLater(d, q1)
      <4>1. PICK i \in DOMAIN d : d[i] = e
        BY <2>9 DEF ToSet
      <4>2. i <= Len(q) + 1 /\ q1[Len(q) + 1] = e
        BY <2>7, <2>8, <4>1
      <4> SUFFICES ASSUME NEW k \in DOMAIN q1
                   PROVE  \E j \in DOMAIN d : j <= k /\ d[j] = q1[k]
        BY DEF NoLater
      <4>3. CASE k = Len(q) + 1
        BY <4>1, <4>2, <4>3
      <4>4. CASE k # Len(q) + 1
        <5>1. k \in DOMAIN q /\ q1[k] = q[k]
          BY <2>8, <4>4
        <5> QED
          BY <2>7, <5>1 DEF NoLater
      <4> QED
        BY <4>3, <4>4
    <3>3. ToSet(d) = ToSet(q1) /\ ~NoneTwice(q1)
      BY <2>4, <2>7, <2>9
    <3>4. Len(d) <= Len(q1)
      BY <2>7, <2>8
    <3>5. P(q1)
      BY <2>7, <3>1, <3>2, <3>3, <3>4
    <3> QED
      BY <2>1, <3>5
  <2>10. CASE e \notin ToSet(d)
    <3>1. Distinct(q1) = d1
      BY <2>6, <2>10
    <3>2. NoLater(d1, q1)
      <4> SUFFICES ASSUME NEW i \in DOMAIN q1
                   PROVE  \E j \in DOMAIN d1 : j <= i /\ d1[j] = q1[i]
        BY DEF NoLater
      <4>1. CASE i = Len(q) + 1
        <5>1. /\ Len(d) + 1 \in DOMAIN d1 /\ Len(d) + 1 <= i
              /\ d1[Len(d) + 1] = q1[i]
          BY <2>7, <2>8, <4>1
        <5> QED
          BY <5>1
      <4>2. CASE i # Len(q) + 1
        <5>1. i \in DOMAIN q /\ q1[i] = q[i]
          BY <2>8, <4>2
        <5>2. PICK j \in DOMAIN d : j <= i /\ d[j] = q[i]
          BY <2>7, <5>1 DEF NoLater
        <5>3. j \in DOMAIN d1 /\ d1[j] = d[j]
          BY <2>8, <5>2
        <5> QED
          BY <5>1, <5>2, <5>3
      <4> QED
        BY <4>1, <4>2
    <3>3. ToSet(d1) = ToSet(q1) /\ NoneTwice(d1)
      BY <2>4, <2>7, <2>10
    <3>4. Len(d1) <= Len(q1)
      BY <2>7, <2>8
    <3>5. NoneTwice(q1) => d1 = q1
      BY <2>1, <2>3, <2>4, <2>7
    <3>6. P(q1)
      BY <3>1, <3>2, <3>3, <3>4, <3>5
    <3> QED
      BY <2>1, <3>6
  <2> QED
    BY <2>9, <2>10
<1> HIDE DEF P
<1>4. \A q \in Seq(E), e \in E : q \in G => Append(q, e) \in G
  BY <1>3, AppendSet
<1> HIDE DEF G
<1>5. s \in G
  BY <1>2, <1>4, SeqSetInduction
<1>6. P(s)
  BY <1>5 DEF G
<1> QED
  BY <1>1, <1>6 DEF P

\* Distinct behind a sequence that repeats nothing: what is new of the rest.
LEMMA DistinctConcat ==
  ASSUME NEW E, NEW a \in Seq(E), NEW b \in Seq(E), NoneTwice(a), NoneTwice(b)
  PROVE  Distinct(a \o b) = a \o Among(b, E \ ToSet(a))
<1> DEFINE T == E \ ToSet(a)
           P(q) == NoneTwice(q) => Distinct(a \o q) = a \o Among(q, T)
           G == {q \in Seq(E) : P(q)}
<1>1. /\ Among(<<>>, T) = <<>>
      /\ \A q \in Seq(E) : Among(q, T) \in Seq(E)
      /\ \A q \in Seq(E), e \in E :
           Among(Append(q, e), T) = IF e \in T THEN Append(Among(q, T), e)
                                              ELSE Among(q, T)
  BY AmongStep
<1> HIDE DEF T
<1>2. <<>> \in G
  <2>1. a \o <<>> = a /\ <<>> \in Seq(E)
    BY ConcatEmptySeq, EmptySet
  <2>2. Distinct(a) = a
    BY DistinctFacts
  <2> QED
    BY <1>1, <2>1, <2>2
<1>3. ASSUME NEW q \in Seq(E), NEW e \in E, P(q) PROVE P(Append(q, e))
  <2> SUFFICES ASSUME NoneTwice(Append(q, e))
               PROVE  Distinct(a \o Append(q, e)) = a \o Among(Append(q, e), T)
    OBVIOUS
  <2>1. NoneTwice(q) /\ e \notin ToSet(q)
    BY AppendSet
  <2>2. Distinct(a \o q) = a \o Among(q, T)
    BY <1>3, <2>1
  <2>3. a \o q \in Seq(E) /\ a \o Append(q, e) = Append(a \o q, e)
        /\ ToSet(a \o q) = ToSet(a) \cup ToSet(q)
    BY ConcatSet, ConcatAppend
  <2>4. /\ Distinct(a \o q) \in Seq(E)
        /\ ToSet(Distinct(a \o q)) = ToSet(a) \cup ToSet(q)
    BY <2>3, DistinctFacts
  <2>5. Contains(Distinct(a \o q), e) <=> e \in ToSet(a)
    BY <2>1, <2>4, SetOfASequence
  <2>6. Distinct(Append(a \o q, e)) =
          IF Contains(Distinct(a \o q), e) THEN Distinct(a \o q)
                                           ELSE Append(Distinct(a \o q), e)
    BY <2>3, DistinctStep
  <2>7. e \in T <=> e \notin ToSet(a)
    BY DEF T
  <2>8. a \o Append(Among(q, T), e) = Append(a \o Among(q, T), e)
    <3>1. PICK d \in Seq(E) : d = Among(q, T)
      BY <1>1
    <3>2. a \o Append(d, e) = Append(a \o d, e)
      BY ConcatAppend
    <3> QED
      BY <3>1, <3>2
  <2>9. Among(Append(q, e), T) =
          IF e \in T THEN Append(Among(q, T), e) ELSE Among(q, T)
    BY <1>1
  <2>10. CASE e \in T
    BY <2>2, <2>3, <2>5, <2>6, <2>7, <2>8, <2>9, <2>10, Zenon
  <2>11. CASE e \notin T
    BY <2>2, <2>3, <2>5, <2>6, <2>7, <2>9, <2>11, Zenon
  <2> QED
    BY <2>10, <2>11
<1> HIDE DEF P
<1>4. \A q \in Seq(E), e \in E : q \in G => Append(q, e) \in G
  BY <1>3, AppendSet
<1> HIDE DEF G
<1>5. b \in G
  BY <1>2, <1>4, SeqSetInduction
<1>6. P(b)
  BY <1>5 DEF G
<1> QED
  BY <1>6 DEF P, T

-----------------------------------------------------------------------------
\* A function on 1..n is a sequence.
LEMMA FunctionIsSequence ==
  ASSUME NEW E, NEW n \in Nat, NEW f \in [1..n -> E]
  PROVE  /\ f \in Seq(E) /\ Len(f) = n /\ DOMAIN f = 1..n
         /\ ToSet(f) = {f[i] : i \in 1..n}
<1>1. f \in Seq(E)
  BY SeqDef
<1>2. DOMAIN f = 1..n /\ Len(f) = n
  BY <1>1, LenProperties
<1> QED
  BY <1>1, <1>2 DEF ToSet

\* The WG steps of one host.
LEMMA HostStepsFacts ==
  ASSUME NEW host \in Host, NEW ports \in Seq(Int)
  PROVE  /\ HostSteps(host, ports) \in Seq(Step)
         /\ NoneTwice(HostSteps(host, ports))
         /\ ToSet(HostSteps(host, ports)) # {}
         /\ ToSet(HostSteps(host, ports))
              \subseteq [transport : {"wg"}, host : {host}, port : 1..MaxPort]
<1> DEFINE q == <<DefaultPort>> \o ports
           valid == Among(q, 1..MaxPort)
           ps == Distinct(valid)
           f == [i \in DOMAIN ps |-> WG(host, ps[i])]
<1>1. DefaultPort \in 1..MaxPort /\ MaxPort \in Nat
  BY LadderStepsAssumption
<1>2. q \in Seq(Int) /\ DefaultPort \in ToSet(q)
  <2>1. DefaultPort \in Int
    BY <1>1
  <2>2. <<DefaultPort>> \in Seq(Int)
    BY <2>1
  <2>3. PICK p \in Seq(Int) : p = <<DefaultPort>>
    BY <2>2
  <2>4. DefaultPort \in ToSet(p)
    BY <2>3 DEF ToSet
  <2>5. p \o ports \in Seq(Int) /\ ToSet(p \o ports) = ToSet(p) \cup ToSet(ports)
    BY ConcatSet
  <2> QED
    BY <2>3, <2>4, <2>5
<1> HIDE DEF q
<1>3. valid \in Seq(Int) /\ ToSet(valid) = ToSet(q) \cap (1..MaxPort)
  BY <1>2, AmongFacts
<1> HIDE DEF valid
<1>4. /\ ps \in Seq(Int) /\ NoneTwice(ps)
      /\ ToSet(ps) = ToSet(q) \cap (1..MaxPort)
  BY <1>3, DistinctFacts
<1>5. HostSteps(host, ports) = f
  BY DEF HostSteps, ps, valid, q
<1> HIDE DEF ps
<1>6. Len(ps) \in Nat /\ DOMAIN ps = 1..Len(ps)
  BY <1>4, LenProperties
<1>7. \A i \in 1..Len(ps) : ps[i] \in 1..MaxPort
  BY <1>4, <1>6 DEF ToSet
<1>8. DOMAIN ps # {}
  BY <1>1, <1>2, <1>4 DEF ToSet
<1>9. \A i \in 1..Len(ps) : f[i] \in [transport : {"wg"}, host : {host}, port : 1..MaxPort]
  BY <1>6, <1>7 DEF WG
<1>10. f \in [1..Len(ps) -> Step]
  <2>1. \A i \in 1..Len(ps) : f[i] \in Step
    BY <1>6, <1>7 DEF WG, Step
  <2> QED
    BY <1>6, <2>1
<1>11. \A i, j \in DOMAIN ps : f[i] = f[j] => ps[i] = ps[j]
  BY DEF WG
<1>12. NoneTwice(f)
  BY <1>4, <1>11 DEF NoneTwice
<1> HIDE DEF f
<1>13. f \in Seq(Step) /\ ToSet(f) = {f[i] : i \in 1..Len(ps)}
  BY <1>6, <1>10, FunctionIsSequence
<1>14. ToSet(f) # {} /\ ToSet(f) \subseteq [transport : {"wg"}, host : {host}, port : 1..MaxPort]
  BY <1>6, <1>8, <1>9, <1>13
<1> QED
  BY <1>5, <1>12, <1>13, <1>14

\* What is in a ladder after addHost: its hosts, and only valid WG steps.
WGLadder(s, hosts) ==
  /\ s \in Seq(Step) /\ NoneTwice(s)
  /\ ToSet(s) \subseteq [transport : {"wg"}, host : Host \ {NoHost}, port : 1..MaxPort]
  /\ {x.host : x \in ToSet(s)} = hosts \ {NoHost}

LEMMA AddHostFacts ==
  ASSUME NEW acc \in Seq(Step), NEW h \in Endpoint
  PROVE  /\ AddHost(acc, h) \in Seq(Step)
         /\ \A hosts : WGLadder(acc, hosts)
                         => WGLadder(AddHost(acc, h), hosts \cup {h.host})
<1>1. h.host \in Host /\ h.ports \in Seq(Int)
  BY DEF Endpoint
<1> DEFINE new == HostSteps(h.host, h.ports)
<1>2. /\ new \in Seq(Step) /\ NoneTwice(new) /\ ToSet(new) # {}
      /\ ToSet(new) \subseteq [transport : {"wg"}, host : {h.host}, port : 1..MaxPort]
  BY <1>1, HostStepsFacts
<1> DEFINE known == h.host = NoHost \/ \E i \in DOMAIN acc : acc[i].host = h.host
<1>3. AddHost(acc, h) = IF known THEN acc ELSE acc \o new
  BY DEF AddHost
<1> HIDE DEF new
<1>4. /\ acc \o new \in Seq(Step)
      /\ ToSet(acc \o new) = ToSet(acc) \cup ToSet(new)
      /\ NoneTwice(acc) /\ ToSet(acc) \cap ToSet(new) = {} => NoneTwice(acc \o new)
  BY <1>2, ConcatSet
<1>5. ASSUME NEW hosts, WGLadder(acc, hosts)
      PROVE  WGLadder(AddHost(acc, h), hosts \cup {h.host})
  <2>1. /\ NoneTwice(acc)
        /\ ToSet(acc) \subseteq
             [transport : {"wg"}, host : Host \ {NoHost}, port : 1..MaxPort]
        /\ {x.host : x \in ToSet(acc)} = hosts \ {NoHost}
    BY <1>5 DEF WGLadder
  <2>2. CASE known
    <3>1. h.host = NoHost \/ h.host \in {x.host : x \in ToSet(acc)}
      BY <2>2 DEF ToSet
    <3>2. (hosts \cup {h.host}) \ {NoHost} = hosts \ {NoHost}
      BY <2>1, <3>1
    <3> QED
      BY <1>3, <2>1, <2>2, <3>2 DEF WGLadder
  <2>3. CASE ~known
    <3>1. h.host # NoHost /\ \A x \in ToSet(acc) : x.host # h.host
      BY <2>3 DEF ToSet
    <3>2. \A x \in ToSet(new) :
            /\ x.host = h.host
            /\ x \in [transport : {"wg"}, host : Host \ {NoHost}, port : 1..MaxPort]
      BY <1>1, <1>2, <3>1
    <3>3. ToSet(acc) \cap ToSet(new) = {}
      BY <3>1, <3>2
    <3>4. {x.host : x \in ToSet(acc) \cup ToSet(new)} = (hosts \cup {h.host}) \ {NoHost}
      <4>1. {x.host : x \in ToSet(acc) \cup ToSet(new)} = {x.host : x \in ToSet(acc)} \cup {h.host}
        BY <1>2, <3>2
      <4> QED
        BY <2>1, <3>1, <4>1
    <3>5. ToSet(acc) \cup ToSet(new) \subseteq
            [transport : {"wg"}, host : Host \ {NoHost}, port : 1..MaxPort]
      BY <2>1, <3>2
    <3>6. WGLadder(acc \o new, hosts \cup {h.host})
      BY <1>4, <2>1, <3>3, <3>4, <3>5 DEF WGLadder
    <3> QED
      BY <1>3, <2>3, <3>6
  <2> QED
    BY <2>2, <2>3
<1>6. AddHost(acc, h) \in Seq(Step)
  BY <1>3, <1>4
<1> QED
  BY <1>5, <1>6

\* The addresses taken from one line of the fallback list.
LEMMA ExpandLineType ==
  ASSUME NEW line \in Line
  PROVE  ExpandLine(line) \in Seq(Address)
<1> DEFINE share == line.size \div (HostsPerNet + 1)
           stride == IF share < 1 THEN 1 ELSE share
           r == [i \in 1..HostsPerNet |-> stride * i]
           offsets == Among(r, 0..(line.size - 1))
           a == [i \in DOMAIN offsets |-> <<line.addr[1], line.addr[2] + offsets[i]>>]
<1>1. line.addr[1] \in Networks /\ line.addr[2] \in Nat /\ line.addr \in Address
      /\ line.size \in Nat /\ HostsPerNet \in Nat \ {0}
  BY LadderStepsAssumption DEF Line, Address
<1>2. share \in Int
  BY <1>1
<1> HIDE DEF share
<1>3. stride \in Int
  BY <1>2
<1> HIDE DEF stride
<1>4. r \in [1..HostsPerNet -> Int]
  BY <1>1, <1>3
<1> HIDE DEF r
<1>5. r \in Seq(Int)
  <2>1. HostsPerNet \in Nat
    BY <1>1
  <2> QED
    BY <1>4, <2>1, FunctionIsSequence
<1>6. offsets \in Seq(Int) /\ ToSet(offsets) \subseteq 0..(line.size - 1)
  <2>1. PICK T : T = 0..(line.size - 1)
    OBVIOUS
  <2>2. Among(r, T) \in Seq(Int) /\ ToSet(Among(r, T)) = ToSet(r) \cap T
    BY <1>5, AmongFacts
  <2> QED
    BY <2>1, <2>2
<1> HIDE DEF offsets
<1>7. Len(offsets) \in Nat /\ DOMAIN offsets = 1..Len(offsets)
  BY <1>6, LenProperties
<1>8. \A i \in DOMAIN offsets : line.addr[2] + offsets[i] \in Nat
  BY <1>1, <1>6 DEF ToSet
<1>9. a \in [1..Len(offsets) -> Address]
  BY <1>1, <1>7, <1>8 DEF Address
<1>10. a \in Seq(Address)
  BY <1>7, <1>9, FunctionIsSequence
<1>11. <<line.addr>> \in Seq(Address) /\ <<>> \in Seq(Address)
  BY <1>1, EmptySet
<1>12. ExpandLine(line) = IF line.size = 0 THEN <<line.addr>>
                          ELSE IF line.size \in 1..2 THEN <<>> ELSE a
  BY <1>1 DEF ExpandLine, a, offsets, r, stride, share
<1> QED
  BY <1>10, <1>11, <1>12

LEMMA AddHostsStep ==
  /\ AddHosts(<<>>) = <<>>
  /\ \A s \in Seq(Endpoint) : AddHosts(s) \in Seq(Step)
  /\ \A s \in Seq(Endpoint), e \in Endpoint :
       AddHosts(Append(s, e)) =
         AddHost(AddHosts(s), e)
<1> DEFINE F == [acc \in Seq(Step) |-> [e \in Endpoint |->
                   AddHost(acc, e)]]
           Eq(s, g) == g = [t \in SUBSET DOMAIN s |->
                              IF t = {} THEN <<>>
                              ELSE AddHost(g[t \ {Max(t)}], s[Max(t)])]
           C(s) == CHOOSE g : Eq(s, g)
           R == [s \in Seq(Endpoint) |-> AddHosts(s)]
<1>1. F \in [Seq(Step) -> [Endpoint -> Seq(Step)]] /\ <<>> \in Seq(Step)
  BY AddHostFacts, EmptySet
<1>2. ASSUME NEW s \in Seq(Endpoint)
      PROVE  \E g : /\ IsChosenFold(g, s, Seq(Step), <<>>, F)
                    /\ R[s] = g[1..Len(s)]
  <2>1. R[s] = C(s)[DOMAIN s]
    BY DEF AddHosts, FoldLeft, MapThenFoldSet
  <2>2. PICK g : IsFold(g, s, Seq(Step), <<>>, F)
    <3> HIDE DEF F
    <3> QED
      BY <1>1, FoldExists
  <2>3. ASSUME NEW t \in SUBSET (1..Len(s))
        PROVE  g[t] = IF t = {} THEN <<>>
                      ELSE AddHost(g[t \ {Max(t)}], s[Max(t)])
    BY <2>2, FoldDomain DEF IsFold
  <2>4. DOMAIN g = SUBSET (1..Len(s)) /\ g = [t \in DOMAIN g |-> g[t]]
    BY <2>2 DEF IsFold
  <2>5. Eq(s, g)
    BY <2>3, <2>4, FoldDomain
  <2> HIDE DEF Eq
  <2>6. Eq(s, C(s))
    BY <2>5
  <2> HIDE DEF C
  <2>7. C(s)[{}] = <<>>
    BY <2>6 DEF Eq
  <2>8. ASSUME NEW t \in SUBSET (1..Len(s)), t # {}, C(s)[t \ {Max(t)}] \in Seq(Step)
        PROVE  C(s)[t] = F[C(s)[t \ {Max(t)}]][s[Max(t)]]
    BY <2>6, <2>8, FoldDomain DEF Eq
  <2> HIDE DEF F, R
  <2>9. IsChosenFold(C(s), s, Seq(Step), <<>>, F)
    BY <2>7, <2>8 DEF IsChosenFold
  <2> QED
    BY <2>1, <2>9, FoldDomain
<1> HIDE DEF F, R
<1>3. GrowsBy(R, Seq(Step), <<>>, Endpoint, F)
  BY <1>1, <1>2, FoldRecursion
<1>4. /\ <<>> \in Seq(Endpoint)
      /\ \A s \in Seq(Endpoint), e \in Endpoint : Append(s, e) \in Seq(Endpoint)
  BY EmptySeq, AppendProperties
<1>5. \A s \in Seq(Endpoint) : R[s] = AddHosts(s)
  BY DEF R
<1>6. \A s \in Seq(Endpoint), e \in Endpoint : R[Append(s, e)] =
        AddHost(R[s], e)
  BY <1>3 DEF F, GrowsBy
<1> QED
  BY <1>3, <1>4, <1>5, <1>6 DEF GrowsBy

LEMMA ExpandFallbackStep ==
  /\ ExpandFallback(<<>>) = <<>>
  /\ \A s \in Seq(Line) : ExpandFallback(s) \in Seq(Address)
  /\ \A s \in Seq(Line), e \in Line :
       ExpandFallback(Append(s, e)) =
         ExpandFallback(s) \o ExpandLine(e)
<1> DEFINE F == [acc \in Seq(Address) |-> [e \in Line |->
                   acc \o ExpandLine(e)]]
           Eq(s, g) == g = [t \in SUBSET DOMAIN s |->
                              IF t = {} THEN <<>>
                              ELSE g[t \ {Max(t)}] \o ExpandLine(s[Max(t)])]
           C(s) == CHOOSE g : Eq(s, g)
           R == [s \in Seq(Line) |-> ExpandFallback(s)]
<1>1. F \in [Seq(Address) -> [Line -> Seq(Address)]] /\ <<>> \in Seq(Address)
  BY ExpandLineType, ConcatSet, EmptySet
<1>2. ASSUME NEW s \in Seq(Line)
      PROVE  \E g : /\ IsChosenFold(g, s, Seq(Address), <<>>, F)
                    /\ R[s] = g[1..Len(s)]
  <2>1. R[s] = C(s)[DOMAIN s]
    BY DEF ExpandFallback, FoldLeft, MapThenFoldSet
  <2>2. PICK g : IsFold(g, s, Seq(Address), <<>>, F)
    <3> HIDE DEF F
    <3> QED
      BY <1>1, FoldExists
  <2>3. ASSUME NEW t \in SUBSET (1..Len(s))
        PROVE  g[t] = IF t = {} THEN <<>>
                      ELSE g[t \ {Max(t)}] \o ExpandLine(s[Max(t)])
    BY <2>2, FoldDomain DEF IsFold
  <2>4. DOMAIN g = SUBSET (1..Len(s)) /\ g = [t \in DOMAIN g |-> g[t]]
    BY <2>2 DEF IsFold
  <2>5. Eq(s, g)
    BY <2>3, <2>4, FoldDomain
  <2> HIDE DEF Eq
  <2>6. Eq(s, C(s))
    BY <2>5
  <2> HIDE DEF C
  <2>7. C(s)[{}] = <<>>
    BY <2>6 DEF Eq
  <2>8. ASSUME NEW t \in SUBSET (1..Len(s)), t # {}, C(s)[t \ {Max(t)}] \in Seq(Address)
        PROVE  C(s)[t] = F[C(s)[t \ {Max(t)}]][s[Max(t)]]
    BY <2>6, <2>8, FoldDomain DEF Eq
  <2> HIDE DEF F, R
  <2>9. IsChosenFold(C(s), s, Seq(Address), <<>>, F)
    BY <2>7, <2>8 DEF IsChosenFold
  <2> QED
    BY <2>1, <2>9, FoldDomain
<1> HIDE DEF F, R
<1>3. GrowsBy(R, Seq(Address), <<>>, Line, F)
  BY <1>1, <1>2, FoldRecursion
<1>4. /\ <<>> \in Seq(Line)
      /\ \A s \in Seq(Line), e \in Line : Append(s, e) \in Seq(Line)
  BY EmptySeq, AppendProperties
<1>5. \A s \in Seq(Line) : R[s] = ExpandFallback(s)
  BY DEF R
<1>6. \A s \in Seq(Line), e \in Line : R[Append(s, e)] =
        R[s] \o ExpandLine(e)
  BY <1>3 DEF F, GrowsBy
<1> QED
  BY <1>3, <1>4, <1>5, <1>6 DEF GrowsBy

-----------------------------------------------------------------------------
LEMMA AddHostsFacts ==
  ASSUME NEW s \in Seq(Endpoint)
  PROVE  WGLadder(AddHosts(s), {h.host : h \in ToSet(s)})
<1> DEFINE G == {q \in Seq(Endpoint) :
                   WGLadder(AddHosts(q), {h.host : h \in ToSet(q)})}
<1>1. <<>> \in G
  BY AddHostsStep, EmptySet DEF WGLadder
<1>2. ASSUME NEW q \in Seq(Endpoint), NEW e \in Endpoint,
             WGLadder(AddHosts(q), {h.host : h \in ToSet(q)})
      PROVE  WGLadder(AddHosts(Append(q, e)), {h.host : h \in ToSet(Append(q, e))})
  <2>1. PICK acc \in Seq(Step) : acc = AddHosts(q)
    BY AddHostsStep
  <2>2. PICK hosts : hosts = {h.host : h \in ToSet(q)}
    OBVIOUS
  <2>3. WGLadder(AddHost(acc, e), hosts \cup {e.host})
    BY <1>2, <2>1, <2>2, AddHostFacts
  <2>4. AddHosts(Append(q, e)) = AddHost(acc, e)
    BY <2>1, AddHostsStep
  <2>5. {h.host : h \in ToSet(Append(q, e))} = hosts \cup {e.host}
    <3>1. ToSet(Append(q, e)) = ToSet(q) \cup {e}
      BY AppendSet
    <3> QED
      BY <2>2, <3>1
  <2> QED
    BY <2>3, <2>4, <2>5
<1>3. \A q \in Seq(Endpoint), e \in Endpoint : q \in G => Append(q, e) \in G
  BY <1>2, AppendSet
<1> HIDE DEF G
<1>4. s \in G
  BY <1>1, <1>3, SeqSetInduction
<1> QED
  BY <1>4 DEF G

\* The hosts of a device and of the fallback list in force.
HostsOf(in) ==
  LET f == ExpandFallback(FallbackHosts(in.file))
  IN {in.v4} \cup {a.host : a \in ToSet(in.alt)} \cup ToSet(f)

LEMMA WGStepsFacts ==
  ASSUME NEW in \in Input
  PROVE  WGLadder(WGSteps(in), HostsOf(in))
<1> DEFINE list == FallbackHosts(in.file)
           fallback == ExpandFallback(list)
           others == [host : Host \ {in.v4}, ports : Seq(Int)]
           issued == <<[host |-> in.v4, ports |-> in.ports]>>
           alt == Among(in.alt, others)
           tail == [i \in DOMAIN fallback |->
                      [host |-> fallback[i], ports |-> in.ports]]
           hosts == issued \o alt \o tail
<1>1. /\ in.v4 \in Host /\ in.ports \in Seq(Int) /\ in.alt \in Seq(Endpoint)
      /\ in.file \in Seq(Line)
  BY DEF Input
<1>2. list \in Seq(Line)
  BY <1>1, LadderStepsAssumption DEF FallbackHosts
<1> HIDE DEF list
<1>3. fallback \in Seq(Address)
  BY <1>2, ExpandFallbackStep
<1>4. WGSteps(in) = AddHosts(hosts)
  BY DEF WGSteps, hosts, tail, alt, issued, others, fallback, list
<1>5. HostsOf(in) = {in.v4} \cup {a.host : a \in ToSet(in.alt)} \cup ToSet(fallback)
  BY DEF HostsOf, fallback, list
<1> HIDE DEF fallback
<1>6. Len(fallback) \in Nat /\ DOMAIN fallback = 1..Len(fallback)
      /\ \A i \in 1..Len(fallback) : fallback[i] \in Host
  BY <1>3, LenProperties, ElementOfSeq DEF Host
<1>7. tail \in [1..Len(fallback) -> Endpoint]
  BY <1>1, <1>6 DEF Endpoint
<1>8. {h.host : h \in {tail[i] : i \in 1..Len(fallback)}} = ToSet(fallback)
  <2>1. \A i \in 1..Len(fallback) : tail[i].host = fallback[i]
    BY <1>6
  <2> HIDE DEF tail
  <2>2. {h.host : h \in {tail[i] : i \in 1..Len(fallback)}}
          = {fallback[i] : i \in 1..Len(fallback)}
    BY <2>1
  <2> QED
    BY <1>6, <2>2 DEF ToSet
<1> HIDE DEF tail
<1>9. tail \in Seq(Endpoint) /\ {h.host : h \in ToSet(tail)} = ToSet(fallback)
  BY <1>6, <1>7, <1>8, FunctionIsSequence
<1>10. issued \in Seq(Endpoint) /\ {h.host : h \in ToSet(issued)} = {in.v4}
  <2>1. [host |-> in.v4, ports |-> in.ports] \in Endpoint
    BY <1>1 DEF Endpoint
  <2>2. issued \in Seq(Endpoint)
    BY <2>1
  <2>3. ToSet(issued) = {[host |-> in.v4, ports |-> in.ports]}
    BY DEF ToSet
  <2> QED
    BY <2>2, <2>3
<1> HIDE DEF issued
<1>11. alt \in Seq(Endpoint) /\ ToSet(alt) = ToSet(in.alt) \cap others
  <2>1. PICK T : T = others
    OBVIOUS
  <2>2. Among(in.alt, T) \in Seq(Endpoint)
        /\ ToSet(Among(in.alt, T)) = ToSet(in.alt) \cap T
    BY <1>1, AmongFacts
  <2> QED
    BY <2>1, <2>2
<1> HIDE DEF alt
<1>12. {h.host : h \in ToSet(alt)} \cup {in.v4}
         = {a.host : a \in ToSet(in.alt)} \cup {in.v4}
  <2>1. \A a \in ToSet(in.alt) : a \in Endpoint
    BY <1>1, SetOfASequence
  <2>2. \A a \in ToSet(in.alt) : a \in others \/ a.host = in.v4
    BY <2>1 DEF Endpoint
  <2> HIDE DEF others
  <2> QED
    BY <1>11, <2>2
<1>13. hosts \in Seq(Endpoint)
       /\ ToSet(hosts) = ToSet(issued) \cup ToSet(alt) \cup ToSet(tail)
  <2>1. issued \o alt \in Seq(Endpoint)
        /\ ToSet(issued \o alt) = ToSet(issued) \cup ToSet(alt)
    BY <1>10, <1>11, ConcatSet
  <2>2. PICK p \in Seq(Endpoint) : p = issued \o alt
    BY <2>1
  <2>3. p \o tail \in Seq(Endpoint) /\ ToSet(p \o tail) = ToSet(p) \cup ToSet(tail)
    BY <1>9, ConcatSet
  <2> QED
    BY <2>1, <2>2, <2>3
<1> HIDE DEF hosts
<1>14. {h.host : h \in ToSet(hosts)} = HostsOf(in)
  <2>1. {h.host : h \in ToSet(hosts)} = {h.host : h \in ToSet(issued)}
          \cup {h.host : h \in ToSet(alt)} \cup {h.host : h \in ToSet(tail)}
    BY <1>13
  <2> QED
    BY <1>5, <1>9, <1>10, <1>12, <2>1
<1> QED
  BY <1>4, <1>13, <1>14, AddHostsFacts

\* h2 among the WG steps.
LEMMA InsertH2Facts ==
  ASSUME NEW wg \in Seq(Step), NoneTwice(wg), H2 \notin ToSet(wg)
  PROVE  /\ InsertH2(wg) \in Seq(Step) /\ NoneTwice(InsertH2(wg))
         /\ ToSet(InsertH2(wg)) = ToSet(wg) \cup {H2}
         /\ \E i \in DOMAIN InsertH2(wg) :
              InsertH2(wg)[i] = H2 /\ i <= EarlyWG + 1
<1>1. H2 \in Step /\ EarlyWG \in Nat
  BY LadderStepsAssumption DEF H2, Step, Host
<1>2. PICK h \in Seq(Step) : h = <<H2>> /\ ToSet(h) = {H2} /\ NoneTwice(h)
                            /\ Len(h) = 1 /\ h[1] = H2
  <2>1. <<H2>> \in Seq(Step)
    BY <1>1
  <2>2. ToSet(<<H2>>) = {H2} /\ NoneTwice(<<H2>>) /\ Len(<<H2>>) = 1 /\ <<H2>>[1] = H2
    BY DEF ToSet, NoneTwice
  <2> QED
    BY <2>1, <2>2
<1>3. Len(wg) \in Nat /\ DOMAIN wg = 1..Len(wg) /\ \A i \in 1..Len(wg) : wg[i] \in Step
  BY LenProperties, ElementOfSeq
<1>4. CASE ~(Len(wg) > EarlyWG)
  <2>1. InsertH2(wg) = Append(wg, H2)
    BY <1>4 DEF InsertH2
  <2>2. /\ Append(wg, H2) \in Seq(Step)
        /\ ToSet(Append(wg, H2)) = ToSet(wg) \cup {H2}
        /\ NoneTwice(Append(wg, H2))
    BY <1>1, AppendSet
  <2>3. /\ DOMAIN Append(wg, H2) = 1..(Len(wg) + 1)
        /\ Append(wg, H2)[Len(wg) + 1] = H2
    BY <1>1, <1>3, AppendProperties, LenProperties
  <2>4. Len(wg) + 1 \in 1..(Len(wg) + 1) /\ Len(wg) + 1 <= EarlyWG + 1
    BY <1>1, <1>3, <1>4
  <2> QED
    BY <2>1, <2>2, <2>3, <2>4
<1>5. CASE Len(wg) > EarlyWG
  <2> DEFINE n == Len(wg)
  <2>1. PICK a : a = SubSeq(wg, 1, EarlyWG)
    OBVIOUS
  <2>2. PICK c : c = SubSeq(wg, EarlyWG + 1, n)
    OBVIOUS
  <2>3. a \in Seq(Step) /\ Len(a) = EarlyWG /\ \A i \in 1..EarlyWG : a[i] = wg[i]
    <3>1. \A i \in 1..EarlyWG : wg[i] \in Step
      BY <1>1, <1>3, <1>5
    <3>2. /\ SubSeq(wg, 1, EarlyWG) \in Seq(Step)
          /\ Len(SubSeq(wg, 1, EarlyWG)) = IF 1 <= EarlyWG THEN EarlyWG - 1 + 1 ELSE 0
          /\ \A i \in 1..(EarlyWG - 1 + 1) : SubSeq(wg, 1, EarlyWG)[i] = wg[1 + i - 1]
      BY <1>1, <3>1, SubSeqProperties
    <3> QED
      BY <1>1, <2>1, <3>2
  <2>4. c \in Seq(Step) /\ Len(c) = n - EarlyWG
        /\ \A i \in 1..(n - EarlyWG) : c[i] = wg[EarlyWG + i]
    <3>1. \A i \in (EarlyWG + 1)..n : wg[i] \in Step
      BY <1>1, <1>3, <1>5
    <3>2. /\ c \in Seq(Step)
          /\ Len(c) = IF EarlyWG + 1 <= n THEN n - (EarlyWG + 1) + 1 ELSE 0
          /\ \A i \in 1..(n - (EarlyWG + 1) + 1) : c[i] = wg[EarlyWG + 1 + i - 1]
      BY <1>1, <1>3, <2>2, <3>1, SubSeqProperties
    <3>3. /\ n \in Nat /\ n > EarlyWG /\ n - (EarlyWG + 1) + 1 = n - EarlyWG
          /\ EarlyWG + 1 <= n
          /\ \A i \in 1..(n - EarlyWG) : EarlyWG + 1 + i - 1 = EarlyWG + i
      BY <1>1, <1>3, <1>5
    <3> HIDE DEF n
    <3> QED
      BY <1>1, <3>2, <3>3
  <2>5. InsertH2(wg) = (a \o h) \o c
    BY <1>2, <1>5, <2>1, <2>2 DEF InsertH2
  <2> HIDE DEF n
  <2>6. n \in Nat /\ n > EarlyWG /\ DOMAIN wg = 1..n
        /\ DOMAIN a = 1..EarlyWG /\ DOMAIN c = 1..(n - EarlyWG)
    BY <1>1, <1>3, <1>5, <2>3, <2>4, LenProperties DEF n
  <2>7. NoneTwice(a)
    BY <1>1, <2>3, <2>6 DEF NoneTwice
  <2>8. NoneTwice(c)
    <3> SUFFICES ASSUME NEW i \in 1..(n - EarlyWG), NEW j \in 1..(n - EarlyWG), c[i] = c[j]
                 PROVE  i = j
      BY <2>6 DEF NoneTwice
    <3>1. EarlyWG + i \in 1..n /\ EarlyWG + j \in 1..n
      BY <1>1, <2>6
    <3>2. wg[EarlyWG + i] = wg[EarlyWG + j]
      BY <2>4
    <3>3. EarlyWG + i = EarlyWG + j
      BY <2>6, <3>1, <3>2 DEF NoneTwice
    <3> QED
      BY <1>1, <3>3
  <2>9. ToSet(a) \cup ToSet(c) = ToSet(wg)
    <3>1. ASSUME NEW i \in 1..EarlyWG PROVE a[i] \in ToSet(wg)
      <4>1. i \in 1..n
        BY <1>1, <2>6
      <4> QED
        BY <2>3, <2>6, <4>1 DEF ToSet
    <3>2. ASSUME NEW i \in 1..(n - EarlyWG) PROVE c[i] \in ToSet(wg)
      <4>1. EarlyWG + i \in 1..n
        BY <1>1, <2>6
      <4> QED
        BY <2>4, <2>6, <4>1 DEF ToSet
    <3>3. ASSUME NEW i \in 1..n PROVE wg[i] \in ToSet(a) \cup ToSet(c)
      <4>1. CASE i <= EarlyWG
        <5>1. i \in 1..EarlyWG
          BY <1>1, <2>6, <4>1
        <5> QED
          BY <2>3, <2>6, <5>1 DEF ToSet
      <4>2. CASE ~(i <= EarlyWG)
        <5>1. i - EarlyWG \in 1..(n - EarlyWG) /\ EarlyWG + (i - EarlyWG) = i
          BY <1>1, <2>6, <4>2
        <5>2. c[i - EarlyWG] = wg[i]
          BY <2>4, <5>1
        <5> QED
          BY <2>6, <5>1, <5>2 DEF ToSet
      <4> QED
        BY <4>1, <4>2
    <3>4. ToSet(a) \subseteq ToSet(wg) /\ ToSet(c) \subseteq ToSet(wg)
      BY <2>6, <3>1, <3>2 DEF ToSet
    <3>5. ToSet(wg) \subseteq ToSet(a) \cup ToSet(c)
      <4>1. \A x \in ToSet(wg) : \E i \in 1..n : x = wg[i]
        BY <2>6 DEF ToSet
      <4> QED
        BY <3>3, <4>1
    <3> QED
      BY <3>4, <3>5
  <2>10. ToSet(a) \cap ToSet(c) = {}
    <3> SUFFICES ASSUME NEW i \in 1..EarlyWG, NEW j \in 1..(n - EarlyWG), a[i] = c[j]
                 PROVE  FALSE
      BY <2>6 DEF ToSet
    <3>1. i \in 1..n /\ EarlyWG + j \in 1..n /\ i # EarlyWG + j
      BY <1>1, <2>6
    <3>2. wg[i] = wg[EarlyWG + j]
      BY <2>3, <2>4
    <3> QED
      BY <2>6, <3>1, <3>2 DEF NoneTwice
  <2>11. PICK d \in Seq(Step) : d = a \o h
    BY <1>2, <2>3, ConcatSet
  <2>12. /\ Len(d) = EarlyWG + 1 /\ ToSet(d) = ToSet(a) \cup {H2} /\ NoneTwice(d)
         /\ d[EarlyWG + 1] = H2
    <3>1. ToSet(a) \cap ToSet(h) = {}
      BY <1>2, <2>9
    <3>2. a \in Seq(Step)
      BY <2>3
    <3>3. /\ Len(a \o h) = Len(a) + Len(h)
          /\ \A i \in 1..Len(h) : (a \o h)[Len(a) + i] = h[i]
          /\ ToSet(a \o h) = ToSet(a) \cup ToSet(h)
          /\ NoneTwice(a) /\ NoneTwice(h) /\ ToSet(a) \cap ToSet(h) = {}
               => NoneTwice(a \o h)
      BY <3>2, ConcatSet
    <3>4. 1 \in 1..Len(h)
      BY <1>2
    <3> QED
      BY <1>2, <2>3, <2>7, <2>11, <3>1, <3>3, <3>4
  <2>13. PICK r \in Seq(Step) : r = d \o c
    BY <2>4, ConcatSet
  <2>14. /\ Len(r) = Len(d) + Len(c)
         /\ \A i \in 1..Len(d) : r[i] = d[i]
         /\ ToSet(r) = ToSet(d) \cup ToSet(c)
         /\ NoneTwice(d) /\ NoneTwice(c) /\ ToSet(d) \cap ToSet(c) = {} => NoneTwice(r)
    <3>1. c \in Seq(Step)
      BY <2>4
    <3>2. /\ Len(d \o c) = Len(d) + Len(c)
          /\ \A i \in 1..Len(d) : (d \o c)[i] = d[i]
          /\ ToSet(d \o c) = ToSet(d) \cup ToSet(c)
          /\ NoneTwice(d) /\ NoneTwice(c) /\ ToSet(d) \cap ToSet(c) = {}
               => NoneTwice(d \o c)
      BY <3>1, ConcatSet
    <3> QED
      BY <2>13, <3>2
  <2>15. ToSet(d) \cap ToSet(c) = {}
    BY <2>9, <2>10, <2>12
  <2>16. /\ ToSet(r) = ToSet(wg) \cup {H2} /\ NoneTwice(r)
    BY <2>8, <2>9, <2>12, <2>14, <2>15
  <2>17. EarlyWG + 1 \in DOMAIN r /\ r[EarlyWG + 1] = H2
    <3>1. DOMAIN r = 1..Len(r) /\ Len(r) = n + 1
      BY <1>1, <2>4, <2>6, <2>12, <2>13, <2>14, LenProperties
    <3>2. EarlyWG + 1 \in 1..(n + 1) /\ EarlyWG + 1 \in 1..Len(d)
      BY <1>1, <2>6, <2>12
    <3> QED
      BY <2>12, <2>14, <3>1, <3>2
  <2>18. InsertH2(wg) = r /\ EarlyWG + 1 <= EarlyWG + 1
    BY <1>1, <2>5, <2>11, <2>13
  <2> QED
    BY <2>16, <2>17, <2>18
<1> QED
  BY <1>4, <1>5

-----------------------------------------------------------------------------
\* s is a ladder for the device in a mode, with h2 at most k steps later than the
\* code puts it.
LadderFor(s, in, mode, k) ==
  /\ s \in Seq(Step) /\ s # <<>> /\ NoneTwice(s)
  /\ \A x \in ToSet(s) : x = H2 \/ (x.transport = "wg" /\ x.port \in 1..MaxPort)
  /\ mode = "wg" /\ H2 \in ToSet(s) => HostsOf(in) \ {NoHost} = {}
  /\ mode = "h2" => ToSet(s) \subseteq {H2}
  /\ mode # "h2" => HostsOf(in) \ {NoHost} \subseteq {x.host : x \in ToSet(s)}
  /\ mode = "auto" => \E i \in DOMAIN s : s[i] = H2 /\ i <= EarlyWG + 1 + k

LEMMA NewAutoFacts ==
  ASSUME NEW in \in Input
  PROVE  /\ NewAuto(in) \in Seq(Step) /\ NoneTwice(NewAuto(in))
         /\ H2 \in ToSet(NewAuto(in))
         /\ \A x \in ToSet(NewAuto(in)) :
              x = H2 \/ (x.transport = "wg" /\ x.port \in 1..MaxPort)
         /\ HostsOf(in) \ {NoHost} =
              {x.host : x \in {y \in ToSet(NewAuto(in)) : y.transport = "wg"}}
         /\ \E i \in DOMAIN NewAuto(in) : NewAuto(in)[i] = H2 /\ i <= EarlyWG + 1
<1>1. PICK wg : wg = WGSteps(in)
  OBVIOUS
<1>2. WGLadder(wg, HostsOf(in))
  BY <1>1, WGStepsFacts
<1>3. /\ wg \in Seq(Step) /\ NoneTwice(wg)
      /\ \A x \in ToSet(wg) : x.transport = "wg" /\ x.port \in 1..MaxPort
      /\ {x.host : x \in ToSet(wg)} = HostsOf(in) \ {NoHost}
  BY <1>2 DEF WGLadder
<1>4. H2.transport = "h2"
  BY DEF H2
<1>5. H2 \notin ToSet(wg)
  BY <1>3, <1>4
<1>6. PICK s : s = InsertH2(wg)
  OBVIOUS
<1>7. /\ s \in Seq(Step) /\ NoneTwice(s) /\ ToSet(s) = ToSet(wg) \cup {H2}
      /\ \E i \in DOMAIN s : s[i] = H2 /\ i <= EarlyWG + 1
  BY <1>3, <1>5, <1>6, InsertH2Facts
<1>8. NewAuto(in) = s
  BY <1>1, <1>6 DEF NewAuto
<1>9. {y \in ToSet(s) : y.transport = "wg"} = ToSet(wg)
  BY <1>3, <1>4, <1>7
<1>10. HostsOf(in) \ {NoHost} = {x.host : x \in {y \in ToSet(s) : y.transport = "wg"}}
  BY <1>3, <1>9
<1>11. /\ H2 \in ToSet(s)
       /\ \A x \in ToSet(s) :
            x = H2 \/ (x.transport = "wg" /\ x.port \in 1..MaxPort)
  BY <1>3, <1>7
<1> QED
  BY <1>7, <1>8, <1>10, <1>11

LEMMA NewModeFacts ==
  ASSUME NEW in \in Input, NEW mode \in {"wg", "h2", "auto"}
  PROVE  LadderFor(NewMode(in, mode), in, mode, 0)
<1>1. PICK s : s = NewAuto(in)
  OBVIOUS
<1>2. /\ s \in Seq(Step) /\ NoneTwice(s) /\ H2 \in ToSet(s)
      /\ \A x \in ToSet(s) : x = H2 \/ (x.transport = "wg" /\ x.port \in 1..MaxPort)
      /\ HostsOf(in) \ {NoHost} = {x.host : x \in {y \in ToSet(s) : y.transport = "wg"}}
      /\ \E i \in DOMAIN s : s[i] = H2 /\ i <= EarlyWG + 1
  BY <1>1, NewAutoFacts
<1>3. s # <<>>
  BY <1>2, EmptySet
<1>4. EarlyWG \in Nat /\ EarlyWG + 1 + 0 = EarlyWG + 1 /\ H2.transport = "h2"
  BY LadderStepsAssumption DEF H2
<1>5. PICK T : T = StepsOn(mode)
  OBVIOUS
<1>6. PICK f : f = Among(s, T)
  OBVIOUS
<1>7. /\ f \in Seq(Step) /\ NoneTwice(f) /\ ToSet(f) = ToSet(s) \cap T
      /\ f = <<>> <=> ToSet(s) \cap T = {}
  BY <1>2, <1>6, AmongFacts
<1>8. NewMode(in, mode) = IF mode = "auto" \/ f = <<>> THEN s ELSE f
  BY <1>1, <1>5, <1>6 DEF NewMode
<1>9. \A x \in ToSet(s) : x \in T <=> x.transport = mode
  BY <1>2, <1>5, SetOfASequence DEF StepsOn
<1>10. CASE mode = "auto"
  <2>1. HostsOf(in) \ {NoHost} \subseteq {x.host : x \in ToSet(s)}
    BY <1>2
  <2> QED
    BY <1>2, <1>3, <1>4, <1>8, <1>10, <2>1 DEF LadderFor
<1>11. CASE mode = "h2"
  <2>1. H2 \in T
    BY <1>2, <1>4, <1>9, <1>11
  <2>2. f # <<>>
    BY <1>2, <1>7, <2>1
  <2>3. ToSet(f) \subseteq {H2}
    BY <1>2, <1>7, <1>9, <1>11
  <2> QED
    BY <1>2, <1>7, <1>8, <1>11, <2>2, <2>3 DEF LadderFor
<1>12. CASE mode = "wg" /\ f = <<>>
  <2>1. {y \in ToSet(s) : y.transport = "wg"} = {}
    BY <1>7, <1>9, <1>12
  <2>2. HostsOf(in) \ {NoHost} = {}
    BY <1>2, <2>1
  <2> QED
    BY <1>2, <1>3, <1>8, <1>12, <2>2 DEF LadderFor
<1>13. CASE mode = "wg" /\ f # <<>>
  <2>1. ToSet(f) = {y \in ToSet(s) : y.transport = "wg"}
    BY <1>7, <1>9, <1>13
  <2>2. H2 \notin ToSet(f)
    BY <1>4, <2>1
  <2>3. HostsOf(in) \ {NoHost} = {x.host : x \in ToSet(f)}
    BY <1>2, <2>1
  <2> QED
    BY <1>2, <1>7, <1>8, <1>13, <2>1, <2>2, <2>3 DEF LadderFor
<1> QED
  BY <1>10, <1>11, <1>12, <1>13

\* The edges that were verified: usable, each once.
LEMMA UsableFacts ==
  ASSUME NEW preferred \in Seq(Step)
  PROVE  /\ Usable(preferred) \in Seq(Step) /\ NoneTwice(Usable(preferred))
         /\ \A x \in ToSet(Usable(preferred)) :
              x.transport = "wg" /\ x.port \in 1..MaxPort
<1>1. PICK T : T = [transport : {"wg"}, host : Host \ {NoHost}, port : 1..MaxPort]
  OBVIOUS
<1>2. PICK f : f = Among(preferred, T)
  OBVIOUS
<1>3. f \in Seq(Step) /\ ToSet(f) = ToSet(preferred) \cap T
  BY <1>2, AmongFacts
<1>4. /\ Distinct(f) \in Seq(Step) /\ NoneTwice(Distinct(f))
      /\ ToSet(Distinct(f)) = ToSet(f)
  BY <1>3, DistinctFacts
<1>5. Usable(preferred) = Distinct(f)
  BY <1>1, <1>2 DEF Usable
<1>6. \A x \in ToSet(f) : x.transport = "wg" /\ x.port \in 1..MaxPort
  BY <1>1, <1>3
<1> QED
  BY <1>4, <1>5, <1>6

\* Preferred edges before a ladder: no step is lost, none comes twice, and each
\* stands later by no more than their number.
LEMMA PreferredFacts ==
  ASSUME NEW first \in Seq(Step), NoneTwice(first),
         NEW base \in Seq(Step), NoneTwice(base)
  PROVE  LET r == Distinct(first \o base)
             others == Step \ ToSet(first)
         IN /\ r \in Seq(Step) /\ NoneTwice(r)
            /\ ToSet(r) = ToSet(first) \cup ToSet(base)
            /\ Among(r, others) = Among(base, others)
            /\ \A i \in DOMAIN base : \E j \in DOMAIN r :
                 j <= Len(first) + i /\ r[j] = base[i]
<1>1. PICK s \in Seq(Step) : s = first \o base
  BY ConcatSet
<1>2. /\ ToSet(s) = ToSet(first) \cup ToSet(base)
      /\ Len(s) = Len(first) + Len(base)
      /\ \A i \in 1..Len(base) : s[Len(first) + i] = base[i]
  BY <1>1, ConcatSet
<1>3. PICK r : r = Distinct(s)
  OBVIOUS
<1>4. r \in Seq(Step) /\ NoneTwice(r) /\ ToSet(r) = ToSet(s) /\ NoLater(r, s)
  BY <1>3, DistinctFacts
<1>5. PICK others : others = Step \ ToSet(first)
  OBVIOUS
<1>6. PICK behind : behind = Among(base, others)
  OBVIOUS
<1>7. behind \in Seq(Step) /\ ToSet(behind) = ToSet(base) \cap others
  BY <1>6, AmongFacts
<1>8. r = first \o behind
  BY <1>1, <1>3, <1>5, <1>6, DistinctConcat
<1>9. Among(first, others) = <<>>
  <2>1. ToSet(first) \cap others = {}
    BY <1>5
  <2> QED
    BY <2>1, AmongFacts
<1>10. Among(behind, others) = behind
  <2>1. ToSet(behind) \subseteq others
    BY <1>7
  <2> QED
    BY <1>7, <2>1, AmongFacts
<1>11. Among(r, others) = behind
  <2>1. Among(first \o behind, others) = Among(first, others) \o Among(behind, others)
    BY <1>7, AmongConcat
  <2>2. <<>> \o behind = behind
    BY <1>7, ConcatEmptySeq
  <2> QED
    BY <1>8, <1>9, <1>10, <2>1, <2>2
<1>12. ASSUME NEW i \in DOMAIN base
       PROVE  \E j \in DOMAIN r : j <= Len(first) + i /\ r[j] = base[i]
  <2>1. /\ Len(first) \in Nat /\ Len(base) \in Nat /\ DOMAIN base = 1..Len(base)
        /\ DOMAIN s = 1..(Len(first) + Len(base))
    BY <1>2, LenProperties
  <2>2. Len(first) + i \in DOMAIN s /\ s[Len(first) + i] = base[i]
    BY <1>2, <2>1
  <2> QED
    BY <1>4, <2>2 DEF NoLater
<1> QED
  BY <1>1, <1>2, <1>3, <1>4, <1>5, <1>6, <1>11, <1>12

\* Where the ladder begins.
LEMMA StartAtFacts ==
  ASSUME NEW s \in Seq(Step), s # <<>>, NEW x
  PROVE  /\ StartAt(s, x) \in 0..(Len(s) - 1)
         /\ Contains(s, x) => s[StartAt(s, x) + 1] = x
<1>1. Len(s) \in Nat /\ DOMAIN s = 1..Len(s) /\ Len(s) # 0
  BY LenProperties, EmptySeq
<1> DEFINE found == {i \in DOMAIN s : s[i] = x}
<1>2. CASE found = {}
  <2>1. ~Contains(s, x) /\ StartAt(s, x) = 0
    BY <1>1, <1>2 DEF Contains, StartAt
  <2> QED
    BY <1>1, <2>1
<1>3. CASE found # {}
  <2>1. found \in SUBSET Nat
    BY <1>1
  <2>2. \E i \in found : \A j \in found : i <= j
    <3> HIDE DEF found
    <3> QED
      BY <1>3, <2>1, LeastNumber
  <2>3. PICK i \in found : i = CHOOSE k \in found : \A j \in found : k <= j
    BY <2>2
  <2>4. StartAt(s, x) = i - 1
    BY <1>3, <2>3 DEF StartAt
  <2>5. i \in 1..Len(s) /\ s[i] = x
    BY <1>1
  <2> QED
    BY <1>1, <2>4, <2>5
<1> QED
  BY <1>2, <1>3

-----------------------------------------------------------------------------
\* What Build makes of the input: the steps and the position they begin at.
BuiltOf(in, s, start) ==
  LET mode == ParseMode(in.transport)
      first == Usable(in.preferred)
      base == NewMode(in, mode)
  IN IF mode = "h2" \/ first = <<>>
       THEN s = base /\ start = StartAt(base, in.start)
       ELSE s = Distinct(first \o base) /\ start = 0

BuilderInv == input \in Inputs /\ (Built => BuiltOf(input, steps, from))

LEMMA BuilderInitInv == BuilderInit => BuilderInv
  BY DEF BuilderInit, BuilderInv, Built

LEMMA BuilderStepInv == BuilderInv /\ [Build]_builderVars => BuilderInv'
<1> SUFFICES ASSUME BuilderInv, [Build]_builderVars PROVE BuilderInv'
  OBVIOUS
<1>1. CASE Build
  BY <1>1 DEF Build, BuilderInv, BuiltOf
<1>2. CASE UNCHANGED builderVars
  BY <1>2 DEF builderVars, BuilderInv, Built
<1> QED
  BY <1>1, <1>2

LEMMA BuilderInvariant == BuilderSpec => []BuilderInv
  BY BuilderInitInv, BuilderStepInv, PTL DEF BuilderSpec

\* Whatever was built is a ladder for the input, from one of its steps on.
LEMMA BuiltFacts ==
  ASSUME BuilderInv, Built
  PROVE  /\ input \in Input
         /\ Mode \in {"wg", "h2", "auto"}
         /\ LadderFor(steps, input, Mode, Len(Usable(input.preferred)))
         /\ from \in 0..(Len(steps) - 1)
         /\ NothingLost
<1>1. input \in Input
  BY LadderStepsAssumption DEF BuilderInv
<1>2. Mode \in {"wg", "h2", "auto"}
  BY DEF Mode, ParseMode
<1>3. PICK base : base = NewMode(input, Mode)
  OBVIOUS
<1>4. LadderFor(base, input, Mode, 0)
  BY <1>1, <1>2, <1>3, NewModeFacts
<1>5. PICK first : first = Usable(input.preferred)
  OBVIOUS
<1>6. /\ first \in Seq(Step) /\ NoneTwice(first)
      /\ \A x \in ToSet(first) : x.transport = "wg" /\ x.port \in 1..MaxPort
  <2>1. input.preferred \in Seq(Step)
    BY <1>1 DEF Input
  <2> QED
    BY <1>5, <2>1, UsableFacts
<1>7. /\ base \in Seq(Step) /\ base # <<>> /\ NoneTwice(base)
      /\ \A x \in ToSet(base) : x = H2 \/ (x.transport = "wg" /\ x.port \in 1..MaxPort)
      /\ Mode = "wg" /\ H2 \in ToSet(base) => HostsOf(input) \ {NoHost} = {}
      /\ Mode = "h2" => ToSet(base) \subseteq {H2}
      /\ Mode # "h2" => HostsOf(input) \ {NoHost} \subseteq {x.host : x \in ToSet(base)}
      /\ Mode = "auto" => \E i \in DOMAIN base : base[i] = H2 /\ i <= EarlyWG + 1 + 0
  BY <1>4 DEF LadderFor
<1>8. PICK n \in Nat : n = Len(first)
  BY <1>6, LenProperties
<1>9. EarlyWG \in Nat
  BY LadderStepsAssumption
<1>10. PICK others : others = Step \ ToSet(first)
  OBVIOUS
<1>11. CASE Mode = "h2" \/ first = <<>>
  <2>1. steps = base /\ from = StartAt(base, input.start)
    BY <1>3, <1>5, <1>11 DEF BuilderInv, BuiltOf, Mode
  <2>2. from \in 0..(Len(steps) - 1)
    BY <1>7, <2>1, StartAtFacts
  <2>3. ASSUME Mode = "auto"
        PROVE  \E i \in DOMAIN steps : steps[i] = H2 /\ i <= EarlyWG + 1 + n
    <3>1. PICK i \in DOMAIN base : base[i] = H2 /\ i <= EarlyWG + 1 + 0
      BY <1>7, <2>3
    <3>2. i \in Nat
      BY <1>7, SetOfASequence
    <3>3. i <= EarlyWG + 1 + n
      BY <1>8, <1>9, <3>1, <3>2
    <3> QED
      BY <2>1, <3>1, <3>3
  <2>4. LadderFor(steps, input, Mode, n)
    BY <1>7, <2>1, <2>3 DEF LadderFor
  <2>5. NothingLost
    BY <1>3, <2>1 DEF NothingLost
  <2> QED
    BY <1>1, <1>2, <1>5, <1>8, <2>2, <2>4, <2>5
<1>12. CASE ~(Mode = "h2" \/ first = <<>>)
  <2>1. steps = Distinct(first \o base) /\ from = 0
    BY <1>3, <1>5, <1>12 DEF BuilderInv, BuiltOf, Mode
  <2>2. /\ steps \in Seq(Step) /\ NoneTwice(steps)
        /\ ToSet(steps) = ToSet(first) \cup ToSet(base)
        /\ Among(steps, others) = Among(base, others)
        /\ \A i \in DOMAIN base : \E j \in DOMAIN steps :
             j <= Len(first) + i /\ steps[j] = base[i]
    <3>1. first \in Seq(Step) /\ NoneTwice(first) /\ base \in Seq(Step) /\ NoneTwice(base)
      BY <1>6, <1>7
    <3>2. PICK r : r = Distinct(first \o base)
      OBVIOUS
    <3>3. /\ r \in Seq(Step) /\ NoneTwice(r)
          /\ ToSet(r) = ToSet(first) \cup ToSet(base)
          /\ Among(r, others) = Among(base, others)
          /\ \A i \in DOMAIN base : \E j \in DOMAIN r :
               j <= Len(first) + i /\ r[j] = base[i]
      BY <1>10, <3>1, <3>2, PreferredFacts
    <3> QED
      BY <2>1, <3>2, <3>3
  <2>3. ToSet(base) # {} /\ steps # <<>>
    <3>1. ToSet(base) # {}
      BY <1>7, SetOfASequence
    <3> QED
      BY <2>2, <3>1, EmptySet
  <2>4. from \in 0..(Len(steps) - 1)
    <3>1. Len(steps) \in Nat /\ Len(steps) # 0
      BY <2>2, <2>3, LenProperties, EmptySeq
    <3> QED
      BY <2>1, <3>1
  <2>5. \A x \in ToSet(steps) : x = H2 \/ (x.transport = "wg" /\ x.port \in 1..MaxPort)
    BY <1>6, <1>7, <2>2
  <2>6. H2 \in ToSet(steps) => H2 \in ToSet(base)
    <3>1. H2.transport = "h2"
      BY DEF H2
    <3> QED
      BY <1>6, <2>2, <3>1
  <2>7. {x.host : x \in ToSet(base)} \subseteq {x.host : x \in ToSet(steps)}
    BY <2>2
  <2>8. ASSUME Mode = "auto"
        PROVE  \E i \in DOMAIN steps : steps[i] = H2 /\ i <= EarlyWG + 1 + n
    <3>1. PICK i \in DOMAIN base : base[i] = H2 /\ i <= EarlyWG + 1 + 0
      BY <1>7, <2>8
    <3>2. PICK j \in DOMAIN steps : j <= Len(first) + i /\ steps[j] = base[i]
      BY <2>2
    <3>3. i \in Nat /\ j \in Nat
      BY <1>7, <2>2, SetOfASequence
    <3>4. j <= EarlyWG + 1 + n
      BY <1>8, <1>9, <3>1, <3>2, <3>3
    <3> QED
      BY <3>1, <3>2, <3>4
  <2>9. LadderFor(steps, input, Mode, n)
    BY <1>7, <1>12, <2>2, <2>3, <2>5, <2>6, <2>7, <2>8 DEF LadderFor
  <2>10. NothingLost
    BY <1>3, <1>5, <1>10, <2>2 DEF NothingLost
  <2> QED
    BY <1>1, <1>2, <1>5, <1>8, <2>4, <2>9, <2>10
<1> QED
  BY <1>11, <1>12

LEMMA SoundFromInv == BuilderInv => LadderIsSound
<1> SUFFICES ASSUME BuilderInv PROVE LadderIsSound
  OBVIOUS
<1>1. CASE ~Built
  BY <1>1 DEF LadderIsSound, WellFormed, ModeRespected
<1>2. CASE Built
  <2>1. /\ Mode \in {"wg", "h2", "auto"}
        /\ steps \in Seq(Step) /\ steps # <<>> /\ NoneTwice(steps)
        /\ from \in 0..(Len(steps) - 1)
        /\ \A x \in ToSet(steps) : x = H2 \/ (x.transport = "wg" /\ x.port \in 1..MaxPort)
        /\ Mode = "wg" /\ H2 \in ToSet(steps) => HostsOf(input) \ {NoHost} = {}
        /\ Mode = "h2" => ToSet(steps) \subseteq {H2}
        /\ Mode # "h2" => HostsOf(input) \ {NoHost} \subseteq {x.host : x \in ToSet(steps)}
    BY <1>2, BuiltFacts DEF LadderFor
  <2>2. H2.transport = "h2"
    BY DEF H2
  <2>3. \A i \in DOMAIN steps : steps[i] \in ToSet(steps)
    BY DEF ToSet
  <2>4. KnownHosts = HostsOf(input) \ {NoHost}
    BY DEF KnownHosts, HostsOf
  <2>5. \A i \in PositionsOf("wg") : steps[i].port \in 1..MaxPort
    BY <2>1, <2>2, <2>3 DEF PositionsOf
  <2>6. WellFormed
    BY <2>1, <2>5 DEF WellFormed, NoneTwice
  <2>7. PositionsOf("h2") # {} => H2 \in ToSet(steps)
    BY <2>1, <2>3 DEF PositionsOf
  <2>8. ToSet(steps) \subseteq {H2} => PositionsOf("wg") = {}
    BY <2>2, <2>3 DEF PositionsOf
  <2>9. ModeRespected
    BY <2>1, <2>4, <2>7, <2>8 DEF ModeRespected
  <2> QED
    BY <2>6, <2>9 DEF LadderIsSound
<1> QED
  BY <1>1, <1>2

LEMMA OrderedFromInv == BuilderInv => LadderIsOrdered
<1> SUFFICES ASSUME BuilderInv PROVE LadderIsOrdered
  OBVIOUS
<1>1. CASE ~Built
  BY <1>1 DEF LadderIsOrdered, H2IsEarly, NothingLost
<1>2. CASE Built
  <2>1. LadderFor(steps, input, Mode, Len(Usable(input.preferred))) /\ NothingLost
    BY <1>2, BuiltFacts
  <2> QED
    BY <2>1 DEF LadderIsOrdered, H2IsEarly, LadderFor
<1> QED
  BY <1>1, <1>2

LEMMA StartFromInv == BuilderInv => StartHonoured
<1> SUFFICES ASSUME BuilderInv, Built, Usable(input.preferred) = <<>>,
                    Contains(steps, input.start)
             PROVE  steps[from + 1] = input.start
  BY DEF StartHonoured
<1>1. steps \in Seq(Step) /\ steps # <<>>
  BY BuiltFacts DEF LadderFor
<1>2. from = StartAt(steps, input.start)
  BY DEF BuilderInv, BuiltOf
<1> QED
  BY <1>1, <1>2, StartAtFacts

\* Whatever addresses, ports, files and flags the engine is started with, there is
\* a ladder, it holds no step twice and no invalid port, it begins at one of its
\* steps, and it is one of the mode that was asked for.
THEOREM SoundLadder == BuilderSpec => []LadderIsSound
  BY BuilderInvariant, SoundFromInv, PTL

\* In automatic mode h2 comes within EarlyWG + 1 steps, later only by the number
\* of verified edges, and these displace no step of the ladder.
THEOREM OrderedLadder == BuilderSpec => []LadderIsOrdered
  BY BuilderInvariant, OrderedFromInv, PTL

\* Without verified edges a ladder that has last_good in it begins there.
THEOREM StartIsHonoured == BuilderSpec => []StartHonoured
  BY BuilderInvariant, StartFromInv, PTL
=============================================================================
