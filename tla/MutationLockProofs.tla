------------------------- MODULE MutationLockProofs -------------------------
(***************************************************************************)
(* Theorems about MutationLock, for any number of processes of which any   *)
(* may be killed at any step, with torn files and locks held for long.     *)
(*                                                                         *)
(* A reaper renames whatever is at the path, so that what it holds in its  *)
(* quarantine need not be what it read.  That it deletes no lock of a      *)
(* living owner rests on two facts: an owner it read as dead stays dead,   *)
(* for a new process has a new start time; and it deletes only after       *)
(* reading the owner again, where nobody else can write any more.          *)
(* Exclusion needs a calm run (CalmInv): whoever a reaper has read and not *)
(* yet looked up is still alive, so that it finds no owner dead and        *)
(* renames nothing away.  An owner that ends in between ends the calm.     *)
(***************************************************************************)
EXTENDS MutationLock, TLAPS

\* Every look at the directory begins with nothing read, and whom it looks up in
\* /proc it has read before.
SeenIsFresh ==
  \A p \in Procs :
    /\ pc[p] \in {"readOwner", "readPid", "pidStat"} => seen[p].owner = None
    /\ pc[p] = "ownerStat" => seen[p].owner \in Procs
    /\ pc[p] = "pidStat" => seen[p].pid \in Procs

\* An owner that was found dead, and for which the directory is taken.
SeenIsDead ==
  \A p \in Procs :
    pc[p] \in {"rename", "recheck", "back", "discard"} /\ seen[p].owner \in Procs
      => ~alive[seen[p].owner]

\* What was renamed away stays in the quarantine until it is dealt with.
QuarantineHeld ==
  \A p \in Procs :
    pc[p] \in {"recheck", "back", "discard"} => quarantine[p] # Absent

DiscardMatches == \A p \in Procs : pc[p] = "discard" => Matches(p)

IInv == TypeOK /\ SeenIsFresh /\ SeenIsDead /\ QuarantineHeld /\ DiscardMatches

-----------------------------------------------------------------------------
\* A directory with one of its files replaced or missing is a directory.
LEMMA DirWith ==
  ASSUME NEW d \in Dirs, NEW o \in Procs \cup {None, Torn},
         NEW q \in Procs \cup {None}, NEW b \in BOOLEAN
  PROVE  /\ [owner |-> o, pid |-> d.pid, old |-> b] \in Dirs
         /\ [owner |-> d.owner, pid |-> q, old |-> b] \in Dirs
         /\ [d EXCEPT !.owner = o] \in Dirs
         /\ [d EXCEPT !.pid = q] \in Dirs
         /\ [d EXCEPT !.old = b] \in Dirs
         /\ [d EXCEPT !.owner = o, !.old = b] \in Dirs
         /\ [d EXCEPT !.pid = q, !.old = b] \in Dirs
  BY DEF Dirs

LEMMA EmptyIsDir == Empty \in Dirs
  BY DEF Dirs, Empty

\* Nobody has asked for the lock yet.
LEMMA InitInv == Init => IInv
<1> SUFFICES ASSUME Init PROVE IInv
  OBVIOUS
<1>1. TypeOK
  BY DEF Init, TypeOK, Dirs, Empty
<1>2. SeenIsFresh /\ SeenIsDead /\ QuarantineHeld /\ DiscardMatches
  BY DEF Init, SeenIsFresh, SeenIsDead, QuarantineHeld, DiscardMatches
<1> QED
  BY <1>1, <1>2 DEF IInv

\* The steps of acquire and release touch no quarantine and read nothing.
LEMMA LockStepInv ==
  ASSUME IInv, NEW p \in Procs,
         Acquire(p) \/ Release(p) \/ Again(p) \/ Exit(p),
         disturbed' \in BOOLEAN
  PROVE  IInv'
<1>1. /\ UNCHANGED <<quarantine, seen>>
      /\ \E l \in {"idle", "mkdir", "owner", "pid", "cleanup", "held", "remove",
                   "stat", "done", "dead"} : Goto(p, l)
      /\ UNCHANGED alive \/ alive' = [alive EXCEPT ![p] = FALSE]
  BY DEF Acquire, Release, Again, Begin, MkDir, WriteOwner, WritePid, Cleanup,
         Drop, Remove, Exit
<1>2. dir' \in Dirs \cup {Absent}
  <2>1. CASE dir' \in {dir, Absent, Empty}
    BY <2>1, EmptyIsDir DEF IInv, TypeOK
  <2>2. CASE /\ dir # Absent
             /\ \/ dir' = [owner |-> p, pid |-> dir.pid, old |-> FALSE]
                \/ dir' = [owner |-> dir.owner, pid |-> p, old |-> FALSE]
    <3>1. dir \in Dirs
      BY <2>2 DEF IInv, TypeOK
    <3> QED
      BY <2>2, <3>1, DirWith
  <2>3. \/ dir' \in {dir, Absent, Empty}
        \/ /\ dir # Absent
           /\ \/ dir' = [owner |-> p, pid |-> dir.pid, old |-> FALSE]
              \/ dir' = [owner |-> dir.owner, pid |-> p, old |-> FALSE]
    BY DEF Acquire, Release, Again, Begin, MkDir, WriteOwner, WritePid, Cleanup,
           Drop, Remove, Exit
  <2> QED
    BY <2>1, <2>2, <2>3
<1>3. TypeOK'
  BY <1>1, <1>2 DEF IInv, TypeOK, Goto
<1>4. SeenIsFresh' /\ SeenIsDead'
  BY <1>1 DEF IInv, TypeOK, SeenIsFresh, SeenIsDead, Goto
<1>5. QuarantineHeld' /\ DiscardMatches'
  BY <1>1 DEF IInv, TypeOK, QuarantineHeld, DiscardMatches, Matches, Goto
<1> QED
  BY <1>3, <1>4, <1>5 DEF IInv

\* What reap_if_stale has read is forgotten when it returns.
LEMMA ForgetTypes ==
  ASSUME IInv, NEW p \in Procs, Forget(p)
  PROVE  seen' \in [Procs -> Dirs] /\ seen'[p] = Empty
  BY EmptyIsDir DEF IInv, TypeOK, Forget

\* reap_if_stale returns with its quarantine dealt with, or none.
LEMMA ReturnInv ==
  ASSUME IInv, NEW p \in Procs, Retry(p) \/ Refuse(p),
         dir' \in Dirs \cup {Absent},
         quarantine' \in {quarantine, [quarantine EXCEPT ![p] = Absent]},
         UNCHANGED <<alive, disturbed>>
  PROVE  IInv'
<1>1. seen' \in [Procs -> Dirs] /\ \A q \in Procs \ {p} : seen'[q] = seen[q]
  BY ForgetTypes DEF Retry, Refuse, Forget, IInv, TypeOK
<1>2. /\ pc'[p] \in {"mkdir", "idle"}
      /\ \A q \in Procs \ {p} : pc'[q] = pc[q]
      /\ pc' \in [Procs -> {pc[q] : q \in Procs} \cup {"mkdir", "idle"}]
  BY DEF Retry, Refuse, Goto, IInv, TypeOK
<1>3. /\ quarantine' \in [Procs -> Dirs \cup {Absent}]
      /\ \A q \in Procs \ {p} : quarantine'[q] = quarantine[q]
  BY DEF IInv, TypeOK
<1>4. TypeOK'
  BY <1>1, <1>2, <1>3 DEF IInv, TypeOK
<1>5. SeenIsFresh' /\ SeenIsDead'
  BY <1>1, <1>2 DEF IInv, SeenIsFresh, SeenIsDead
<1>6. QuarantineHeld' /\ DiscardMatches'
  BY <1>1, <1>2, <1>3 DEF IInv, QuarantineHeld, DiscardMatches, Matches
<1> QED
  BY <1>4, <1>5, <1>6 DEF IInv

\* What reap_if_stale reads and looks up: it goes on to the rename only for an
\* owner it has found dead.
LEMMA ReadInv ==
  ASSUME IInv, NEW p \in Procs,
         \/ Stat(p) \/ ReadOwner(p) \/ OwnerStat(p) \/ ReadPid(p) \/ PidStat(p),
         UNCHANGED disturbed
  PROVE  IInv'
<1>6. CASE Retry(p) \/ Refuse(p)
  <2>1. UNCHANGED <<dir, quarantine, alive>>
    BY DEF Stat, ReadOwner, OwnerStat, ReadPid, PidStat
  <2> QED
    BY <1>6, <2>1, ReturnInv DEF IInv, TypeOK
<1> USE DEF IInv, TypeOK, SeenIsFresh, SeenIsDead, QuarantineHeld,
            DiscardMatches, Matches, Goto
<1>1. CASE Stat(p) /\ ~Retry(p)
  <2>1. CASE dir = Absent
    BY <1>1, <2>1 DEF Stat
  <2>2. CASE dir # Absent
    <3> DEFINE read == [Empty EXCEPT !.old = dir.old]
    <3>1. read \in Dirs /\ read.owner = None
      BY <2>2 DEF Dirs, Empty
    <3>2. seen' = [seen EXCEPT ![p] = read] /\ pc' = [pc EXCEPT ![p] = "readOwner"]
      BY <1>1, <2>2 DEF Stat
    <3>3. UNCHANGED <<dir, quarantine, alive>>
      BY <1>1 DEF Stat
    <3> HIDE DEF read
    <3> QED
      BY <3>1, <3>2, <3>3
  <2> QED
    BY <2>1, <2>2
<1>2. CASE ReadOwner(p) /\ ~Refuse(p)
  <2>1. CASE UNCHANGED seen /\ pc' = [pc EXCEPT ![p] = "readPid"]
    BY <1>2, <2>1 DEF ReadOwner
  <2>2. ASSUME NEW o \in Procs, seen' = [seen EXCEPT ![p].owner = o],
               pc' = [pc EXCEPT ![p] = "ownerStat"]
        PROVE  IInv'
    <3>1. seen' \in [Procs -> Dirs] /\ seen'[p].owner \in Procs
      BY <2>2 DEF Dirs
    <3> QED
      BY <1>2, <2>2, <3>1 DEF ReadOwner
  <2> QED
    BY <1>2, <2>1, <2>2 DEF ReadOwner
<1>3. CASE OwnerStat(p) /\ ~Refuse(p)
  BY <1>3 DEF OwnerStat
<1>4. CASE ReadPid(p) /\ ~Refuse(p)
  <2>1. CASE UNCHANGED seen /\ pc' = [pc EXCEPT ![p] = "rename"]
    BY <1>4, <2>1, MutationLockAssumption DEF ReadPid
  <2>2. ASSUME NEW o \in Procs, seen' = [seen EXCEPT ![p].pid = o],
               pc' = [pc EXCEPT ![p] = "pidStat"]
        PROVE  IInv'
    <3>1. seen' \in [Procs -> Dirs] /\ seen'[p].owner = None /\ seen'[p].pid \in Procs
      BY <1>4, <2>2 DEF ReadPid, Dirs
    <3> QED
      BY <1>4, <2>2, <3>1, MutationLockAssumption DEF ReadPid
  <2> QED
    BY <1>4, <2>1, <2>2 DEF ReadPid
<1>5. CASE PidStat(p) /\ ~Refuse(p)
  BY <1>5, MutationLockAssumption DEF PidStat
<1> QED
  BY <1>1, <1>2, <1>3, <1>4, <1>5, <1>6

\* The rename and what is done with the quarantine.
LEMMA ReapInv ==
  ASSUME IInv, NEW p \in Procs,
         Rename(p) \/ Recheck(p) \/ Back(p) \/ Discard(p), UNCHANGED disturbed
  PROVE  IInv'
<1>3. CASE Back(p)
  <2>1. dir' \in {dir, quarantine[p]} /\ quarantine[p] \in Dirs \cup {Absent}
    BY <1>3 DEF Back, IInv, TypeOK
  <2>2. dir' \in Dirs \cup {Absent}
    BY <2>1 DEF IInv, TypeOK
  <2> QED
    BY <1>3, <2>2, ReturnInv DEF Back
<1>4. CASE Discard(p)
  BY <1>4, ReturnInv DEF Discard, IInv, TypeOK
<1>5. CASE Rename(p) /\ Retry(p)
  <2>1. pc'[p] = "mkdir"
    BY <1>5 DEF Retry, Goto, IInv, TypeOK
  <2>2. ~Goto(p, "recheck")
    BY <2>1 DEF Goto, IInv, TypeOK
  <2>3. UNCHANGED <<dir, quarantine, alive>>
    BY <1>5, <2>2 DEF Rename
  <2> QED
    BY <1>5, <2>3, ReturnInv DEF IInv, TypeOK
<1> USE DEF IInv, TypeOK, SeenIsFresh, SeenIsDead, QuarantineHeld,
            DiscardMatches, Matches, Goto
<1>1. CASE Rename(p) /\ ~Retry(p)
  BY <1>1 DEF Rename
<1>2. CASE Recheck(p)
  BY <1>2 DEF Recheck
<1> QED
  BY <1>1, <1>2, <1>3, <1>4, <1>5

\* A process is killed: more owners are dead than before.
LEMMA DieInv ==
  ASSUME IInv, NEW p \in Procs, Die(p)
  PROVE  IInv'
<1>1. dir' \in Dirs \cup {Absent}
  <2>1. CASE dir' \in {dir, Empty}
    BY <2>1, EmptyIsDir DEF IInv, TypeOK
  <2>2. CASE /\ dir # Absent
             /\ \/ dir' = [dir EXCEPT !.owner = Torn]
                \/ dir' = [dir EXCEPT !.owner = None, !.old = FALSE]
                \/ dir' = [dir EXCEPT !.pid = None, !.old = FALSE]
    <3>1. dir \in Dirs
      BY <2>2 DEF IInv, TypeOK
    <3> QED
      BY <2>2, <3>1, DirWith
  <2>3. \/ dir' \in {dir, Empty}
        \/ /\ dir # Absent
           /\ \/ dir' = [dir EXCEPT !.owner = Torn]
              \/ dir' = [dir EXCEPT !.owner = None, !.old = FALSE]
              \/ dir' = [dir EXCEPT !.pid = None, !.old = FALSE]
    BY DEF Die, Remains
  <2> QED
    BY <2>1, <2>2, <2>3
<1>2. /\ UNCHANGED quarantine
      /\ disturbed' \in BOOLEAN
      /\ alive' = [alive EXCEPT ![p] = FALSE]
      /\ UNCHANGED <<pc, seen>> \/ (Goto(p, "dead") /\ Forget(p))
  BY DEF Die
<1>3. seen' \in [Procs -> Dirs] /\ \A q \in Procs \ {p} : seen'[q] = seen[q]
  BY <1>2, ForgetTypes DEF Forget, IInv, TypeOK
<1>4. TypeOK'
  BY <1>1, <1>2, <1>3 DEF IInv, TypeOK, Goto
<1>5. CASE UNCHANGED <<pc, seen>>
  BY <1>2, <1>4, <1>5 DEF IInv, TypeOK, SeenIsFresh, SeenIsDead, QuarantineHeld,
                          DiscardMatches, Matches
<1>6. CASE Goto(p, "dead") /\ Forget(p)
  BY <1>2, <1>3, <1>4, <1>6 DEF IInv, TypeOK, SeenIsFresh, SeenIsDead, QuarantineHeld,
                                DiscardMatches, Matches, Goto
<1> QED
  BY <1>2, <1>5, <1>6

\* Time passes.
LEMMA AgeInv == ASSUME IInv, Age PROVE IInv'
<1>1. dir' \in Dirs \cup {Absent}
  BY DEF IInv, TypeOK, Age, Dirs
<1>2. disturbed' \in BOOLEAN
  BY DEF Age
<1> QED
  BY <1>1, <1>2 DEF Age, IInv, TypeOK, SeenIsFresh, SeenIsDead, QuarantineHeld,
             DiscardMatches, Matches

\* IInv is an inductive invariant of the lock.
THEOREM Inductive == Spec => []IInv
<1>1. ASSUME IInv, Next PROVE IInv'
  <2>1. disturbed \in BOOLEAN
    BY <1>1 DEF IInv, TypeOK
  <2>2. CASE \E p \in Procs : /\ Acquire(p) \/ Release(p) \/ Again(p) \/ Reap(p)
                              /\ UNCHANGED disturbed
    BY <1>1, <2>1, <2>2, LockStepInv, ReadInv, ReapInv DEF Reap
  <2>3. CASE \E p \in Procs : Exit(p)
    <3>1. disturbed' \in BOOLEAN
      BY <2>3 DEF Exit
    <3> QED
      BY <1>1, <2>3, <3>1, LockStepInv
  <2>4. CASE \E p \in Procs : Die(p)
    BY <1>1, <2>4, DieInv
  <2>5. CASE Age
    BY <1>1, <2>5, AgeInv
  <2> QED
    BY <1>1, <2>2, <2>3, <2>4, <2>5 DEF Next
<1>2. ASSUME IInv, UNCHANGED vars PROVE IInv'
  BY <1>2 DEF IInv, TypeOK, SeenIsFresh, SeenIsDead, QuarantineHeld,
             DiscardMatches, Matches, vars
<1> QED
  BY InitInv, <1>1, <1>2, PTL DEF Spec

-----------------------------------------------------------------------------
\* The undisturbed lock: the directory is there exactly while one process is
\* between its mkdir and its removal, that process is alive and named in it as
\* far as it has come, and no reaper gets as far as the rename.
InLock(p) == pc[p] \in {"owner", "pid", "held", "remove"}

Named(p) ==
  /\ dir # Absent
  /\ dir.owner = (IF pc[p] = "owner" THEN None ELSE p)
  /\ dir.pid = (IF pc[p] \in {"owner", "pid"} THEN None ELSE p)

OneInLock ==
  /\ \A p \in Procs : InLock(p) => Named(p)
  /\ \A p, q \in Procs : InLock(p) /\ InLock(q) => p = q
  /\ dir # Absent => ~dir.old /\ \E p \in Procs : InLock(p)

NothingReaped ==
  \A p \in Procs :
    /\ pc[p] = "dead" \/ alive[p]
    /\ pc[p] \notin {"rename", "recheck", "back", "discard", "cleanup"}
    /\ pc[p] \in {"readOwner", "readPid"} => ~seen[p].old
    /\ pc[p] = "ownerStat" => alive[seen[p].owner]
    /\ pc[p] = "pidStat" => alive[seen[p].pid]

CalmInv == ~disturbed => OneInLock /\ NothingReaped

\* mkdir succeeds only for one; its owner alone fills and removes the directory.
LEMMA LockStepCalm ==
  ASSUME TypeOK, OneInLock, NothingReaped, NEW p \in Procs,
         Acquire(p) \/ Release(p) \/ Again(p) \/ (Exit(p) /\ ~LookedUp(p))
  PROVE  OneInLock' /\ NothingReaped'
<1> USE DEF TypeOK, OneInLock, NothingReaped, InLock, Named, Goto
<1>1. CASE Begin(p) \/ Again(p)
  BY <1>1 DEF Begin, Again
<1>2. CASE MkDir(p)
  <2>1. CASE dir # Absent
    BY <1>2, <2>1 DEF MkDir
  <2>2. CASE dir = Absent
    <3>1. /\ Empty # Absent /\ ~Empty.old
          /\ Empty.owner = None /\ Empty.pid = None
      BY EmptyIsDir, AbsentAssumption DEF Empty
    <3>2. \A q \in Procs : ~InLock(q)
      BY <2>2
    <3> QED
      BY <1>2, <2>2, <3>1, <3>2 DEF MkDir
  <2> QED
    BY <2>1, <2>2
<1>3. CASE WriteOwner(p)
  <2>1. InLock(p) /\ dir # Absent
    BY <1>3 DEF WriteOwner
  <2> DEFINE d == [owner |-> p, pid |-> dir.pid, old |-> FALSE]
  <2>2. d # Absent /\ d.owner = p /\ d.pid = dir.pid /\ ~d.old
    <3>1. dir \in Dirs
      BY <2>1
    <3>2. d \in Dirs
      BY <3>1, DirWith
    <3> QED
      BY <3>2, AbsentAssumption
  <2>3. dir' = d /\ pc' = [pc EXCEPT ![p] = "pid"] /\ UNCHANGED <<alive, seen>>
    BY <1>3, <2>1 DEF WriteOwner
  <2> HIDE DEF d
  <2> QED
    BY <1>3, <2>1, <2>2, <2>3 DEF WriteOwner
<1>4. CASE WritePid(p)
  <2>1. InLock(p) /\ dir # Absent
    BY <1>4 DEF WritePid
  <2> DEFINE d == [owner |-> dir.owner, pid |-> p, old |-> FALSE]
  <2>2. d # Absent /\ d.owner = dir.owner /\ d.pid = p /\ ~d.old
    <3>1. dir \in Dirs
      BY <2>1
    <3>2. d \in Dirs
      BY <3>1, DirWith
    <3> QED
      BY <3>2, AbsentAssumption
  <2>3. dir' = d /\ pc' = [pc EXCEPT ![p] = "held"] /\ UNCHANGED <<alive, seen>>
    BY <1>4, <2>1 DEF WritePid
  <2> HIDE DEF d
  <2> QED
    BY <1>4, <2>1, <2>2, <2>3 DEF WritePid
<1>5. ~Cleanup(p)
  BY DEF Cleanup
<1>6. CASE Drop(p)
  BY <1>6 DEF Drop
<1>7. CASE Remove(p)
  BY <1>7 DEF Remove
<1>8. CASE Exit(p) /\ ~LookedUp(p)
  BY <1>8 DEF Exit, LookedUp
<1> QED
  BY <1>1, <1>2, <1>3, <1>4, <1>5, <1>6, <1>7, <1>8 DEF Acquire, Release

\* Whoever looks finds a directory that is young and names a living process.
LEMMA ReapCalm ==
  ASSUME TypeOK, OneInLock, NothingReaped, NEW p \in Procs, Reap(p)
  PROVE  OneInLock' /\ NothingReaped'
<1>5. CASE Retry(p) \/ Refuse(p)
  <2>1. /\ \A q \in Procs \ {p} : pc'[q] = pc[q] /\ seen'[q] = seen[q]
        /\ pc'[p] \in {"mkdir", "idle"}
    BY <1>5 DEF Retry, Refuse, Forget, Goto, TypeOK
  <2>2. pc[p] \in {"stat", "readOwner", "ownerStat", "readPid", "pidStat"}
    BY DEF Reap, Stat, ReadOwner, OwnerStat, ReadPid, PidStat, Rename, Recheck,
           Back, Discard, NothingReaped
  <2>3. UNCHANGED <<dir, alive>>
    BY <2>2 DEF Reap, Stat, ReadOwner, OwnerStat, ReadPid, PidStat, Rename,
           Recheck, Back, Discard
  <2> QED
    BY <2>1, <2>2, <2>3 DEF TypeOK, OneInLock, NothingReaped, InLock, Named
<1> USE DEF TypeOK, OneInLock, NothingReaped, InLock, Named, Goto
<1>1. CASE Stat(p) /\ ~Retry(p)
  <2>1. CASE dir = Absent
    BY <1>1, <2>1 DEF Stat
  <2>2. CASE dir # Absent
    <3> DEFINE read == [Empty EXCEPT !.old = dir.old]
    <3>1. ~read.old
      BY <2>2 DEF Empty
    <3>2. seen' = [seen EXCEPT ![p] = read] /\ pc' = [pc EXCEPT ![p] = "readOwner"]
      BY <1>1, <2>2 DEF Stat
    <3>3. UNCHANGED <<dir, alive>>
      BY <1>1 DEF Stat
    <3> HIDE DEF read
    <3> QED
      BY <1>1, <3>1, <3>2, <3>3 DEF Stat
  <2> QED
    BY <2>1, <2>2
<1>2. CASE ReadOwner(p) /\ ~Refuse(p)
  <2>1. CASE UNCHANGED seen /\ pc' = [pc EXCEPT ![p] = "readPid"]
    BY <1>2, <2>1 DEF ReadOwner
  <2>2. ASSUME NEW o \in OwnerFiles, o \in Procs,
               seen' = [seen EXCEPT ![p].owner = o],
               pc' = [pc EXCEPT ![p] = "ownerStat"]
        PROVE  (OneInLock /\ NothingReaped)'
    <3>1. alive[o]
      BY <2>2, MutationLockAssumption DEF OwnerFiles, Missing
    <3>2. UNCHANGED <<dir, alive>> /\ seen'[p].owner = o
      BY <1>2, <2>2 DEF ReadOwner, Dirs
    <3> QED
      BY <1>2, <2>2, <3>1, <3>2 DEF ReadOwner
  <2> QED
    BY <1>2, <2>1, <2>2 DEF ReadOwner
<1>3. CASE ReadPid(p) /\ ~Refuse(p)
  <2>1. PICK o \in PidFiles : /\ o \in Procs
                              /\ seen' = [seen EXCEPT ![p].pid = o]
                              /\ pc' = [pc EXCEPT ![p] = "pidStat"]
    BY <1>3 DEF ReadPid
  <2>2. alive[o]
    BY <2>1, MutationLockAssumption DEF PidFiles, Missing
  <2>3. UNCHANGED <<dir, alive>> /\ seen'[p].pid = o
    BY <1>3, <2>1 DEF ReadPid, Dirs
  <2> QED
    BY <1>3, <2>1, <2>2, <2>3 DEF ReadPid
<1>4. ~(\/ OwnerStat(p) /\ ~Refuse(p)
        \/ PidStat(p) /\ ~Refuse(p)
        \/ Rename(p) \/ Recheck(p) \/ Back(p) \/ Discard(p))
  BY DEF OwnerStat, PidStat, Rename, Recheck, Back, Discard
<1> QED
  BY <1>1, <1>2, <1>3, <1>4, <1>5 DEF Reap

\* Until a process is killed, a lock is held for 300 s, or an owner ends between a
\* reaper's two looks, CalmInv holds.
THEOREM Calm == Spec => []CalmInv
<1>1. Init => CalmInv
  BY DEF Init, CalmInv, OneInLock, NothingReaped, InLock, Named
<1>2. ASSUME IInv, CalmInv, Next PROVE CalmInv'
  <2> SUFFICES ASSUME ~disturbed' PROVE (OneInLock /\ NothingReaped)'
    BY DEF CalmInv
  <2>1. CASE \E p \in Procs : /\ Acquire(p) \/ Release(p) \/ Again(p) \/ Reap(p)
                              /\ UNCHANGED disturbed
    <3>1. TypeOK /\ OneInLock /\ NothingReaped
      BY <1>2, <2>1 DEF IInv, CalmInv
    <3> QED
      BY <2>1, <3>1, LockStepCalm, ReapCalm
  <2>4. CASE \E p \in Procs : Exit(p)
    <3>1. PICK p \in Procs : Exit(p)
      BY <2>4
    <3>2. ~disturbed /\ ~LookedUp(p)
      BY <3>1 DEF Exit
    <3>3. TypeOK /\ OneInLock /\ NothingReaped
      BY <1>2, <3>2 DEF IInv, CalmInv
    <3> QED
      BY <3>1, <3>2, <3>3, LockStepCalm
  <2>2. ~\E p \in Procs : Die(p)
    BY DEF Die
  <2>3. ~Age
    <3>1. ASSUME Age PROVE FALSE
      <4>1. ~disturbed /\ dir # Absent /\ dir.owner = None
        BY <3>1 DEF Age
      <4>2. OneInLock
        BY <1>2, <4>1 DEF CalmInv
      <4>3. PICK p \in Procs : InLock(p)
        BY <4>1, <4>2 DEF OneInLock
      <4>4. pc[p] = "held"
        BY <3>1, <4>3 DEF Age, InLock
      <4>5. dir.owner = p
        BY <4>2, <4>3, <4>4 DEF OneInLock, Named
      <4> QED
        BY <4>1, <4>5, MutationLockAssumption
    <3> QED
      BY <3>1
  <2> QED
    BY <1>2, <2>1, <2>2, <2>3, <2>4 DEF Next
<1>3. ASSUME CalmInv, UNCHANGED vars PROVE CalmInv'
  BY <1>3 DEF CalmInv, OneInLock, NothingReaped, InLock, Named, vars
<1> QED
  BY Inductive, <1>1, <1>2, <1>3, PTL DEF Spec

\* Type correctness.
THEOREM TypeCorrect == Spec => []TypeOK
<1>1. IInv => TypeOK
  BY DEF IInv
<1> QED
  BY Inductive, <1>1, PTL

\* lock.rs:222-235: the recheck after the rename keeps every reaper from
\* deleting the lock of a living process that has its name in it.
THEOREM LivingOwnersAreSafe == Spec => []OnlyDeadAreReaped
<1>1. IInv => OnlyDeadAreReaped
  BY DEF IInv, TypeOK, SeenIsFresh, SeenIsDead, QuarantineHeld, DiscardMatches, Matches,
         OnlyDeadAreReaped, Dirs
<1> QED
  BY Inductive, <1>1, PTL

\* tests/lock.rs:18, for any number of processes that ask, reap, release, end and
\* ask again: the lock excludes until one is killed, keeps the lock for 300 s, or
\* ends after a reaper has read its name and before it is looked up in /proc.
THEOREM LockExcludes == Spec => []MutualExclusion
<1>1. CalmInv => MutualExclusion
  BY DEF CalmInv, OneInLock, InLock, MutualExclusion, Exclusive, Holds
<1> QED
  BY Calm, <1>1, PTL

\* lock.rs:110-117: and its holder is the one named in it.
THEOREM HolderIsTheOwner == Spec => []HolderIsNamed
<1>1. CalmInv => HolderIsNamed
  BY DEF CalmInv, OneInLock, InLock, Named, HolderIsNamed, Holds
<1> QED
  BY Calm, <1>1, PTL
=============================================================================
