---------------------------- MODULE MutationLock ----------------------------
(***************************************************************************)
(* The lock directory that serialises every change of the WARP state       *)
(* (platform/openwrt/warp-controller/src/lock.rs): taken with mkdir, owned *)
(* by the process named in its file "owner" (pid and start time), taken    *)
(* away from a dead owner by renaming it into a quarantine.                *)
(*                                                                         *)
(* Each step is one visible access to the lock directory or to /proc: the  *)
(* name of an owner is read in one step and looked up in /proc in another. *)
(* Processes run the steps of acquire, reap_if_stale, drop and             *)
(* release_for_process in any order, and may be killed between any two.  A *)
(* process is one lifetime: a pid that comes back has another start time.  *)
(* What a step names is the path, so that it meets whatever directory is   *)
(* there by then.                                                          *)
(*                                                                         *)
(* Two operations of several accesses are one step: remove_dir_all, of     *)
(* which readers may see the middle and a kill may leave it, and the       *)
(* second look in the quarantine, where nobody else writes.  Errors other  *)
(* than a missing file, and a lock path that is no directory, are left out.*)
(***************************************************************************)
EXTENDS Integers

CONSTANTS
  Procs,
  MayDie,      \* those that may be killed
  ByCLI,       \* shells, for whom a short-lived CLI takes and drops the lock
  Reacquires,  \* those that may take the lock again after releasing it
  TornWrites,  \* TRUE: a process may die between creating and filling a file
  MayAge,      \* TRUE: a lock may be held for 300 s
  None, Torn, Absent

ASSUME MutationLockAssumption ==
  /\ MayDie \subseteq Procs
  /\ ByCLI \subseteq Procs
  /\ Reacquires \subseteq Procs
  /\ TornWrites \in BOOLEAN /\ MayAge \in BOOLEAN
  /\ None \notin Procs /\ Torn \notin Procs /\ None # Torn

VARIABLES
  dir,        \* what is at the lock path
  quarantine, \* what each reaper has renamed away
  pc, alive,
  seen,       \* what reap_if_stale has read
  disturbed   \* history: a process was killed, a lock was held for 300 s, or an
              \* owner ended after a reaper had read its name and before that
              \* reaper looked it up in /proc

vars == <<dir, quarantine, pc, alive, seen, disturbed>>

Dirs == [owner : Procs \cup {None, Torn}, pid : Procs \cup {None}, old : BOOLEAN]

ASSUME AbsentAssumption == Absent \notin Dirs

Empty == [owner |-> None, pid |-> None, old |-> FALSE]

TypeOK ==
  /\ dir \in Dirs \cup {Absent}
  /\ quarantine \in [Procs -> Dirs \cup {Absent}]
  /\ pc \in [Procs -> {"idle", "mkdir", "owner", "pid", "cleanup", "held", "remove",
                       "stat", "readOwner", "ownerStat", "readPid", "pidStat",
                       "rename", "recheck", "back", "discard", "done", "dead"}]
  /\ alive \in [Procs -> BOOLEAN]
  /\ seen \in [Procs -> Dirs]
  /\ disturbed \in BOOLEAN

Init ==
  /\ dir = Absent
  /\ quarantine = [p \in Procs |-> Absent]
  /\ pc = [p \in Procs |-> "idle"]
  /\ alive = [p \in Procs |-> TRUE]
  /\ seen = [p \in Procs |-> Empty]
  /\ disturbed = FALSE

Goto(p, label) == pc' = [pc EXCEPT ![p] = label]

\* reap_if_stale returns: what it has read is forgotten.
Forget(p) == seen' = [seen EXCEPT ![p] = Empty]

\* It says "stale": mkdir is tried again at once.
Retry(p) == Goto(p, "mkdir") /\ Forget(p)

\* It says "not stale": the loop sleeps and goes on, or its deadline has
\* passed and acquire returns None.
Refuse(p) == (Goto(p, "mkdir") \/ Goto(p, "idle")) /\ Forget(p)

-----------------------------------------------------------------------------
\* acquire is called, for the first time or after it returned None.
Begin(p) ==
  /\ pc[p] = "idle" /\ alive[p]
  /\ Goto(p, "mkdir")
  /\ UNCHANGED <<dir, quarantine, alive, seen>>

\* Faulty: create_dir_all, for which an existing directory is a success.
MkDirAll(p) ==
  /\ pc[p] = "mkdir"
  /\ dir' = IF dir = Absent THEN Empty ELSE dir
  /\ Goto(p, "owner")
  /\ UNCHANGED <<quarantine, alive, seen>>

\* create_dir: a new directory, or AlreadyExists.
MkDir(p) ==
  /\ pc[p] = "mkdir"
  /\ \/ dir = Absent /\ dir' = Empty /\ Goto(p, "owner")
     \/ dir # Absent /\ UNCHANGED dir /\ Goto(p, "stat")
  /\ UNCHANGED <<quarantine, alive, seen>>

\* write_lock_owner: two files; an error removes what is at the path.
WriteOwner(p) ==
  /\ pc[p] = "owner"
  /\ \/ /\ dir # Absent
        /\ dir' = [owner |-> p, pid |-> dir.pid, old |-> FALSE]
        /\ Goto(p, "pid")
     \/ dir = Absent /\ UNCHANGED dir /\ Goto(p, "cleanup")
  /\ UNCHANGED <<quarantine, alive, seen>>

WritePid(p) ==
  /\ pc[p] = "pid"
  /\ \/ /\ dir # Absent
        /\ dir' = [owner |-> dir.owner, pid |-> p, old |-> FALSE]
        /\ Goto(p, "held")
     \/ dir = Absent /\ UNCHANGED dir /\ Goto(p, "cleanup")
  /\ UNCHANGED <<quarantine, alive, seen>>

Cleanup(p) ==
  /\ pc[p] = "cleanup"
  /\ dir' = Absent
  /\ Goto(p, "done")
  /\ UNCHANGED <<quarantine, alive, seen>>

\* drop and release_for_process: the owner is read, then the directory removed.
Drop(p) ==
  /\ pc[p] = "held"
  /\ IF dir # Absent /\ dir.owner = p THEN Goto(p, "remove") ELSE Goto(p, "done")
  /\ UNCHANGED <<dir, quarantine, alive, seen>>

Remove(p) ==
  /\ pc[p] = "remove"
  /\ dir' = Absent
  /\ Goto(p, "done")
  /\ UNCHANGED <<quarantine, alive, seen>>

\* The process has done its work: it takes the lock again, or ends.
Again(p) ==
  /\ p \in Reacquires
  /\ pc[p] = "done" /\ alive[p]
  /\ Goto(p, "mkdir")
  /\ UNCHANGED <<dir, quarantine, alive, seen>>

\* Some reaper has read this process's name and not yet looked it up.
LookedUp(p) ==
  \E q \in Procs : \/ pc[q] = "ownerStat" /\ seen[q].owner = p
                   \/ pc[q] = "pidStat" /\ seen[q].pid = p

Exit(p) ==
  /\ pc[p] = "done"
  /\ alive' = [alive EXCEPT ![p] = FALSE]
  /\ Goto(p, "dead")
  /\ disturbed' = (disturbed \/ LookedUp(p))
  /\ UNCHANGED <<dir, quarantine, seen>>

-----------------------------------------------------------------------------
\* reap_if_stale: the directory's age is taken first, and kept.
Stat(p) ==
  /\ pc[p] = "stat"
  /\ \/ dir = Absent /\ Retry(p)
     \/ /\ dir # Absent
        /\ seen' = [seen EXCEPT ![p] = [Empty EXCEPT !.old = dir.old]]
        /\ Goto(p, "readOwner")
  /\ UNCHANGED <<dir, quarantine, alive>>

\* What a reader may find in a file: while somebody removes the directory, the
\* file may be gone already.
Missing == IF \E q \in Procs : pc[q] \in {"remove", "cleanup"} THEN {None} ELSE {}
OwnerFiles == {IF dir = Absent THEN None ELSE dir.owner} \cup Missing
PidFiles == {IF dir = Absent THEN None ELSE dir.pid} \cup Missing

\* The owner file; text that is not a pid and a start time is nobody's to reap.
ReadOwner(p) ==
  /\ pc[p] = "readOwner"
  /\ \E o \in OwnerFiles :
       \/ o = None /\ Goto(p, "readPid") /\ UNCHANGED seen
       \/ o = Torn /\ Refuse(p)
       \/ /\ o \in Procs
          /\ seen' = [seen EXCEPT ![p].owner = o]
          /\ Goto(p, "ownerStat")
  /\ UNCHANGED <<dir, quarantine, alive>>

\* Faulty: no look into /proc, an owner is always alive or always dead.
OwnerStatAlive(p) ==
  /\ pc[p] = "ownerStat"
  /\ Refuse(p)
  /\ UNCHANGED <<dir, quarantine, alive>>
OwnerStatStale(p) ==
  /\ pc[p] = "ownerStat"
  /\ Goto(p, "rename") /\ UNCHANGED seen
  /\ UNCHANGED <<dir, quarantine, alive>>

\* /proc/<pid>/stat of the owner that was read.
OwnerStat(p) ==
  /\ pc[p] = "ownerStat"
  /\ \/ alive[seen[p].owner] /\ Refuse(p)
     \/ ~alive[seen[p].owner] /\ Goto(p, "rename") /\ UNCHANGED seen
  /\ UNCHANGED <<dir, quarantine, alive>>

\* No owner: the pid file decides, and without one the age.
ReadPid(p) ==
  /\ pc[p] = "readPid"
  /\ \E o \in PidFiles :
       \/ o = None /\ seen[p].old /\ Goto(p, "rename") /\ UNCHANGED seen
       \/ o = None /\ ~seen[p].old /\ Refuse(p)
       \/ /\ o \in Procs
          /\ seen' = [seen EXCEPT ![p].pid = o]
          /\ Goto(p, "pidStat")
  /\ UNCHANGED <<dir, quarantine, alive>>

\* /proc/<pid>/stat of the pid that was read.
PidStat(p) ==
  /\ pc[p] = "pidStat"
  /\ \/ alive[seen[p].pid] /\ Refuse(p)
     \/ ~alive[seen[p].pid] /\ Goto(p, "rename") /\ UNCHANGED seen
  /\ UNCHANGED <<dir, quarantine, alive>>

\* Whatever is at the path by now goes to this reaper's quarantine.
Rename(p) ==
  /\ pc[p] = "rename"
  /\ \/ dir = Absent /\ UNCHANGED <<dir, quarantine>> /\ Retry(p)
     \/ /\ dir # Absent
        /\ quarantine' = [quarantine EXCEPT ![p] = dir]
        /\ dir' = Absent
        /\ Goto(p, "recheck") /\ UNCHANGED seen
  /\ UNCHANGED alive

\* Faulty: no second look at what was renamed away.
MatchesAnything(p) == quarantine[p] # Absent

\* Is it the directory that was found stale?
Matches(p) ==
  IF seen[p].owner # None
    THEN quarantine[p].owner = seen[p].owner
    ELSE quarantine[p].owner = None /\ quarantine[p].pid = seen[p].pid

Recheck(p) ==
  /\ pc[p] = "recheck"
  /\ IF Matches(p) THEN Goto(p, "discard") ELSE Goto(p, "back")
  /\ UNCHANGED <<dir, quarantine, alive, seen>>

\* rename replaces nothing or an empty directory; its failure is ignored.
Back(p) ==
  /\ pc[p] = "back"
  /\ dir' = IF dir = Absent \/ (dir.owner = None /\ dir.pid = None)
              THEN quarantine[p] ELSE dir
  /\ quarantine' = [quarantine EXCEPT ![p] = Absent]
  /\ Refuse(p)
  /\ UNCHANGED alive

Discard(p) ==
  /\ pc[p] = "discard"
  /\ quarantine' = [quarantine EXCEPT ![p] = Absent]
  /\ Retry(p)
  /\ UNCHANGED <<dir, alive>>

-----------------------------------------------------------------------------
\* What a kill in the middle of a step leaves behind.
Remains(p) ==
  \/ UNCHANGED dir
  \/ /\ TornWrites /\ pc[p] = "owner" /\ dir # Absent
     /\ dir' = [dir EXCEPT !.owner = Torn]
  \/ /\ pc[p] \in {"remove", "cleanup"} /\ dir # Absent
     /\ \/ dir' = [dir EXCEPT !.owner = None, !.old = FALSE]
        \/ dir' = [dir EXCEPT !.pid = None, !.old = FALSE]
        \/ dir' = Empty

\* SIGKILL.  The CLI that works for a shell lives on when the shell dies.
Die(p) ==
  /\ p \in MayDie /\ alive[p]
  /\ alive' = [alive EXCEPT ![p] = FALSE]
  /\ IF p \in ByCLI /\ pc[p] \notin {"idle", "held", "done"}
       THEN UNCHANGED <<pc, dir, seen>>
       ELSE Goto(p, "dead") /\ Remains(p) /\ Forget(p)
  /\ disturbed' = TRUE
  /\ UNCHANGED quarantine

\* 300 s pass.  Nobody takes that long between mkdir and the files in it.
Age ==
  /\ MayAge
  /\ dir # Absent /\ ~dir.old
  /\ \A p \in Procs : pc[p] \notin {"owner", "pid", "cleanup", "remove"}
  /\ dir' = [dir EXCEPT !.old = TRUE]
  /\ disturbed' = (disturbed \/ dir.owner # None)
  /\ UNCHANGED <<quarantine, pc, alive, seen>>

Acquire(p) == Begin(p) \/ MkDir(p) \/ WriteOwner(p) \/ WritePid(p) \/ Cleanup(p)
Release(p) == Drop(p) \/ Remove(p)
Reap(p) == \/ Stat(p) \/ ReadOwner(p) \/ OwnerStat(p) \/ ReadPid(p) \/ PidStat(p)
           \/ Rename(p) \/ Recheck(p) \/ Back(p) \/ Discard(p)

Next ==
  \/ \E p \in Procs : /\ Acquire(p) \/ Release(p) \/ Again(p) \/ Reap(p)
                      /\ UNCHANGED disturbed
  \/ \E p \in Procs : Exit(p) \/ Die(p)
  \/ Age

Spec == Init /\ [][Next]_vars

\* A living process runs on, what it does under the lock ends, so does the
\* process, and one that was refused asks again; time passes.
FairSpec ==
  /\ Spec
  /\ \A p \in Procs :
       /\ WF_vars((Acquire(p) \/ Release(p) \/ Reap(p)) /\ UNCHANGED disturbed)
       /\ WF_vars(Exit(p))
  /\ WF_vars(Age)

-----------------------------------------------------------------------------
Holds(p) == pc[p] = "held" /\ alive[p]

\* tests/lock.rs:18 "lock_is_exclusive": two living processes never both hold
\* the lock.  The code breaks this with ordinary runs of processes: a reaper that
\* read the name of an owner who then releases and ends takes whatever is at the
\* path for stale; so does one that saw a killed owner or a lock 300 s old.
Exclusive == \A p, q \in Procs : Holds(p) /\ Holds(q) => p = q

\* Short of these three the lock excludes, whatever reapers see of the
\* directories that others make, fill and remove.
MutualExclusion == ~disturbed => Exclusive

\* lock.rs:110-117: until then, who holds the lock finds its name in it, so that
\* it can release it and nobody has it in a quarantine.
HolderIsNamed ==
  ~disturbed => \A p \in Procs : Holds(p) => dir # Absent /\ dir.owner = p

\* lock.rs:222-234: a directory that was renamed away while somebody else had
\* made it anew is given back; what a reaper deletes names no living owner.
OnlyDeadAreReaped ==
  \A p \in Procs :
    /\ pc[p] = "discard" => quarantine[p] # Absent
    /\ pc[p] = "discard" /\ quarantine[p].owner \in Procs
         => ~alive[quarantine[p].owner]

\* Two reapers in lockstep may for ever read the path while the other has the
\* directory in its quarantine; their sleeps are no promise that they do not.
CollisionsEnd == <>[][\A p \in Procs : ~Back(p)]_vars

\* A process that takes the lock again ends some time, for its waits have
\* deadlines; until then it may come first each time, and a reaper may have put
\* back a directory that names it.
TakersEnd == \A p \in Reacquires : <>(pc[p] = "dead")

\* tests/lock.rs:40 "dead_owner_lock_is_reaped": whoever dies at whatever step,
\* a process that lives and goes on asking gets the lock in the end, or an error.
AskingIsAnswered ==
  CollisionsEnd /\ TakersEnd =>
    \A p \in Procs \ MayDie : pc[p] = "mkdir" ~> pc[p] \in {"held", "cleanup"}
=============================================================================
