------------------------------ MODULE TaskLease ------------------------------
(***************************************************************************)
(* Several ulg processes on one state directory: sessions (run, resume,    *)
(* diff, discard) that hold the lease of one task, and `ulg clean', which  *)
(* leases several tasks, deletes them and then unlinks their lock files.   *)
(* The lease is an flock on <task>.lock (tasks/state.py lease): the file   *)
(* is opened, locked without waiting and never compared with the path      *)
(* again, so a process may hold the lock of a file that is unlinked.       *)
(*                                                                         *)
(* Inodes of one lock file are numbered in the order they are created; 0   *)
(* is no file or no descriptor.  A task's artifacts (workspace, audit log, *)
(* grants) go in a fixed order: left[t] counts those that are still there. *)
(* A task identifier is never used twice, so a deleted task stays deleted. *)
(*                                                                         *)
(* A definition whose name starts with Mutant is a plausible slip in the   *)
(* definition after it, kept to show that some property notices it.        *)
(***************************************************************************)
EXTENDS Integers

CONSTANTS
    Procs,
    Tasks,        \* identifiers, in the order of their hex digits
    MaxRevision   \* bound on the saves that are explored

ASSUME TasksAssumption == Tasks \subseteq Nat

Artifacts == 3

VARIABLES
    present, rev,        \* tasks with a state file, and the revision in it
    left,                \* artifacts still on disk
    lockFile, created,   \* inode at the lock path; inodes created so far
    pc, kind,            \* per process: step, and the command it runs
    job,                 \* tasks the command is (still) about
    preview,             \* revisions `clean' showed to the user
    begun,               \* the task `clean' is deleting, if it is at one
    fd, locks,           \* open descriptors, and the tasks whose flock is held
    loaded, mem          \* tasks with a TaskSession, and its revision

disk == <<present, rev, left>>
files == <<lockFile, created>>
session == <<loaded, mem>>
vars == <<disk, files, pc, kind, job, preview, begun, fd, locks, session>>

Steps == {"idle", "preview", "open", "flock", "load", "work", "checked",
          "delete", "unlock", "idleFlock", "inspect", "unlink"}

TypeOK ==
    /\ present \subseteq Tasks /\ rev \in [Tasks -> Nat]
    /\ left \in [Tasks -> 0 .. Artifacts]
    /\ lockFile \in [Tasks -> Nat] /\ created \in [Tasks -> Nat]
    /\ pc \in [Procs -> Steps] /\ kind \in [Procs -> {"session", "clean"}]
    /\ job \in [Procs -> SUBSET Tasks]
    /\ preview \in [Procs -> [Tasks -> Nat]]
    /\ begun \in [Procs -> SUBSET Tasks]
    /\ fd \in [Procs -> [Tasks -> Nat]]
    /\ locks \in [Procs -> SUBSET Tasks]
    /\ loaded \in [Procs -> SUBSET Tasks]
    /\ mem \in [Procs -> [Tasks -> Nat]]

NoTask == [t \in Tasks |-> 0]

Init ==
    /\ present = Tasks /\ rev = NoTask
    /\ left = [t \in Tasks |-> Artifacts]
    /\ lockFile = NoTask /\ created = NoTask
    /\ pc = [p \in Procs |-> "idle"] /\ kind = [p \in Procs |-> "session"]
    /\ job = [p \in Procs |-> {}]
    /\ preview = [p \in Procs |-> NoTask] /\ begun = [p \in Procs |-> {}]
    /\ fd = [p \in Procs |-> NoTask] /\ locks = [p \in Procs |-> {}]
    /\ loaded = [p \in Procs |-> {}] /\ mem = [p \in Procs |-> NoTask]

Goto(p, step) == pc' = [pc EXCEPT ![p] = step]

\* The process ends, is killed or reports an error: its descriptors close.
Release(p) ==
    /\ Goto(p, "idle") /\ kind' = [kind EXCEPT ![p] = "session"]
    /\ job' = [job EXCEPT ![p] = {}]
    /\ preview' = [preview EXCEPT ![p] = NoTask] /\ begun' = [begun EXCEPT ![p] = {}]
    /\ fd' = [fd EXCEPT ![p] = NoTask] /\ locks' = [locks EXCEPT ![p] = {}]
    /\ loaded' = [loaded EXCEPT ![p] = {}] /\ mem' = [mem EXCEPT ![p] = NoTask]

Leave(p) ==
    /\ pc[p] # "idle"
    /\ Release(p)
    /\ UNCHANGED <<disk, files>>

-----------------------------------------------------------------------------
(* What a process is asked to do.                                          *)

StartSession(p, t) ==
    /\ pc[p] = "idle"
    /\ job' = [job EXCEPT ![p] = {t}]
    /\ Goto(p, "open")
    /\ UNCHANGED <<disk, files, kind, preview, begun, fd, locks, session>>

\* clean inspects the selected tasks one by one, without their leases.
Preview(p, t) ==
    /\ pc[p] \in {"idle", "preview"} /\ t \notin job[p] /\ t \in present
    /\ kind' = [kind EXCEPT ![p] = "clean"]
    /\ job' = [job EXCEPT ![p] = @ \cup {t}]
    /\ preview' = [preview EXCEPT ![p][t] = rev[t]]
    /\ Goto(p, "preview")
    /\ UNCHANGED <<disk, files, begun, fd, locks, session>>

\* The user answers yes, after any length of time.
Confirm(p) ==
    /\ pc[p] = "preview"
    /\ Goto(p, "open")
    /\ UNCHANGED <<disk, files, kind, job, preview, begun, fd, locks, session>>

-----------------------------------------------------------------------------
(* TaskStore.lease.                                                        *)

\* clean leases in sorted order, each once the one before it is held.
MutantChosen(p, t) == t \in job[p] \ loaded[p]
Chosen(p, t) ==
    /\ t \in job[p] \ loaded[p]
    /\ \A u \in job[p] \ loaded[p] : t <= u

\* The descriptor that is opened and not a lease yet.
Opened(p, t) == t \in job[p] \ loaded[p] /\ fd[p][t] # 0

Open(p, t) ==
    /\ pc[p] = "open" /\ Chosen(p, t)
    /\ IF lockFile[t] = 0
       THEN /\ created' = [created EXCEPT ![t] = @ + 1]
            /\ lockFile' = [lockFile EXCEPT ![t] = created[t] + 1]
       ELSE UNCHANGED files
    /\ fd' = [fd EXCEPT ![p][t] = lockFile'[t]]
    /\ Goto(p, "flock")
    /\ UNCHANGED <<disk, kind, job, preview, begun, locks, session>>

\* flock LOCK_NB on the descriptor's inode, whatever the path says by now.
MutantGranted(p, t) == TRUE
Granted(p, t) == \A q \in Procs : t \in locks[q] => fd[q][t] # fd[p][t]

Flock(p, t) ==
    /\ pc[p] = "flock" /\ Opened(p, t) /\ Granted(p, t)
    /\ locks' = [locks EXCEPT ![p] = @ \cup {t}]
    /\ Goto(p, "load")
    /\ UNCHANGED <<disk, files, kind, job, preview, begun, fd, session>>

\* TaskBusyError: everything this command leased is given back.
Busy(p, t) ==
    /\ pc[p] = "flock" /\ Opened(p, t) /\ ~Granted(p, t)
    /\ Release(p)
    /\ UNCHANGED <<disk, files>>

\* clean compares the leased revision with the one it showed.
MutantAsPreviewed(p, t) == TRUE
AsPreviewed(p, t) == kind[p] = "clean" => rev[t] = preview[p][t]

Loadable(p, t) == t \in present /\ AsPreviewed(p, t)

Load(p, t) ==
    /\ pc[p] = "load" /\ Opened(p, t) /\ Loadable(p, t)
    /\ loaded' = [loaded EXCEPT ![p] = @ \cup {t}]
    /\ mem' = [mem EXCEPT ![p][t] = rev[t]]
    /\ Goto(p, IF kind[p] = "session" THEN "work"
               ELSE IF loaded'[p] = job[p] THEN "delete" ELSE "open")
    /\ UNCHANGED <<disk, files, kind, job, preview, begun, fd, locks>>

LoadFails(p, t) ==
    /\ pc[p] = "load" /\ Opened(p, t) /\ ~Loadable(p, t)
    /\ Release(p)
    /\ UNCHANGED <<disk, files>>

-----------------------------------------------------------------------------
(* A session saves: it reads the revision and replaces the file after it.  *)

CheckRevision(p, t) ==
    /\ pc[p] = "work" /\ t \in loaded[p]
    /\ t \in present /\ rev[t] = mem[p][t] /\ rev[t] < MaxRevision
    /\ Goto(p, "checked")
    /\ UNCHANGED <<disk, files, kind, job, preview, begun, fd, locks, session>>

ReplaceState(p, t) ==
    /\ pc[p] = "checked" /\ t \in loaded[p]
    /\ present' = present \cup {t}
    /\ rev' = [rev EXCEPT ![t] = mem[p][t] + 1]
    /\ mem' = [mem EXCEPT ![p][t] = @ + 1]
    /\ Goto(p, "work")
    /\ UNCHANGED <<left, files, kind, job, preview, begun, fd, locks, loaded>>

-----------------------------------------------------------------------------
(* clean deletes: the artifacts of a task, then its state file, and only   *)
(* then the next task, in the order of the command line: any order.        *)

Candidate(p, t) == t \in job[p] \cap present /\ begun[p] \subseteq {t}

\* One that is already missing is passed over.
MutantSomeLeft(t) == left[t] >= 0
SomeLeft(t) == left[t] > 0

RemoveArtifact(p, t) ==
    /\ pc[p] = "delete" /\ Candidate(p, t) /\ SomeLeft(t)
    /\ left' = [left EXCEPT ![t] = @ - 1]
    /\ begun' = [begun EXCEPT ![p] = {t}]
    /\ UNCHANGED <<present, rev, files, pc, kind, job, preview, fd, locks, session>>

MutantReadyToGo(t) == left[t] <= 1
ReadyToGo(t) == left[t] = 0

DeleteState(p, t) ==
    /\ pc[p] = "delete" /\ Candidate(p, t) /\ ReadyToGo(t) /\ rev[t] = mem[p][t]
    /\ present' = present \ {t}
    /\ begun' = [begun EXCEPT ![p] = {}]
    /\ UNCHANGED <<rev, left, files, pc, kind, job, preview, fd, locks, session>>

MutantDeleted(p) == TRUE
Deleted(p) == \A t \in job[p] : t \notin present

\* The ExitStack closes; the idle locks are next.
ReleaseLeases(p) ==
    /\ pc[p] = "delete" /\ Deleted(p)
    /\ fd' = [fd EXCEPT ![p] = NoTask] /\ locks' = [locks EXCEPT ![p] = {}]
    /\ loaded' = [loaded EXCEPT ![p] = {}] /\ mem' = [mem EXCEPT ![p] = NoTask]
    /\ Goto(p, "unlock")
    /\ UNCHANGED <<disk, files, kind, job, preview, begun>>

-----------------------------------------------------------------------------
(* TaskStore.delete_idle_lock, whose TaskStateErrors clean suppresses.     *)

OpenIdle(p, t) ==
    /\ pc[p] = "unlock" /\ t \in job[p] /\ lockFile[t] # 0
    /\ fd' = [fd EXCEPT ![p][t] = lockFile[t]]
    /\ Goto(p, "idleFlock")
    /\ UNCHANGED <<disk, files, kind, job, preview, begun, locks, session>>

\* Nothing there, or done with this one: on to the next.
SkipLock(p, t) ==
    /\ \/ pc[p] = "unlock" /\ t \in job[p] /\ lockFile[t] = 0
       \/ pc[p] = "idleFlock" /\ Opened(p, t) /\ ~Granted(p, t)
       \/ pc[p] = "inspect" /\ Opened(p, t) /\ lockFile[t] # fd[p][t]
    /\ job' = [job EXCEPT ![p] = @ \ {t}]
    /\ fd' = [fd EXCEPT ![p][t] = 0] /\ locks' = [locks EXCEPT ![p] = @ \ {t}]
    /\ Goto(p, "unlock")
    /\ UNCHANGED <<disk, files, kind, preview, begun, session>>

FlockIdle(p, t) ==
    /\ pc[p] = "idleFlock" /\ Opened(p, t) /\ Granted(p, t)
    /\ locks' = [locks EXCEPT ![p] = @ \cup {t}]
    /\ Goto(p, "inspect")
    /\ UNCHANGED <<disk, files, kind, job, preview, begun, fd, session>>

Inspect(p, t) ==
    /\ pc[p] = "inspect" /\ Opened(p, t) /\ lockFile[t] = fd[p][t]
    /\ Goto(p, "unlink")
    /\ UNCHANGED <<disk, files, kind, job, preview, begun, fd, locks, session>>

\* Removes whatever is at the path, then closes the descriptor.
Unlink(p, t) ==
    /\ pc[p] = "unlink" /\ Opened(p, t)
    /\ lockFile' = [lockFile EXCEPT ![t] = 0]
    /\ job' = [job EXCEPT ![p] = @ \ {t}]
    /\ fd' = [fd EXCEPT ![p][t] = 0] /\ locks' = [locks EXCEPT ![p] = @ \ {t}]
    /\ Goto(p, "unlock")
    /\ UNCHANGED <<disk, created, kind, preview, begun, session>>

CleanReturns(p) ==
    /\ pc[p] = "unlock" /\ job[p] = {}
    /\ Release(p)
    /\ UNCHANGED <<disk, files>>

-----------------------------------------------------------------------------
Lease(p, t) == Open(p, t) \/ Flock(p, t) \/ Busy(p, t) \/ Load(p, t) \/ LoadFails(p, t)

Save(p, t) == CheckRevision(p, t) \/ ReplaceState(p, t)

Delete(p, t) == RemoveArtifact(p, t) \/ DeleteState(p, t)

DeleteIdleLock(p, t) ==
    \/ OpenIdle(p, t) \/ SkipLock(p, t) \/ FlockIdle(p, t) \/ Inspect(p, t) \/ Unlink(p, t)

Clean(p) ==
    \/ Confirm(p) \/ ReleaseLeases(p) \/ CleanReturns(p)
    \/ \E t \in Tasks : Preview(p, t) \/ Lease(p, t) \/ Delete(p, t) \/ DeleteIdleLock(p, t)

Next ==
    \E p \in Procs :
        \/ Clean(p) \/ Leave(p)
        \/ \E t \in Tasks : StartSession(p, t) \/ Save(p, t)

Spec == Init /\ [][Next]_vars

-----------------------------------------------------------------------------
(* Properties.                                                             *)

\* Two processes never work on one task, although a lock file may be
\* unlinked while a process that has opened it is about to lock it: by then
\* the state file is gone, and loading it fails.
Exclusive == \A p, q \in Procs : p # q => loaded[p] \cap loaded[q] = {}

\* Between its check of the revision and its replacement of the file a save
\* is overtaken by nobody: the revision it replaces is still the one it
\* checked, so that it loses no update of another process, and the file is
\* still there, so that it brings no deleted task back.
UpdatesNotLost ==
    [][\A p \in Procs, t \in Tasks :
          ReplaceState(p, t) => t \in present /\ rev[t] = mem[p][t]]_vars

\* What clean deletes is what it showed to the user, however long the answer
\* took and whoever resumed the task in between.
DeletesAsPreviewed ==
    \A p \in Procs : pc[p] = "delete" =>
        \A t \in job[p] \cap present : rev[t] = preview[p][t]

\* The state file is the last to go: a clean that stops half way can be
\* repeated, and leaves nothing that no task record leads to.
NothingOrphaned == \A t \in Tasks : t \notin present => left[t] = 0

\* q holds the lock that p is about to try without waiting.
Refuses(q, p, t) ==
    /\ pc[p] = "flock" /\ Opened(p, t)
    /\ t \in locks[q] /\ fd[q][t] = fd[p][t]

\* Two cleans with overlapping selections lease their tasks in one order, so
\* one of them gets through: they never refuse each other, give up together
\* and start all over.
NoMutualRefusal ==
    \A p, q \in Procs : p # q =>
        ~ \E t, u \in Tasks : Refuses(q, p, t) /\ Refuses(p, q, u)
=============================================================================
