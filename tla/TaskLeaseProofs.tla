--------------------------- MODULE TaskLeaseProofs ---------------------------
(* Proofs about leases, for any number of processes and tasks.  As long as *)
(* a task has its state file, its lock file has had one inode only, so     *)
(* everybody who locks it locks the same one; a process that unlinks a     *)
(* lock file has seen the state file go first.                             *)
EXTENDS TaskLease, TLAPS

Unlocking == {"unlock", "idleFlock", "inspect", "unlink"}

\* flock: nobody shares an inode that is locked.
Flocked ==
    \A p, q \in Procs : \A t \in locks[p] \cap locks[q] :
        fd[p][t] = fd[q][t] => p = q

\* While the state file is there the lock file keeps its first inode.
FirstInode ==
    \A t \in present :
        /\ created[t] \in {0, 1} /\ lockFile[t] = created[t]
        /\ \A p \in Procs : fd[p][t] \in {0, 1}

\* A TaskSession exists only under the lock of that inode.
UnderLock ==
    \A p \in Procs : \A t \in loaded[p] :
        t \in locks[p] /\ fd[p][t] = 1 /\ t \in job[p]

\* One descriptor at a time is opened and not a lease yet.
OneOpened == \A p \in Procs : \A t, u \in Tasks : Opened(p, t) /\ Opened(p, u) => t = u

\* What a process holds at each of its steps.
Holding(p) ==
    /\ pc[p] \in {"idle", "preview", "open", "unlock", "work", "checked", "delete"} =>
           \A t \in Tasks : ~Opened(p, t)
    /\ pc[p] \in {"idle", "preview", "unlock"} => locks[p] = {}
    /\ pc[p] \in {"open", "flock", "idleFlock"} => locks[p] \subseteq loaded[p]
    /\ pc[p] = "load" => \A t \in Tasks : Opened(p, t) => t \in locks[p]
    /\ pc[p] \in {"load", "inspect", "unlink"} =>
           \A t \in locks[p] : t \in loaded[p] \/ Opened(p, t)
    /\ pc[p] \in {"idle", "preview"} \cup Unlocking => loaded[p] = {}
    /\ pc[p] \in {"idle", "preview"} => \A t \in Tasks : fd[p][t] = 0
    /\ pc[p] = "idle" => job[p] = {}

Held == \A p \in Procs : Holding(p)

\* What a process knows of the tasks it works on.
Working(p) ==
    /\ pc[p] \in {"work", "checked"} => kind[p] = "session" /\ loaded[p] \subseteq present
    /\ pc[p] \in {"work", "checked"} => \A t, u \in loaded[p] : t = u
    /\ pc[p] \in {"open", "flock", "load"} /\ kind[p] = "session" => loaded[p] = {}
    /\ pc[p] = "checked" => \A t \in loaded[p] : rev[t] = mem[p][t]
    /\ pc[p] = "delete" => kind[p] = "clean" /\ loaded[p] = job[p]
    /\ pc[p] \in Unlocking => job[p] \cap present = {}
    /\ kind[p] = "clean" => \A t \in loaded[p] : rev[t] = preview[p][t]

Known == \A p \in Procs : Working(p)

LeaseInv == Flocked /\ FirstInode /\ UnderLock /\ OneOpened /\ Held

IInv == TypeOK /\ LeaseInv /\ Known

LEMMA InitIInv == Init => IInv
<1> SUFFICES ASSUME Init PROVE IInv
    OBVIOUS
<1> USE TasksAssumption DEF Init, NoTask, Unlocking, Opened
<1>1. TypeOK
    BY SMT DEF TypeOK, Steps, Artifacts
<1>2. LeaseInv
    BY SMT DEF LeaseInv, Flocked, FirstInode, UnderLock, OneOpened, Held, Holding
<1>3. ASSUME NEW p \in Procs PROVE Working(p)
    <2>1. pc[p] = "idle" /\ kind[p] = "session" /\ loaded[p] = {}
        OBVIOUS
    <2> QED
        BY <2>1 DEF Working
<1> QED
    BY <1>1, <1>2, <1>3 DEF IInv, Known

\* A locked inode has one owner, and every session of a task locks the same.
LEMMA OneSession ==
    ASSUME LeaseInv, NEW p \in Procs, NEW q \in Procs, NEW t \in loaded[p] \cap loaded[q]
    PROVE  p = q
BY SMT DEF LeaseInv, Flocked, UnderLock

\* Choosing what to do takes no lease.
LEMMA JobStep ==
    ASSUME IInv, NEW p \in Procs, NEW t \in Tasks,
           StartSession(p, t) \/ Preview(p, t)
    PROVE  IInv'
<1> USE DEF IInv, LeaseInv, disk, files, session, Goto, NoTask, Steps, Artifacts
<1>1. CASE StartSession(p, t)
    <2> USE <1>1 DEF StartSession
    <2>1. TypeOK'
        BY SMT DEF TypeOK
    <2>2. Flocked'
        BY SMT DEF TypeOK, Flocked, Held, Holding, Opened
    <2>3. FirstInode'
        BY SMT DEF TypeOK, FirstInode, UnderLock, Known, Working, Unlocking, Opened
    <2>4. UnderLock'
        BY SMT DEF TypeOK, FirstInode, UnderLock, Held, Holding, Opened, Unlocking
    <2>5. OneOpened'
        BY SMT DEF TypeOK, OneOpened, UnderLock, Held, Holding, Opened, Unlocking
    <2>6. Held'
        BY SMT DEF TypeOK, OneOpened, UnderLock, Held, Holding, Opened, Unlocking
    <2>7. Known'
        BY SMT DEF TypeOK, UnderLock, Flocked, Held, Holding, Known, Working, Opened, Unlocking
    <2> QED
        BY <2>1, <2>2, <2>3, <2>4, <2>5, <2>6, <2>7
<1>2. CASE Preview(p, t)
    <2> USE <1>2 DEF Preview
    <2>1. TypeOK'
        BY SMT DEF TypeOK
    <2>2. Flocked'
        BY SMT DEF TypeOK, Flocked, Held, Holding, Opened
    <2>3. FirstInode'
        BY SMT DEF TypeOK, FirstInode, UnderLock, Known, Working, Unlocking, Opened
    <2>4. UnderLock'
        BY SMT DEF TypeOK, FirstInode, UnderLock, Held, Holding, Opened, Unlocking
    <2>5. OneOpened'
        BY SMT DEF TypeOK, OneOpened, UnderLock, Held, Holding, Opened, Unlocking
    <2>6. Held'
        BY SMT DEF TypeOK, OneOpened, UnderLock, Held, Holding, Opened, Unlocking
    <2>7. Known'
        BY SMT DEF TypeOK, UnderLock, Flocked, Held, Holding, Known, Working, Opened, Unlocking
    <2> QED
        BY <2>1, <2>2, <2>3, <2>4, <2>5, <2>6, <2>7
<1> QED
    BY <1>1, <1>2

\* Opening the lock file, locking it and loading the state.
LEMMA LeaseStep ==
    ASSUME IInv, NEW p \in Procs, NEW t \in Tasks,
           Open(p, t) \/ Flock(p, t) \/ Load(p, t)
    PROVE  IInv'
<1> USE DEF IInv, LeaseInv, disk, files, session, Goto, NoTask, Steps, Artifacts
<1>1. CASE Open(p, t)
    <2> USE <1>1 DEF Open, Chosen
    <2>1. TypeOK'
        <3>1. lockFile' \in [Tasks -> Nat] /\ created' \in [Tasks -> Nat]
            <4>1. CASE lockFile[t] = 0
                <5>1. /\ lockFile' = [lockFile EXCEPT ![t] = created[t] + 1]
                      /\ created' = [created EXCEPT ![t] = @ + 1]
                    BY <4>1
                <5>2. created[t] + 1 \in Nat
                    BY SMT DEF TypeOK
                <5> QED
                    BY <5>1, <5>2 DEF TypeOK
            <4>2. CASE lockFile[t] # 0
                BY <4>2, SMT DEF TypeOK
            <4> QED
                BY <4>1, <4>2
        <3> QED
            BY <3>1, SMT DEF TypeOK
    <2>2. Flocked'
        BY SMT DEF TypeOK, Flocked, Held, Holding, Opened
    <2>3. FirstInode'
        BY SMT DEF TypeOK, FirstInode, UnderLock, Known, Working, Unlocking, Opened
    <2>4. UnderLock'
        BY SMT DEF TypeOK, FirstInode, UnderLock, Held, Holding, Opened, Unlocking
    <2>5. OneOpened'
        BY SMT DEF TypeOK, OneOpened, UnderLock, Held, Holding, Opened, Unlocking
    <2>6. Held'
        BY SMT DEF TypeOK, OneOpened, UnderLock, Held, Holding, Opened, Unlocking
    <2>7. Known'
        BY SMT DEF TypeOK, UnderLock, Flocked, Held, Holding, Known, Working, Opened, Unlocking
    <2> QED
        BY <2>1, <2>2, <2>3, <2>4, <2>5, <2>6, <2>7
<1>2. CASE Flock(p, t)
    <2> USE <1>2 DEF Flock, Granted
    <2>1. TypeOK'
        BY SMT DEF TypeOK
    <2>2. Flocked'
        BY SMT DEF TypeOK, Flocked, Held, Holding, Opened
    <2>3. FirstInode'
        BY SMT DEF TypeOK, FirstInode, UnderLock, Known, Working, Unlocking, Opened
    <2>4. UnderLock'
        BY SMT DEF TypeOK, FirstInode, UnderLock, Held, Holding, Opened, Unlocking
    <2>5. OneOpened'
        BY SMT DEF TypeOK, OneOpened, UnderLock, Held, Holding, Opened, Unlocking
    <2>6. Held'
        BY SMT DEF TypeOK, OneOpened, UnderLock, Held, Holding, Opened, Unlocking
    <2>7. Known'
        BY SMT DEF TypeOK, UnderLock, Flocked, Held, Holding, Known, Working, Opened, Unlocking
    <2> QED
        BY <2>1, <2>2, <2>3, <2>4, <2>5, <2>6, <2>7
<1>3. CASE Load(p, t)
    <2> USE <1>3 DEF Load, Loadable, AsPreviewed
    <2>1. TypeOK'
        BY SMT DEF TypeOK
    <2>2. Flocked'
        BY SMT DEF TypeOK, Flocked, Held, Holding, Opened
    <2>3. FirstInode'
        BY SMT DEF TypeOK, FirstInode, UnderLock, Known, Working, Unlocking, Opened
    <2>4. UnderLock'
        BY SMT DEF TypeOK, FirstInode, UnderLock, Held, Holding, Opened, Unlocking
    <2>5. OneOpened'
        BY SMT DEF TypeOK, OneOpened, UnderLock, Held, Holding, Opened, Unlocking
    <2>6. Held'
        BY SMT DEF TypeOK, OneOpened, UnderLock, Held, Holding, Opened, Unlocking
    <2>7. Known'
        <3>1. ASSUME NEW q \in Procs, q # p PROVE Working(q)'
            BY <3>1, SMT DEF TypeOK, Known, Working, Unlocking
        <3>2. Working(p)'
            BY SMT DEF TypeOK, UnderLock, Known, Working, Opened, Unlocking
        <3> QED
            BY <3>1, <3>2, Zenon DEF Known
    <2> QED
        BY <2>1, <2>2, <2>3, <2>4, <2>5, <2>6, <2>7
<1> QED
    BY <1>1, <1>2, <1>3

\* A lease that is refused gives back every other.
LEMMA RefusalStep ==
    ASSUME IInv, NEW p \in Procs, NEW t \in Tasks,
           Busy(p, t) \/ LoadFails(p, t)
    PROVE  IInv'
<1> USE DEF IInv, LeaseInv, disk, files, session, Goto, NoTask, Steps, Artifacts
<1>1. CASE Busy(p, t)
    <2> USE <1>1 DEF Busy, Release
    <2>1. TypeOK'
        BY SMT DEF TypeOK
    <2>2. Flocked'
        BY SMT DEF TypeOK, Flocked, Held, Holding, Opened
    <2>3. FirstInode'
        BY SMT DEF TypeOK, FirstInode, UnderLock, Known, Working, Unlocking, Opened
    <2>4. UnderLock'
        BY SMT DEF TypeOK, FirstInode, UnderLock, Held, Holding, Opened, Unlocking
    <2>5. OneOpened'
        BY SMT DEF TypeOK, OneOpened, UnderLock, Held, Holding, Opened, Unlocking
    <2>6. Held'
        BY SMT DEF TypeOK, OneOpened, UnderLock, Held, Holding, Opened, Unlocking
    <2>7. Known'
        BY SMT DEF TypeOK, UnderLock, Flocked, Held, Holding, Known, Working, Opened, Unlocking
    <2> QED
        BY <2>1, <2>2, <2>3, <2>4, <2>5, <2>6, <2>7
<1>2. CASE LoadFails(p, t)
    <2> USE <1>2 DEF LoadFails, Release
    <2>1. TypeOK'
        BY SMT DEF TypeOK
    <2>2. Flocked'
        BY SMT DEF TypeOK, Flocked, Held, Holding, Opened
    <2>3. FirstInode'
        BY SMT DEF TypeOK, FirstInode, UnderLock, Known, Working, Unlocking, Opened
    <2>4. UnderLock'
        BY SMT DEF TypeOK, FirstInode, UnderLock, Held, Holding, Opened, Unlocking
    <2>5. OneOpened'
        BY SMT DEF TypeOK, OneOpened, UnderLock, Held, Holding, Opened, Unlocking
    <2>6. Held'
        BY SMT DEF TypeOK, OneOpened, UnderLock, Held, Holding, Opened, Unlocking
    <2>7. Known'
        BY SMT DEF TypeOK, UnderLock, Flocked, Held, Holding, Known, Working, Opened, Unlocking
    <2> QED
        BY <2>1, <2>2, <2>3, <2>4, <2>5, <2>6, <2>7
<1> QED
    BY <1>1, <1>2

\* Steps of a process that are about no single task.
LEMMA WholeStep ==
    ASSUME IInv, NEW p \in Procs,
           Confirm(p) \/ Leave(p) \/ ReleaseLeases(p) \/ CleanReturns(p)
    PROVE  IInv'
<1> USE DEF IInv, LeaseInv, disk, files, session, Goto, NoTask, Steps, Artifacts
<1>1. CASE Confirm(p)
    <2> USE <1>1 DEF Confirm
    <2>1. TypeOK'
        BY SMT DEF TypeOK
    <2>2. Flocked'
        BY SMT DEF TypeOK, Flocked, Held, Holding, Opened
    <2>3. FirstInode'
        BY SMT DEF TypeOK, FirstInode, UnderLock, Known, Working, Unlocking, Opened
    <2>4. UnderLock'
        BY SMT DEF TypeOK, FirstInode, UnderLock, Held, Holding, Opened, Unlocking
    <2>5. OneOpened'
        BY SMT DEF TypeOK, OneOpened, UnderLock, Held, Holding, Opened, Unlocking
    <2>6. Held'
        BY SMT DEF TypeOK, OneOpened, UnderLock, Held, Holding, Opened, Unlocking
    <2>7. Known'
        BY SMT DEF TypeOK, UnderLock, Flocked, Held, Holding, Known, Working, Opened, Unlocking
    <2> QED
        BY <2>1, <2>2, <2>3, <2>4, <2>5, <2>6, <2>7
<1>2. CASE Leave(p)
    <2> USE <1>2 DEF Leave, Release
    <2>1. TypeOK'
        BY SMT DEF TypeOK
    <2>2. Flocked'
        BY SMT DEF TypeOK, Flocked, Held, Holding, Opened
    <2>3. FirstInode'
        BY SMT DEF TypeOK, FirstInode, UnderLock, Known, Working, Unlocking, Opened
    <2>4. UnderLock'
        BY SMT DEF TypeOK, FirstInode, UnderLock, Held, Holding, Opened, Unlocking
    <2>5. OneOpened'
        BY SMT DEF TypeOK, OneOpened, UnderLock, Held, Holding, Opened, Unlocking
    <2>6. Held'
        BY SMT DEF TypeOK, OneOpened, UnderLock, Held, Holding, Opened, Unlocking
    <2>7. Known'
        BY SMT DEF TypeOK, UnderLock, Flocked, Held, Holding, Known, Working, Opened, Unlocking
    <2> QED
        BY <2>1, <2>2, <2>3, <2>4, <2>5, <2>6, <2>7
<1>3. CASE ReleaseLeases(p)
    <2> USE <1>3 DEF ReleaseLeases, Deleted
    <2>1. TypeOK'
        BY SMT DEF TypeOK
    <2>2. Flocked'
        BY SMT DEF TypeOK, Flocked, Held, Holding, Opened
    <2>3. FirstInode'
        BY SMT DEF TypeOK, FirstInode, UnderLock, Known, Working, Unlocking, Opened
    <2>4. UnderLock'
        BY SMT DEF TypeOK, FirstInode, UnderLock, Held, Holding, Opened, Unlocking
    <2>5. OneOpened'
        BY SMT DEF TypeOK, OneOpened, UnderLock, Held, Holding, Opened, Unlocking
    <2>6. Held'
        BY SMT DEF TypeOK, OneOpened, UnderLock, Held, Holding, Opened, Unlocking
    <2>7. Known'
        BY SMT DEF TypeOK, UnderLock, Flocked, Held, Holding, Known, Working, Opened, Unlocking
    <2> QED
        BY <2>1, <2>2, <2>3, <2>4, <2>5, <2>6, <2>7
<1>4. CASE CleanReturns(p)
    <2> USE <1>4 DEF CleanReturns, Release
    <2>1. TypeOK'
        BY SMT DEF TypeOK
    <2>2. Flocked'
        BY SMT DEF TypeOK, Flocked, Held, Holding, Opened
    <2>3. FirstInode'
        BY SMT DEF TypeOK, FirstInode, UnderLock, Known, Working, Unlocking, Opened
    <2>4. UnderLock'
        BY SMT DEF TypeOK, FirstInode, UnderLock, Held, Holding, Opened, Unlocking
    <2>5. OneOpened'
        BY SMT DEF TypeOK, OneOpened, UnderLock, Held, Holding, Opened, Unlocking
    <2>6. Held'
        BY SMT DEF TypeOK, OneOpened, UnderLock, Held, Holding, Opened, Unlocking
    <2>7. Known'
        BY SMT DEF TypeOK, UnderLock, Flocked, Held, Holding, Known, Working, Opened, Unlocking
    <2> QED
        BY <2>1, <2>2, <2>3, <2>4, <2>5, <2>6, <2>7
<1> QED
    BY <1>1, <1>2, <1>3, <1>4

\* A save of a session.
LEMMA SaveStep ==
    ASSUME IInv, NEW p \in Procs, NEW t \in Tasks,
           CheckRevision(p, t) \/ ReplaceState(p, t)
    PROVE  IInv'
<1> USE DEF IInv, LeaseInv, disk, files, session, Goto, NoTask, Steps, Artifacts
<1>1. CASE CheckRevision(p, t)
    <2> USE <1>1 DEF CheckRevision
    <2>1. TypeOK'
        BY SMT DEF TypeOK
    <2>2. Flocked'
        BY SMT DEF TypeOK, Flocked, Held, Holding, Opened
    <2>3. FirstInode'
        BY SMT DEF TypeOK, FirstInode, UnderLock, Known, Working, Unlocking, Opened
    <2>4. UnderLock'
        BY SMT DEF TypeOK, FirstInode, UnderLock, Held, Holding, Opened, Unlocking
    <2>5. OneOpened'
        BY SMT DEF TypeOK, OneOpened, UnderLock, Held, Holding, Opened, Unlocking
    <2>6. Held'
        BY SMT DEF TypeOK, OneOpened, UnderLock, Held, Holding, Opened, Unlocking
    <2>7. Known'
        <3>1. ASSUME NEW q \in Procs, q # p PROVE Working(q)'
            BY <3>1, SMT DEF TypeOK, Known, Working, Unlocking
        <3>2. Working(p)'
            BY SMT DEF TypeOK, UnderLock, Known, Working, Opened, Unlocking
        <3> QED
            BY <3>1, <3>2, Zenon DEF Known
    <2> QED
        BY <2>1, <2>2, <2>3, <2>4, <2>5, <2>6, <2>7
<1>2. CASE ReplaceState(p, t)
    <2> USE <1>2 DEF ReplaceState
    <2>1. TypeOK'
        BY SMT DEF TypeOK
    <2>2. Flocked'
        BY SMT DEF TypeOK, Flocked, Held, Holding, Opened
    <2>3. FirstInode'
        BY SMT DEF TypeOK, FirstInode, UnderLock, Known, Working, Unlocking, Opened
    <2>4. UnderLock'
        BY SMT DEF TypeOK, FirstInode, UnderLock, Held, Holding, Opened, Unlocking
    <2>5. OneOpened'
        BY SMT DEF TypeOK, OneOpened, UnderLock, Held, Holding, Opened, Unlocking
    <2>6. Held'
        BY SMT DEF TypeOK, OneOpened, UnderLock, Held, Holding, Opened, Unlocking
    <2>7. Known'
        BY SMT DEF TypeOK, UnderLock, Flocked, Held, Holding, Known, Working, Opened, Unlocking
    <2> QED
        BY <2>1, <2>2, <2>3, <2>4, <2>5, <2>6, <2>7
<1> QED
    BY <1>1, <1>2

\* Deleting the artifacts and the state file.
LEMMA DeleteStep ==
    ASSUME IInv, NEW p \in Procs, NEW t \in Tasks,
           RemoveArtifact(p, t) \/ DeleteState(p, t)
    PROVE  IInv'
<1> USE DEF IInv, LeaseInv, disk, files, session, Goto, NoTask, Steps, Artifacts
<1>1. CASE RemoveArtifact(p, t)
    <2> USE <1>1 DEF RemoveArtifact, Candidate, SomeLeft
    <2>1. TypeOK'
        BY SMT DEF TypeOK
    <2>2. Flocked'
        BY SMT DEF TypeOK, Flocked, Held, Holding, Opened
    <2>3. FirstInode'
        BY SMT DEF TypeOK, FirstInode, UnderLock, Known, Working, Unlocking, Opened
    <2>4. UnderLock'
        BY SMT DEF TypeOK, FirstInode, UnderLock, Held, Holding, Opened, Unlocking
    <2>5. OneOpened'
        BY SMT DEF TypeOK, OneOpened, UnderLock, Held, Holding, Opened, Unlocking
    <2>6. Held'
        BY SMT DEF TypeOK, OneOpened, UnderLock, Held, Holding, Opened, Unlocking
    <2>7. Known'
        BY SMT DEF TypeOK, UnderLock, Flocked, Held, Holding, Known, Working, Opened, Unlocking
    <2> QED
        BY <2>1, <2>2, <2>3, <2>4, <2>5, <2>6, <2>7
<1>2. CASE DeleteState(p, t)
    <2> USE <1>2 DEF DeleteState, Candidate, ReadyToGo
    <2>1. TypeOK'
        BY SMT DEF TypeOK
    <2>2. Flocked'
        BY SMT DEF TypeOK, Flocked, Held, Holding, Opened
    <2>3. FirstInode'
        BY SMT DEF TypeOK, FirstInode, UnderLock, Known, Working, Unlocking, Opened
    <2>4. UnderLock'
        BY SMT DEF TypeOK, FirstInode, UnderLock, Held, Holding, Opened, Unlocking
    <2>5. OneOpened'
        BY SMT DEF TypeOK, OneOpened, UnderLock, Held, Holding, Opened, Unlocking
    <2>6. Held'
        BY SMT DEF TypeOK, OneOpened, UnderLock, Held, Holding, Opened, Unlocking
    <2>7. Known'
        <3>1. ASSUME NEW q \in Procs, q # p PROVE t \notin loaded[q]
            BY <3>1, OneSession, SMT DEF Known, Working
        <3>2. ASSUME NEW q \in Procs PROVE Working(q)'
            BY <3>1, SMT DEF TypeOK, Known, Working, Unlocking
        <3> QED
            BY <3>2, Zenon DEF Known
    <2> QED
        BY <2>1, <2>2, <2>3, <2>4, <2>5, <2>6, <2>7
<1> QED
    BY <1>1, <1>2

\* Unlinking the lock file once the state file is gone.
LEMMA IdleLockStep ==
    ASSUME IInv, NEW p \in Procs, NEW t \in Tasks,
           OpenIdle(p, t) \/ SkipLock(p, t) \/ FlockIdle(p, t) \/ Inspect(p, t) \/ Unlink(p, t)
    PROVE  IInv'
<1> USE DEF IInv, LeaseInv, disk, files, session, Goto, NoTask, Steps, Artifacts
<1>1. CASE OpenIdle(p, t)
    <2> USE <1>1 DEF OpenIdle
    <2>1. TypeOK'
        BY SMT DEF TypeOK
    <2>2. Flocked'
        BY SMT DEF TypeOK, Flocked, Held, Holding, Opened
    <2>3. FirstInode'
        BY SMT DEF TypeOK, FirstInode, UnderLock, Known, Working, Unlocking, Opened
    <2>4. UnderLock'
        BY SMT DEF TypeOK, FirstInode, UnderLock, Held, Holding, Opened, Unlocking
    <2>5. OneOpened'
        BY SMT DEF TypeOK, OneOpened, UnderLock, Held, Holding, Opened, Unlocking
    <2>6. Held'
        BY SMT DEF TypeOK, OneOpened, UnderLock, Held, Holding, Opened, Unlocking
    <2>7. Known'
        BY SMT DEF TypeOK, UnderLock, Flocked, Held, Holding, Known, Working, Opened, Unlocking
    <2> QED
        BY <2>1, <2>2, <2>3, <2>4, <2>5, <2>6, <2>7
<1>2. CASE SkipLock(p, t)
    <2> USE <1>2 DEF SkipLock
    <2>1. TypeOK'
        BY SMT DEF TypeOK
    <2>2. Flocked'
        BY SMT DEF TypeOK, Flocked, Held, Holding, Opened
    <2>3. FirstInode'
        BY SMT DEF TypeOK, FirstInode, UnderLock, Known, Working, Unlocking, Opened
    <2>4. UnderLock'
        BY SMT DEF TypeOK, FirstInode, UnderLock, Held, Holding, Opened, Unlocking
    <2>5. OneOpened'
        BY SMT DEF TypeOK, OneOpened, UnderLock, Held, Holding, Opened, Unlocking
    <2>6. Held'
        <3>1. ASSUME NEW q \in Procs, q # p PROVE Holding(q)'
            BY <3>1, SMT DEF TypeOK, Held, Holding, Opened, Unlocking
        <3>2. Holding(p)'
            BY SMT DEF TypeOK, OneOpened, Held, Holding, Opened, Unlocking
        <3> QED
            BY <3>1, <3>2, Zenon DEF Held
    <2>7. Known'
        BY SMT DEF TypeOK, UnderLock, Flocked, Held, Holding, Known, Working, Opened, Unlocking
    <2> QED
        BY <2>1, <2>2, <2>3, <2>4, <2>5, <2>6, <2>7
<1>3. CASE FlockIdle(p, t)
    <2> USE <1>3 DEF FlockIdle, Granted
    <2>1. TypeOK'
        BY SMT DEF TypeOK
    <2>2. Flocked'
        BY SMT DEF TypeOK, Flocked, Held, Holding, Opened
    <2>3. FirstInode'
        BY SMT DEF TypeOK, FirstInode, UnderLock, Known, Working, Unlocking, Opened
    <2>4. UnderLock'
        BY SMT DEF TypeOK, FirstInode, UnderLock, Held, Holding, Opened, Unlocking
    <2>5. OneOpened'
        BY SMT DEF TypeOK, OneOpened, UnderLock, Held, Holding, Opened, Unlocking
    <2>6. Held'
        BY SMT DEF TypeOK, OneOpened, UnderLock, Held, Holding, Opened, Unlocking
    <2>7. Known'
        BY SMT DEF TypeOK, UnderLock, Flocked, Held, Holding, Known, Working, Opened, Unlocking
    <2> QED
        BY <2>1, <2>2, <2>3, <2>4, <2>5, <2>6, <2>7
<1>4. CASE Inspect(p, t)
    <2> USE <1>4 DEF Inspect
    <2>1. TypeOK'
        BY SMT DEF TypeOK
    <2>2. Flocked'
        BY SMT DEF TypeOK, Flocked, Held, Holding, Opened
    <2>3. FirstInode'
        BY SMT DEF TypeOK, FirstInode, UnderLock, Known, Working, Unlocking, Opened
    <2>4. UnderLock'
        BY SMT DEF TypeOK, FirstInode, UnderLock, Held, Holding, Opened, Unlocking
    <2>5. OneOpened'
        BY SMT DEF TypeOK, OneOpened, UnderLock, Held, Holding, Opened, Unlocking
    <2>6. Held'
        BY SMT DEF TypeOK, OneOpened, UnderLock, Held, Holding, Opened, Unlocking
    <2>7. Known'
        BY SMT DEF TypeOK, UnderLock, Flocked, Held, Holding, Known, Working, Opened, Unlocking
    <2> QED
        BY <2>1, <2>2, <2>3, <2>4, <2>5, <2>6, <2>7
<1>5. CASE Unlink(p, t)
    <2> USE <1>5 DEF Unlink
    <2>1. TypeOK'
        BY SMT DEF TypeOK
    <2>2. Flocked'
        BY SMT DEF TypeOK, Flocked, Held, Holding, Opened
    <2>3. FirstInode'
        BY SMT DEF TypeOK, FirstInode, UnderLock, Known, Working, Unlocking, Opened
    <2>4. UnderLock'
        BY SMT DEF TypeOK, FirstInode, UnderLock, Held, Holding, Opened, Unlocking
    <2>5. OneOpened'
        BY SMT DEF TypeOK, OneOpened, UnderLock, Held, Holding, Opened, Unlocking
    <2>6. Held'
        <3>1. ASSUME NEW q \in Procs, q # p PROVE Holding(q)'
            BY <3>1, SMT DEF TypeOK, Held, Holding, Opened, Unlocking
        <3>2. \A u \in Tasks : ~Opened(p, u)'
            BY SMT DEF TypeOK, OneOpened, Held, Holding, Opened, Unlocking
        <3>3. ASSUME NEW u \in locks'[p] PROVE FALSE
            BY <3>3, SMT DEF TypeOK, OneOpened, Known, Working, Held, Holding, Unlocking
        <3>4. pc'[p] = "unlock" /\ loaded'[p] = {}
            BY SMT DEF TypeOK, Held, Holding, Unlocking
        <3>5. Holding(p)'
            BY <3>2, <3>3, <3>4, Zenon DEF Holding, Unlocking
        <3> QED
            BY <3>1, <3>5, Zenon DEF Held
    <2>7. Known'
        BY SMT DEF TypeOK, UnderLock, Flocked, Held, Holding, Known, Working, Opened, Unlocking
    <2> QED
        BY <2>1, <2>2, <2>3, <2>4, <2>5, <2>6, <2>7
<1> QED
    BY <1>1, <1>2, <1>3, <1>4, <1>5

LEMMA NextIInv == IInv /\ [Next]_vars => IInv'
<1> SUFFICES ASSUME IInv, [Next]_vars PROVE IInv'
    OBVIOUS
<1>1. CASE UNCHANGED vars
    <2> USE <1>1 DEF vars, disk, files, session, IInv, LeaseInv, Opened
    <2>1. TypeOK' /\ Flocked' /\ FirstInode'
        BY DEF TypeOK, Flocked, FirstInode
    <2>2. UnderLock' /\ OneOpened'
        BY DEF UnderLock, OneOpened
    <2>3. Held' /\ Known'
        BY DEF Held, Holding, Known, Working
    <2> QED
        BY <2>1, <2>2, <2>3
<1>2. ASSUME NEW p \in Procs, NEW t \in Tasks,
             \/ Preview(p, t) \/ Lease(p, t) \/ Delete(p, t) \/ DeleteIdleLock(p, t)
             \/ StartSession(p, t) \/ Save(p, t)
      PROVE  IInv'
    BY <1>2, JobStep, LeaseStep, RefusalStep, SaveStep, DeleteStep, IdleLockStep
       DEF Lease, Delete, DeleteIdleLock, Save
<1>3. ASSUME NEW p \in Procs,
             Confirm(p) \/ ReleaseLeases(p) \/ CleanReturns(p) \/ Leave(p)
      PROVE  IInv'
    BY <1>3, WholeStep
<1>4. CASE Next
    BY <1>2, <1>3, <1>4 DEF Next, Clean
<1> QED
    BY <1>1, <1>4

THEOREM Invariance == Spec => []IInv
BY InitIInv, NextIInv, PTL DEF Spec

-----------------------------------------------------------------------------

\* The state stays within its types, for any number of processes and tasks.
THEOREM TypeCorrect == Spec => []TypeOK
<1>1. IInv => TypeOK
    BY DEF IInv
<1> QED
    BY <1>1, Invariance, PTL

\* Leases exclude each other, although lock files are unlinked.
THEOREM LeasesExclude == Spec => []Exclusive
<1>1. IInv => Exclusive
    BY OneSession, Zenon DEF IInv, Exclusive
<1> QED
    BY <1>1, Invariance, PTL

\* clean deletes no task that changed after it was shown to the user.
THEOREM CleanDeletesWhatItShowed == Spec => []DeletesAsPreviewed
<1>1. IInv => DeletesAsPreviewed
    BY SMT DEF IInv, Known, Working, DeletesAsPreviewed
<1> QED
    BY <1>1, Invariance, PTL

\* The state file of a task is the last thing of it to be deleted.
THEOREM StateGoesLast == Spec => []NothingOrphaned
<1>1. Init => NothingOrphaned
    BY SMT DEF Init, NothingOrphaned
<1>2. ASSUME IInv, NothingOrphaned, NEW p \in Procs, NEW t \in Tasks,
             RemoveArtifact(p, t) \/ DeleteState(p, t) \/ ReplaceState(p, t)
      PROVE  NothingOrphaned'
    BY <1>2, SMT
       DEF RemoveArtifact, DeleteState, ReplaceState, Candidate, SomeLeft, ReadyToGo,
           NothingOrphaned, IInv, TypeOK, Artifacts
<1>3. ASSUME NothingOrphaned, UNCHANGED <<present, left>> PROVE NothingOrphaned'
    BY <1>3 DEF NothingOrphaned
<1>4. IInv /\ NothingOrphaned /\ [Next]_vars => NothingOrphaned'
    <2> SUFFICES ASSUME IInv, NothingOrphaned, [Next]_vars PROVE NothingOrphaned'
        OBVIOUS
    <2>1. CASE UNCHANGED vars
        BY <1>3, <2>1 DEF vars, disk
    <2>2. ASSUME NEW p \in Procs, Clean(p) \/ Leave(p) PROVE NothingOrphaned'
        BY <1>2, <1>3, <2>2, Zenon
           DEF Clean, Leave, Confirm, ReleaseLeases, CleanReturns, Preview, Lease, Open,
               Flock, Busy, Load, LoadFails, Delete, DeleteIdleLock, OpenIdle, SkipLock,
               FlockIdle, Inspect, Unlink, disk
    <2>3. ASSUME NEW p \in Procs, NEW t \in Tasks, StartSession(p, t) \/ Save(p, t)
          PROVE  NothingOrphaned'
        BY <1>2, <1>3, <2>3, Zenon DEF StartSession, Save, CheckRevision, disk
    <2> QED
        BY <2>1, <2>2, <2>3, Zenon DEF Next
<1> QED
    BY <1>1, <1>4, Invariance, PTL DEF Spec

\* Whatever other processes do between its check and its replacement, a save
\* replaces the revision it checked, of a task that still exists.
THEOREM NoUpdateIsLost == Spec => UpdatesNotLost
<1> DEFINE Kept == \A p \in Procs, t \in Tasks :
                      ReplaceState(p, t) => t \in present /\ rev[t] = mem[p][t]
<1>1. ASSUME IInv, NEW p \in Procs, NEW t \in Tasks, ReplaceState(p, t)
      PROVE  t \in present /\ rev[t] = mem[p][t]
    BY <1>1, SMT DEF ReplaceState, IInv, Known, Working
<1>2. IInv => [Kept]_vars
    BY <1>1
<1> QED
    BY <1>2, Invariance, PTL DEF Spec, UpdatesNotLost

-----------------------------------------------------------------------------
(* Two cleans do not refuse each other.                                    *)

\* A process takes its leases in the order of the tasks.
InOrder(p) ==
    /\ pc[p] \in {"open", "flock", "load"} =>
           \A t \in loaded[p] : \A u \in job[p] \ loaded[p] : t < u
    /\ pc[p] \in {"flock", "load"} => \A t \in Tasks : Opened(p, t) => Chosen(p, t)

Ordered == \A p \in Procs : InOrder(p)

LEMMA OrderUntouched ==
    ASSUME Ordered, NEW q \in Procs,
           pc'[q] = pc[q], job'[q] = job[q], loaded'[q] = loaded[q], fd'[q] = fd[q]
    PROVE  InOrder(q)'
BY Zenon DEF Ordered, InOrder, Opened, Chosen

LEMMA OrderOfNoMatter ==
    ASSUME NEW q \in Procs, pc'[q] \notin {"open", "flock", "load"}
    PROVE  InOrder(q)'
BY Zenon DEF InOrder

\* The steps that end with nothing leased, or with every lease in place.
LEMMA AwayKeepsOrder ==
    ASSUME TypeOK, Ordered, NEW p \in Procs, NEW step \in Steps \ {"open", "flock", "load"},
           Goto(p, step),
           \A q \in Procs \ {p} :
               job'[q] = job[q] /\ loaded'[q] = loaded[q] /\ fd'[q] = fd[q]
    PROVE  Ordered'
<1> SUFFICES ASSUME NEW q \in Procs PROVE InOrder(q)'
    BY DEF Ordered
<1>1. CASE q = p
    <2>1. pc'[p] = step
        BY DEF Goto, TypeOK
    <2> QED
        BY <1>1, <2>1, OrderOfNoMatter
<1>2. CASE q # p
    <2>1. pc'[q] = pc[q]
        BY <1>2 DEF Goto, TypeOK
    <2> QED
        BY <1>2, <2>1, OrderUntouched
<1> QED
    BY <1>1, <1>2

LEMMA ReleaseKeepsOrder ==
    ASSUME TypeOK, Ordered, NEW p \in Procs, Release(p)
    PROVE  Ordered'
<1>1. \A q \in Procs \ {p} : job'[q] = job[q] /\ loaded'[q] = loaded[q] /\ fd'[q] = fd[q]
    BY DEF Release, TypeOK
<1>2. Goto(p, "idle")
    BY DEF Release
<1> QED
    BY <1>1, <1>2, AwayKeepsOrder DEF Steps

LEMMA LoadKeepsOrder ==
    ASSUME IInv, Ordered, NEW p \in Procs, NEW t \in Tasks, Load(p, t)
    PROVE  Ordered'
<1> USE DEF IInv
<1> SUFFICES ASSUME NEW q \in Procs PROVE InOrder(q)'
    BY DEF Ordered
<1>1. /\ pc[p] = "load" /\ Opened(p, t)
      /\ loaded'[p] = loaded[p] \cup {t} /\ job' = job /\ fd' = fd
      /\ pc'[p] \in {"work", "delete", "open"}
    BY DEF Load, Goto, TypeOK
<1>2. Chosen(p, t) /\ t \in job[p] \ loaded[p]
    BY <1>1 DEF Ordered, InOrder, Opened
<1>3. ASSUME NEW v \in loaded'[p], NEW u \in job'[p] \ loaded'[p] PROVE v < u
    <2>1. u \in job[p] \ loaded[p] /\ u # t
        BY <1>1, <1>3
    <2>2. t \in Nat /\ u \in Nat /\ t <= u
        BY <1>2, <2>1, TasksAssumption DEF Chosen, TypeOK
    <2>3. CASE v = t
        BY <2>1, <2>2, <2>3, SMT
    <2>4. CASE v \in loaded[p]
        BY <1>1, <2>1, <2>4 DEF Ordered, InOrder
    <2> QED
        BY <1>1, <1>3, <2>3, <2>4
<1>4. CASE q = p
    BY <1>1, <1>3, <1>4 DEF InOrder
<1>5. CASE q # p
    <2>1. pc'[q] = pc[q] /\ loaded'[q] = loaded[q]
        BY <1>5 DEF Load, Goto, TypeOK
    <2> QED
        BY <1>1, <2>1, OrderUntouched
<1> QED
    BY <1>4, <1>5

LEMMA LeaseKeepsOrder ==
    ASSUME IInv, Ordered, NEW p \in Procs, NEW t \in Tasks, Lease(p, t)
    PROVE  Ordered'
<1> USE TasksAssumption DEF IInv, LeaseInv, TypeOK, Goto, session, files, disk
<1>1. CASE Open(p, t)
    BY <1>1, SMT DEF Open, Ordered, InOrder, Opened, Chosen, Held, Holding
<1>2. CASE Flock(p, t)
    BY <1>2, SMT DEF Flock, Ordered, InOrder, Opened, Chosen
<1>3. CASE Busy(p, t)
    BY <1>3, ReleaseKeepsOrder DEF Busy
<1>4. CASE LoadFails(p, t)
    BY <1>4, ReleaseKeepsOrder DEF LoadFails
<1> QED
    BY <1>1, <1>2, <1>3, <1>4, LoadKeepsOrder DEF Lease

LEMMA OthersKeepOrder ==
    ASSUME IInv, Ordered, NEW p \in Procs, NEW t \in Tasks,
           \/ Preview(p, t) \/ Delete(p, t) \/ DeleteIdleLock(p, t)
           \/ StartSession(p, t) \/ Save(p, t)
    PROVE  Ordered'
<1> USE DEF IInv
<1>1. CASE Preview(p, t)
    <2>1. Goto(p, "preview")
        BY <1>1 DEF Preview
    <2>2. \A q \in Procs \ {p} : job'[q] = job[q] /\ loaded'[q] = loaded[q] /\ fd'[q] = fd[q]
        BY <1>1 DEF Preview, session, TypeOK
    <2> QED
        BY <2>1, <2>2, AwayKeepsOrder DEF Steps
<1>2. CASE StartSession(p, t)
    <2>1. loaded'[p] = {} /\ pc'[p] = "open"
        BY <1>2 DEF StartSession, session, Goto, TypeOK, LeaseInv, Held, Holding
    <2>2. InOrder(p)'
        BY <2>1 DEF InOrder
    <2>3. ASSUME NEW q \in Procs, q # p PROVE InOrder(q)'
        BY <1>2, <2>3, OrderUntouched DEF StartSession, session, Goto, TypeOK
    <2> QED
        BY <2>2, <2>3 DEF Ordered
<1>3. CASE Delete(p, t) \/ CheckRevision(p, t) \/ ReplaceState(p, t)
    <2>1. UNCHANGED <<job, loaded, fd>>
        BY <1>3 DEF Delete, RemoveArtifact, DeleteState, CheckRevision, ReplaceState, session
    <2>2. CASE Delete(p, t)
        <3>1. pc' = pc
            BY <2>2 DEF Delete, RemoveArtifact, DeleteState
        <3> QED
            BY <2>1, <3>1, OrderUntouched DEF Ordered
    <2>3. CASE CheckRevision(p, t)
        BY <2>1, <2>3, AwayKeepsOrder DEF Steps, CheckRevision
    <2>4. CASE ReplaceState(p, t)
        BY <2>1, <2>4, AwayKeepsOrder DEF Steps, ReplaceState
    <2> QED
        BY <1>3, <2>2, <2>3, <2>4
<1>4. CASE DeleteIdleLock(p, t)
    <2>1. \A q \in Procs \ {p} : job'[q] = job[q] /\ loaded'[q] = loaded[q] /\ fd'[q] = fd[q]
        BY <1>4 DEF DeleteIdleLock, OpenIdle, SkipLock, FlockIdle, Inspect, Unlink,
                    session, TypeOK
    <2>2. \/ Goto(p, "idleFlock") \/ Goto(p, "unlock") \/ Goto(p, "inspect")
          \/ Goto(p, "unlink")
        BY <1>4 DEF DeleteIdleLock, OpenIdle, SkipLock, FlockIdle, Inspect, Unlink
    <2> QED
        BY <2>1, <2>2, AwayKeepsOrder DEF Steps
<1> QED
    BY <1>1, <1>2, <1>3, <1>4 DEF Save

LEMMA WholeKeepsOrder ==
    ASSUME IInv, Ordered, NEW p \in Procs,
           Confirm(p) \/ ReleaseLeases(p) \/ CleanReturns(p) \/ Leave(p)
    PROVE  Ordered'
<1> USE DEF IInv
<1>1. CASE Confirm(p)
    <2>1. loaded'[p] = {} /\ pc'[p] = "open"
        BY <1>1 DEF Confirm, session, Goto, TypeOK, LeaseInv, Held, Holding
    <2>2. InOrder(p)'
        BY <2>1 DEF InOrder
    <2>3. ASSUME NEW q \in Procs, q # p PROVE InOrder(q)'
        BY <1>1, <2>3, OrderUntouched DEF Confirm, session, Goto, TypeOK
    <2> QED
        BY <2>2, <2>3 DEF Ordered
<1>2. CASE ReleaseLeases(p)
    <2>1. \A q \in Procs \ {p} : job'[q] = job[q] /\ loaded'[q] = loaded[q] /\ fd'[q] = fd[q]
        BY <1>2 DEF ReleaseLeases, TypeOK
    <2>2. Goto(p, "unlock")
        BY <1>2 DEF ReleaseLeases
    <2> QED
        BY <2>1, <2>2, AwayKeepsOrder DEF Steps
<1>3. CASE CleanReturns(p)
    BY <1>3, ReleaseKeepsOrder DEF CleanReturns
<1>4. CASE Leave(p)
    BY <1>4, ReleaseKeepsOrder DEF Leave
<1> QED
    BY <1>1, <1>2, <1>3, <1>4

\* Two cleans with overlapping selections never refuse each other, for any
\* number of processes and tasks: leases are taken in the order of the tasks.
THEOREM CleansAgree == Spec => []NoMutualRefusal
<1>1. Init => Ordered
    <2>1. Init => \A q \in Procs : pc[q] = "idle"
        BY DEF Init
    <2> QED
        BY <2>1, Zenon DEF Ordered, InOrder
<1>2. IInv /\ Ordered /\ [Next]_vars => Ordered'
    <2> SUFFICES ASSUME IInv, Ordered, [Next]_vars PROVE Ordered'
        OBVIOUS
    <2>1. CASE UNCHANGED vars
        BY <2>1 DEF vars, disk, files, session, Ordered, InOrder, Opened, Chosen
    <2>2. ASSUME NEW p \in Procs, Clean(p) \/ Leave(p) PROVE Ordered'
        BY <2>2, LeaseKeepsOrder, OthersKeepOrder, WholeKeepsOrder DEF Clean
    <2>3. ASSUME NEW p \in Procs, NEW t \in Tasks, StartSession(p, t) \/ Save(p, t)
          PROVE  Ordered'
        BY <2>3, OthersKeepOrder
    <2> QED
        BY <2>1, <2>2, <2>3 DEF Next
<1>3. IInv /\ Ordered => NoMutualRefusal
    <2> SUFFICES ASSUME IInv, Ordered, NEW p \in Procs, NEW q \in Procs, p # q,
                        NEW t \in Tasks, NEW u \in Tasks,
                        Refuses(q, p, t), Refuses(p, q, u)
                 PROVE  FALSE
        BY DEF NoMutualRefusal
    <2>1. t \in loaded[q] /\ u \in loaded[p]
        BY DEF Refuses, IInv, LeaseInv, Held, Holding
    <2>2. t \in job[p] \ loaded[p] /\ u \in job[q] \ loaded[q]
        BY DEF Refuses, Opened
    <2>3. u < t /\ t < u
        BY <2>1, <2>2 DEF Refuses, Ordered, InOrder
    <2> QED
        BY <2>3, TasksAssumption
<1> QED
    BY <1>1, <1>2, <1>3, Invariance, PTL DEF Spec

=============================================================================
