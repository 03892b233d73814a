-------------------------- MODULE SandboxRunProofs --------------------------
(* Proofs about sandbox runs, for every output limit, every amount of      *)
(* output and any number of interruptions: a result is truthful, and a     *)
(* forced removal that was answered leaves nothing that could still run.   *)
EXTENDS SandboxRun, TLAPS

Typed ==
    /\ captured \in Nat /\ read \in Nat /\ written \in Nat /\ produced \in Nat
    /\ client \in Live \cup {"none", "exited"}
    /\ container \in {"absent", "created", "running", "exited"}
    /\ rc \in {"none", "zero", "nonzero", "docker", "signal", "unknown"}
    /\ handler \in {"none", "cancel", "escape"}
    /\ status \in {"none", "zero", "nonzero"}

\* Nothing of Docker moves before the client is started.
NotStarted ==
    pc \in {"create", "seal", "check", "spawn"} =>
        /\ client = "none" /\ rc = "none" /\ request = "none"
        /\ container = "absent" /\ status = "none" /\ removal = "none"

\* A command that ended stays ended: no request can start it again.
CommandOver ==
    /\ container = "running" => request = "none"
    /\ status # "none" => container \in {"exited", "absent"} /\ request = "none"

\* A return code of the command is told only when all is in the pipe.
ClientTruthful ==
    /\ rc \in {"zero", "nonzero"} => rc = status
    /\ rc = "zero" => written = produced
    /\ rc \notin {"none"} <=> client = "exited"

\* A removal comes after the client, so that a start request still on its
\* way finds no container and a late create request starts nothing.
RemovalFinal ==
    /\ pc \in {"remove", "result", "report"} => client \notin Live
    /\ removal = "done" =>
           /\ client \notin Live /\ container # "running"
           /\ request = "start" => container = "absent"

\* What the pump kept, and that it stops only at the end of the pipe.
Pumped ==
    /\ captured = IF read <= Limit THEN read ELSE Limit
    /\ limited => read > Limit
    /\ ~limited => read <= Limit
    /\ ~registered /\ pc \in Running \cup {"result"} =>
           client = "exited" /\ read = written

\* The four ways to the end of the loop.
LoopLeft ==
    /\ pc \in {"kill", "killClient"} => timedOut \/ limited \/ handler # "none"
    /\ pc \in {"wait", "remove", "result"} =>
           \/ timedOut \/ limited \/ handler # "none"
           \/ client = "exited" /\ ~registered
    /\ pc = "result" => handler # "escape"
    /\ rc = "signal" => timedOut \/ limited \/ handler # "none"

Reported ==
    /\ outcome # "none" => pc \in {"report", "close", "discard", "done"}
    /\ ResultIsTruthful

IInv ==
    /\ Typed /\ NotStarted /\ CommandOver /\ ClientTruthful
    /\ RemovalFinal /\ Pumped /\ LoopLeft /\ Reported

\* A run starts with nothing of Docker in motion.
LEMMA InitIInv == Init => IInv
    BY LimitsAssumption, SMT DEF Init, IInv, Typed, NotStarted, CommandOver,
       ClientTruthful, RemovalFinal, Pumped, LoopLeft, Reported,
       ResultIsTruthful, Live, Running

\* The minimum of two counts, as the pump uses it.
LEMMA MinOfTwo ==
    ASSUME NEW a \in Int, NEW b \in Int
    PROVE  Min({a, b}) = IF a <= b THEN a ELSE b
    BY SMT DEF Min

\* The command before and after the runner.
LEMMA CommandStep ==
    ASSUME IInv, CreateWorkspace \/ Seal \/ Check \/ Spawn \/ Report \/ Close \/ Discard
    PROVE  IInv'
<1> USE LimitsAssumption DEF IInv, Typed, NotStarted, CommandOver, ClientTruthful,
        RemovalFinal, Pumped, LoopLeft, Reported, ResultIsTruthful, Live, Running,
        flags, pump, docker, ends, controller
<1>1. CASE CreateWorkspace
    BY <1>1, SMT DEF CreateWorkspace
<1>2. CASE Seal
    BY <1>2, SMT DEF Seal
<1>3. CASE Check
    BY <1>3, SMT DEF Check
<1>4. CASE Spawn
    BY <1>4, SMT DEF Spawn
<1>5. CASE Report
    BY <1>5, SMT DEF Report
<1>6. CASE Close
    BY <1>6, SMT DEF Close
<1>7. CASE Discard
    BY <1>7, SMT DEF Discard
<1> QED
    BY <1>1, <1>2, <1>3, <1>4, <1>5, <1>6, <1>7

\* The pump of the runner.
LEMMA PumpStep ==
    ASSUME IInv, Arm \/ Deadline \/ ReadChunk \/ ReadEof \/ SelectReturnsNothing \/ Poll
    PROVE  IInv'
<1> USE LimitsAssumption DEF IInv, Typed, NotStarted, CommandOver, ClientTruthful,
        RemovalFinal, Pumped, LoopLeft, Reported, ResultIsTruthful, Live, Running,
        flags, pump, docker, ends, controller
<1>1. CASE Arm
    BY <1>1, SMT DEF Arm
<1>2. CASE Deadline
    BY <1>2, SMT DEF Deadline, Expired
<1>3. CASE ReadChunk
    <2> USE <1>3 DEF ReadChunk, Expired
    <2>1. PICK n \in 1 .. written - read : read' = read + n /\ captured' = Kept(n)
        OBVIOUS
    <2>2. n \in Nat /\ captured' = IF captured + n <= Limit THEN captured + n ELSE Limit
        BY <2>1, MinOfTwo DEF Kept
    <2> HIDE DEF ReadChunk
    <2>3. UNCHANGED <<timedOut, handler, registered, ends, docker>> /\ registered
          /\ pc = "loop" /\ pc' \in {"kill", "poll"}
          /\ (pc' = "kill" => limited')
        BY SMT DEF ReadChunk
    <2>4. (limited' => read' > Limit) /\ (~limited' => ~(read' > Limit))
        BY Zenon DEF ReadChunk
    <2> HIDE <1>3
    <2>5. Typed' BY <2>1, <2>2, <2>3, <2>4, SMT
    <2>6. NotStarted' BY <2>1, <2>2, <2>3, <2>4, SMT
    <2>7. CommandOver' BY <2>1, <2>2, <2>3, <2>4, SMT
    <2>8. ClientTruthful' BY <2>1, <2>2, <2>3, <2>4, SMT
    <2>9. RemovalFinal' BY <2>1, <2>2, <2>3, <2>4, SMT
    <2>10. Pumped' BY <2>1, <2>2, <2>3, <2>4, SMT
    <2>11. LoopLeft' BY <2>1, <2>2, <2>3, <2>4, SMT
    <2>12. Reported' BY <2>1, <2>2, <2>3, <2>4, SMT
    <2> QED
        BY <2>5, <2>6, <2>7, <2>8, <2>9, <2>10, <2>11, <2>12
<1>4. CASE ReadEof
    BY <1>4, SMT DEF ReadEof, Expired, AtEof
<1>5. CASE SelectReturnsNothing
    BY <1>5, SMT DEF SelectReturnsNothing, Expired
<1>6. CASE Poll
    BY <1>6, SMT DEF Poll, Drained
<1> QED
    BY <1>1, <1>2, <1>3, <1>4, <1>5, <1>6

\* The end of the runner.
LEMMA EndStep ==
    ASSUME IInv, KillContainer \/ KillClient \/ Wait \/ RemoveContainer \/ Result
    PROVE  IInv'
<1> USE LimitsAssumption DEF IInv, Typed, NotStarted, CommandOver, ClientTruthful,
        RemovalFinal, Pumped, LoopLeft, Reported, ResultIsTruthful, Live, Running,
        flags, pump, docker, ends, controller
<1>1. CASE KillContainer
    BY <1>1, SMT DEF KillContainer
<1>2. CASE KillClient
    BY <1>2, SMT DEF KillClient, Killed
<1>3. CASE Wait
    BY <1>3, SMT DEF Wait, Killed
<1>4. CASE RemoveContainer
    <2> USE <1>4 DEF RemoveContainer, Removed, Forced
    <2>1. Typed' BY SMT
    <2>2. NotStarted' BY SMT
    <2>3. CommandOver' BY SMT
    <2>4. ClientTruthful' BY SMT
    <2>5. RemovalFinal' BY SMT
    <2>6. Pumped' BY SMT
    <2>7. LoopLeft' BY SMT
    <2>8. Reported' BY SMT
    <2> QED
        BY <2>1, <2>2, <2>3, <2>4, <2>5, <2>6, <2>7, <2>8
<1>5. CASE Result
    <2> USE <1>5 DEF Result, Outcome
    <2>1. Typed' BY SMT
    <2>2. NotStarted' BY SMT
    <2>3. CommandOver' BY SMT
    <2>4. ClientTruthful' BY SMT
    <2>5. RemovalFinal' BY SMT
    <2>6. Pumped' BY SMT
    <2>7. LoopLeft' BY SMT
    <2>8. Reported' BY SMT
    <2> QED
        BY <2>1, <2>2, <2>3, <2>4, <2>5, <2>6, <2>7, <2>8
<1> QED
    BY <1>1, <1>2, <1>3, <1>4, <1>5

\* Ctrl-C.
LEMMA InterruptStep ==
    ASSUME IInv, InterruptPump \/ InterruptHandler \/ InterruptOutside \/ InterruptCommand
    PROVE  IInv'
<1> USE LimitsAssumption DEF IInv, Typed, NotStarted, CommandOver, ClientTruthful,
        RemovalFinal, Pumped, LoopLeft, Reported, ResultIsTruthful, Live, Running,
        flags, pump, docker, ends, controller
<1>1. CASE InterruptPump
    BY <1>1, SMT DEF InterruptPump
<1>2. CASE InterruptHandler
    BY <1>2, SMT DEF InterruptHandler
<1>3. CASE InterruptOutside
    BY <1>3, SMT DEF InterruptOutside
<1>4. CASE InterruptCommand
    BY <1>4, SMT DEF InterruptCommand
<1> QED
    BY <1>1, <1>2, <1>3, <1>4

\* Docker and the clock.
LEMMA DockerStep ==
    ASSUME IInv,
           \/ Tick \/ DaemonCreates \/ ClientStarts \/ DaemonStarts \/ DaemonRefuses
           \/ CommandWrites \/ CommandEnds \/ DaemonCleansUp
           \/ ClientCopies \/ ClientExits \/ ClientFails
    PROVE  IInv'
<1> USE LimitsAssumption DEF IInv, Typed, NotStarted, CommandOver, ClientTruthful,
        RemovalFinal, Pumped, LoopLeft, Reported, ResultIsTruthful, Live, Running,
        flags, pump, docker, ends, controller
<1>1. CASE Tick
    BY <1>1, SMT DEF Tick
<1>2. CASE DaemonCreates
    BY <1>2, SMT DEF DaemonCreates
<1>3. CASE ClientStarts
    BY <1>3, SMT DEF ClientStarts
<1>4. CASE DaemonStarts
    BY <1>4, SMT DEF DaemonStarts
<1>5. CASE DaemonRefuses
    BY <1>5, SMT DEF DaemonRefuses
<1>6. CASE CommandWrites
    BY <1>6, SMT DEF CommandWrites
<1>7. CASE CommandEnds
    BY <1>7, SMT DEF CommandEnds
<1>8. CASE DaemonCleansUp
    BY <1>8, SMT DEF DaemonCleansUp
<1>9. CASE ClientCopies
    BY <1>9, SMT DEF ClientCopies
<1>10. CASE ClientExits
    BY <1>10, SMT DEF ClientExits
<1>11. CASE ClientFails
    BY <1>11, SMT DEF ClientFails
<1> QED
    BY <1>1, <1>2, <1>3, <1>4, <1>5, <1>6, <1>7, <1>8, <1>9, <1>10, <1>11

\* The invariant holds in every reachable state of a run.
THEOREM Invariance == Spec => []IInv
<1>1. Init => IInv
    BY InitIInv
<1>2. IInv /\ [Next]_vars => IInv'
    <2> SUFFICES ASSUME IInv, [Next]_vars PROVE IInv'
        OBVIOUS
    <2>1. CASE Step
        BY <2>1, CommandStep, PumpStep, EndStep DEF Step
    <2>2. CASE Interrupt
        BY <2>2, InterruptStep DEF Interrupt
    <2>3. CASE Tick \/ Docker
        BY <2>3, DockerStep DEF Docker
    <2>4. CASE UNCHANGED vars
        BY <2>4 DEF vars, flags, pump, docker, ends, IInv, Typed, NotStarted, CommandOver,
           ClientTruthful, RemovalFinal, Pumped, LoopLeft, Reported, ResultIsTruthful
    <2> QED
        BY <2>1, <2>2, <2>3, <2>4 DEF Next
<1> QED
    BY <1>1, <1>2, PTL DEF Spec

(* Whatever the client, the daemon and the user do, a run is reported      *)
(* successful only with status zero and its whole output, and a failure is *)
(* blamed on the command only if the command failed (_execute).            *)
THEOREM ResultsAreTruthful == Spec => []ResultIsTruthful
<1>1. IInv => ResultIsTruthful
    BY DEF IInv, Reported
<1> QED
    BY <1>1, Invariance, PTL

(* Once _remove_container was answered no container of the run executes,   *)
(* although requests of the killed client may still reach the daemon.      *)
THEOREM RemovalIsFinal == Spec => []NothingOutlivesTheRun
<1>1. IInv => NothingOutlivesTheRun
    BY DEF IInv, RemovalFinal, NothingOutlivesTheRun
<1> QED
    BY <1>1, Invariance, PTL

(***************************************************************************)
(* Type correctness, with what the runner's invariant says of the counts.  *)
(***************************************************************************)

\* The command and the runner keep the types.
LEMMA RunnerTyped ==
    ASSUME IInv, IInv', TypeOK, Step
    PROVE  TypeOK'
<1> USE LimitsAssumption DEF TypeOK, IInv, Typed, Live, Running, flags, pump, docker, ends
<1>1. captured' \in 0 .. Limit
    BY DEF Pumped
<1>2. CASE CreateWorkspace \/ Seal \/ Check \/ Spawn \/ Arm
    BY <1>1, <1>2 DEF CreateWorkspace, Seal, Check, Spawn, Arm
<1>3. CASE Deadline \/ ReadEof \/ SelectReturnsNothing \/ Poll
    BY <1>1, <1>3 DEF Deadline, ReadEof, SelectReturnsNothing, Poll
<1>4. CASE ReadChunk
    <2>1. read' \in 0 .. written
        BY <1>4 DEF ReadChunk
    <2>2. limited' \in BOOLEAN /\ pc' \in {"kill", "poll"}
        BY <1>4 DEF ReadChunk
    <2> QED BY <1>1, <1>4, <2>1, <2>2 DEF ReadChunk
<1>5. CASE KillContainer \/ KillClient \/ Wait
    BY <1>1, <1>5 DEF KillContainer, KillClient, Wait, Killed
<1>6. CASE RemoveContainer
    BY <1>1, <1>6 DEF RemoveContainer, Removed, Forced
<1>7. CASE Result
    BY <1>1, <1>7 DEF Result, Outcome
<1>8. CASE Report \/ Close \/ Discard
    BY <1>1, <1>8 DEF Report, Close, Discard
<1> QED
    BY <1>2, <1>3, <1>4, <1>5, <1>6, <1>7, <1>8 DEF Step

\* So do the user, the clock, the client and the daemon.
LEMMA EnvironmentTyped ==
    ASSUME IInv, TypeOK, Interrupt \/ Tick \/ Docker
    PROVE  TypeOK'
<1> USE LimitsAssumption DEF TypeOK, IInv, Typed, Live, Running, flags, pump, docker, ends,
        controller
<1>1. CASE Interrupt
    <2>1. interrupts' \in 0 .. MaxInterrupts
        BY <1>1 DEF Interrupt
    <2> QED BY <1>1, <2>1 DEF Interrupt, InterruptPump, InterruptHandler, InterruptOutside,
                              InterruptCommand
<1>2. CASE Tick \/ DaemonCreates \/ DaemonStarts \/ DaemonRefuses \/ DaemonCleansUp
    BY <1>2 DEF Tick, DaemonCreates, DaemonStarts, DaemonRefuses, DaemonCleansUp
<1>3. CASE CommandWrites \/ CommandEnds
    BY <1>3 DEF CommandWrites, CommandEnds
<1>4. CASE ClientStarts \/ ClientCopies \/ ClientExits \/ ClientFails
    BY <1>4 DEF ClientStarts, ClientCopies, ClientExits, ClientFails
<1> QED
    BY <1>1, <1>2, <1>3, <1>4 DEF Docker

\* Every reachable state of a run is well typed: what is kept stays within
\* the limit, what is read within what was written, and that within what the
\* command produced.
THEOREM TypeCorrect == Spec => []TypeOK
<1>1. Init => TypeOK
    <2> SUFFICES ASSUME Init PROVE TypeOK
        OBVIOUS
    <2>1. /\ captured \in 0 .. Limit /\ read \in 0 .. written /\ written \in 0 .. produced
          /\ produced \in 0 .. MaxOutput /\ interrupts \in 0 .. MaxInterrupts
        BY LimitsAssumption DEF Init
    <2> QED BY <2>1 DEF Init, TypeOK, Live, Running
<1>2. IInv /\ IInv' /\ TypeOK /\ [Next]_vars => TypeOK'
    <2> SUFFICES ASSUME IInv, IInv', TypeOK, [Next]_vars PROVE TypeOK'
        OBVIOUS
    <2>1. CASE Next
        BY <2>1, RunnerTyped, EnvironmentTyped DEF Next
    <2>2. CASE UNCHANGED vars
        BY <2>2 DEF TypeOK, vars, flags, pump, docker, ends
    <2> QED BY <2>1, <2>2
<1> QED
    BY <1>1, <1>2, Invariance, PTL DEF Spec
=============================================================================
