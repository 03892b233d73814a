----------------------------- MODULE SandboxRun -----------------------------
(***************************************************************************)
(* One `ulg sandbox-run': the command (cli.py), the runner that starts a   *)
(* Docker client and pumps its output under a deadline and a limit         *)
(* (sandbox/docker.py), and, as the code uses them, the Docker client and  *)
(* the daemon with the container.                                          *)
(*                                                                         *)
(* The client posts a request and the daemon serves it later, even when    *)
(* the client is dead by then.  The client passes output on through a      *)
(* pipe; it ends with the status of the command once all output is in the  *)
(* pipe, or with an error of its own.  Each call of the Docker control     *)
(* commands may fail, and the user may press Ctrl-C at every step.         *)
(*                                                                         *)
(* A definition whose name starts with Mutant is a plausible slip in the   *)
(* definition after it, kept to show that some property notices it.        *)
(***************************************************************************)
EXTENDS Integers, FiniteSetsExt

CONSTANTS
    Limit,          \* sandbox.max_combined_output_bytes, in chunks
    MaxOutput,      \* bound: chunks the command writes
    MaxInterrupts   \* bound: Ctrl-C pressed this often

ASSUME LimitsAssumption ==
    /\ Limit \in Nat /\ MaxOutput \in Nat /\ MaxInterrupts \in Nat
    /\ Limit < MaxOutput

VARIABLES
    pc,
    timedOut, limited,   \* the flags of _execute
    handler,             \* "cancel": except KeyboardInterrupt entered; "escape": left
    captured, read,      \* len(captured), observed_bytes
    registered,          \* the pipe is in the selector
    late,                \* the deadline has passed
    outcome,             \* error_code, or how the runner ended without a result
    removal,             \* what docker rm --force answered
    workspace,           \* the snapshot the container mounts
    client, rc,          \* the Docker client and its return code
    request,             \* what the daemon has yet to serve
    container, status,   \* the container and the status of its command
    produced, written,   \* output of the command, and how much is in the pipe
    interrupts

flags == <<timedOut, limited, handler>>
pump == <<captured, read, registered>>
docker == <<client, rc, request, container, status, produced, written>>
ends == <<outcome, removal, workspace>>
vars == <<pc, flags, pump, late, ends, docker, interrupts>>

Live == {"creating", "starting", "attached"}
Running == {"loop", "poll", "kill", "killClient", "wait", "remove"}

TypeOK ==
    /\ pc \in Running \cup {"create", "seal", "check", "spawn", "armed", "result",
                            "report", "close", "discard", "done"}
    /\ timedOut \in BOOLEAN /\ limited \in BOOLEAN /\ late \in BOOLEAN
    /\ registered \in BOOLEAN
    /\ handler \in {"none", "cancel", "escape"}
    /\ captured \in 0 .. Limit /\ read \in 0 .. written
    /\ outcome \in {"none", "ok", "timeout", "cancelled", "output_limit",
                    "sandbox_failed", "command_failed", "invalid", "raised"}
    /\ removal \in {"none", "done", "failed"}
    /\ workspace \in {"absent", "present"}
    /\ client \in Live \cup {"none", "exited"}
    /\ rc \in {"none", "zero", "nonzero", "docker", "signal", "unknown"}
    /\ request \in {"none", "create", "start"}
    /\ container \in {"absent", "created", "running", "exited"}
    /\ status \in {"none", "zero", "nonzero"}
    /\ written \in 0 .. produced /\ produced \in 0 .. MaxOutput
    /\ interrupts \in 0 .. MaxInterrupts

Init ==
    /\ pc = "create" /\ timedOut = FALSE /\ limited = FALSE /\ handler = "none"
    /\ captured = 0 /\ read = 0 /\ registered = FALSE /\ late = FALSE
    /\ outcome = "none" /\ removal = "none" /\ workspace = "absent"
    /\ client = "none" /\ rc = "none" /\ request = "none"
    /\ container = "absent" /\ status = "none"
    /\ produced = 0 /\ written = 0 /\ interrupts = 0

-----------------------------------------------------------------------------
(* The command up to the start of the client.                               *)

(* create cleans up after an error of its own. *)
CreateWorkspace ==
    /\ pc = "create"
    /\ \/ workspace' = "present" /\ pc' = "seal"
       \/ workspace' = "absent" /\ pc' = "done"
    /\ UNCHANGED <<flags, pump, late, outcome, removal, docker, interrupts>>

(* Before there is an audit log, the finally block only discards. *)
Seal ==
    /\ pc = "seal"
    /\ \/ pc' = "check" /\ outcome' = outcome
       \/ pc' = "discard" /\ outcome' = "raised"
    /\ UNCHANGED <<flags, pump, late, removal, workspace, docker, interrupts>>

(* The first event, the recipe, the preflight and the image. *)
Check ==
    /\ pc = "check"
    /\ \/ pc' = "spawn" /\ outcome' = outcome
       \/ pc' = "close" /\ outcome' = "raised"
    /\ UNCHANGED <<flags, pump, late, removal, workspace, docker, interrupts>>

Spawn ==
    /\ pc = "spawn"
    /\ \/ /\ client' = "creating" /\ request' = "create"
          /\ pc' = "armed" /\ outcome' = outcome
       \/ /\ pc' = "close" /\ outcome' = "raised"
          /\ UNCHANGED <<client, request>>
    /\ UNCHANGED <<flags, pump, late, removal, workspace, rc, container,
                   status, produced, written, interrupts>>

Arm ==
    /\ pc = "armed"
    /\ pc' = "loop" /\ registered' = TRUE
    /\ UNCHANGED <<flags, captured, read, late, ends, docker, interrupts>>

-----------------------------------------------------------------------------
(* The output pump.                                                         *)

MutantExpired == FALSE    \* an endless select
Expired == late

Deadline ==
    /\ pc = "loop" /\ Expired
    /\ timedOut' = TRUE /\ pc' = "kill"
    /\ UNCHANGED <<limited, handler, pump, late, ends, docker, interrupts>>

AtEof == client = "exited" /\ read = written
Readable == registered /\ (read < written \/ AtEof)

MutantKept(n) == captured + n     \* the chunk is kept whole
Kept(n) == Min({captured + n, Limit})

ReadChunk ==
    /\ pc = "loop" /\ ~Expired /\ registered
    /\ \E n \in 1 .. written - read :
        /\ read' = read + n
        /\ captured' = Kept(n)
    /\ limited' = (read' > Limit)
    /\ pc' = IF limited' THEN "kill" ELSE "poll"
    /\ UNCHANGED <<timedOut, handler, registered, late, ends, docker, interrupts>>

ReadEof ==
    /\ pc = "loop" /\ ~Expired /\ registered /\ AtEof
    /\ registered' = FALSE /\ pc' = "poll"
    /\ UNCHANGED <<flags, captured, read, late, ends, docker, interrupts>>

SelectReturnsNothing ==
    /\ pc = "loop" /\ ~Expired /\ ~Readable
    /\ pc' = "poll"
    /\ UNCHANGED <<flags, pump, late, ends, docker, interrupts>>

MutantDrained == client = "exited"    \* what is left in the pipe is lost
Drained == client = "exited" /\ ~registered

Poll ==
    /\ pc = "poll"
    /\ pc' = IF Drained THEN "wait" ELSE "loop"
    /\ UNCHANGED <<flags, pump, late, ends, docker, interrupts>>

-----------------------------------------------------------------------------
(* Ending the client and the container.                                     *)

(* _docker_control suppresses errors and timeouts: kill may have no effect. *)
KillContainer ==
    /\ pc = "kill" /\ pc' = "killClient"
    /\ \/ /\ container = "running"
          /\ container' = "exited" /\ status' = "nonzero"
       \/ UNCHANGED <<container, status>>
    /\ UNCHANGED <<flags, pump, late, ends, client, rc, request, produced,
                   written, interrupts>>

Killed(code) ==
    IF client \in Live THEN client' = "exited" /\ rc' = code
                       ELSE UNCHANGED <<client, rc>>

KillClient ==
    /\ pc = "killClient" /\ pc' = "wait"
    /\ Killed("signal")
    /\ UNCHANGED <<flags, pump, late, ends, request, container, status,
                   produced, written, interrupts>>

(* A client killed here, after five seconds, is not waited for again. *)
Wait ==
    /\ pc = "wait" /\ pc' = "remove"
    /\ Killed("unknown")
    /\ UNCHANGED <<flags, pump, late, ends, request, container, status,
                   produced, written, interrupts>>

MutantForced == {"created", "exited"}     \* rm without --force
Forced == {"created", "running", "exited"}

Removed ==
    \/ /\ removal' = "done"
       /\ container' = IF container \in Forced THEN "absent" ELSE container
       /\ status' = IF container = "running" /\ container' = "absent"
                    THEN "nonzero" ELSE status
    \/ /\ removal' = "failed"
       /\ UNCHANGED <<container, status>>

RemoveContainer ==
    /\ pc = "remove"
    /\ Removed
    /\ IF handler = "escape" THEN pc' = "close" /\ outcome' = "raised"
                             ELSE pc' = "result" /\ outcome' = outcome
    /\ UNCHANGED <<flags, pump, late, workspace, client, rc, request, produced,
                   written, interrupts>>

-----------------------------------------------------------------------------
(* The result, and the command after it.                                    *)

(* SandboxResult refuses an outcome that is timed out and cancelled. *)
Outcome ==
    IF timedOut THEN IF handler = "cancel" THEN "invalid" ELSE "timeout"
    ELSE IF handler = "cancel" THEN "cancelled"
    ELSE IF limited THEN "output_limit"
    ELSE IF rc = "zero" THEN "ok"
    ELSE IF rc \in {"docker", "unknown"} THEN "sandbox_failed"
    ELSE "command_failed"

Result ==
    /\ pc = "result"
    /\ outcome' = Outcome
    /\ pc' = IF outcome' = "invalid" THEN "close" ELSE "report"
    /\ UNCHANGED <<flags, pump, late, removal, workspace, docker, interrupts>>

(* The events of the result; an error while appending is reported below. *)
Report ==
    /\ pc = "report" /\ pc' = "close"
    /\ UNCHANGED <<flags, pump, late, ends, docker, interrupts>>

(* The finally block appends an event first; its error skips the discard. *)
Close ==
    /\ pc = "close" /\ pc' \in {"discard", "done"}
    /\ UNCHANGED <<flags, pump, late, ends, docker, interrupts>>

Discard ==
    /\ pc = "discard" /\ pc' = "done"
    /\ workspace' \in {"absent", workspace}
    /\ UNCHANGED <<flags, pump, late, outcome, removal, docker, interrupts>>

-----------------------------------------------------------------------------
(* Ctrl-C.                                                                  *)

(* In the try block: the runner kills the container and goes on. *)
InterruptPump ==
    /\ handler = "none"
    /\ pc \in {"loop", "poll", "kill", "killClient"}
    /\ handler' = "cancel" /\ pc' = "kill"
    /\ UNCHANGED <<timedOut, limited, pump, late, ends, docker>>

(* In the except block: only the finally block runs. *)
InterruptHandler ==
    /\ handler = "cancel" /\ pc \in {"kill", "killClient"}
    /\ handler' = "escape" /\ pc' = "wait"
    /\ UNCHANGED <<timedOut, limited, pump, late, ends, docker>>

(* In the finally block, before the container is removed, and in the
   lines no handler of the runner covers: the command gives up. *)
InterruptOutside ==
    /\ pc \in {"seal", "check", "spawn", "armed", "wait", "remove", "result", "report"}
    /\ pc' = IF pc = "seal" THEN "discard" ELSE "close"
    /\ outcome' = "raised"
    /\ UNCHANGED <<flags, pump, late, removal, workspace, docker>>

(* create has no handler for it and leaves what it copied. *)
InterruptCommand ==
    /\ pc \in {"create", "close", "discard"}
    /\ pc' = "done" /\ outcome' = "raised"
    /\ workspace' \in IF pc = "create" THEN {"absent", "present"} ELSE {workspace}
    /\ UNCHANGED <<flags, pump, late, removal, docker>>

Interrupt ==
    /\ interrupts < MaxInterrupts /\ interrupts' = interrupts + 1
    /\ \/ InterruptPump
       \/ InterruptHandler
       \/ InterruptOutside
       \/ InterruptCommand

-----------------------------------------------------------------------------
(* The environment: the clock, the Docker client, the daemon, the command.  *)

controller == <<pc, flags, pump, ends, interrupts>>

Tick ==
    /\ client # "none" /\ ~late
    /\ late' = TRUE
    /\ UNCHANGED <<controller, docker>>

DaemonCreates ==
    /\ request = "create"
    /\ request' = "none" /\ container' = "created"
    /\ UNCHANGED <<controller, late, client, rc, status, produced, written>>

ClientStarts ==
    /\ client = "creating" /\ container = "created" /\ request = "none"
    /\ client' = "starting" /\ request' = "start"
    /\ UNCHANGED <<controller, late, rc, container, status, produced, written>>

DaemonStarts ==
    /\ request = "start" /\ container = "created"
    /\ request' = "none" /\ container' = "running"
    /\ client' = IF client = "starting" THEN "attached" ELSE client
    /\ UNCHANGED <<controller, late, rc, status, produced, written>>

DaemonRefuses ==
    /\ request # "none" /\ request' = "none"
    /\ IF client \in Live THEN client' = "exited" /\ rc' = "docker"
                          ELSE UNCHANGED <<client, rc>>
    /\ UNCHANGED <<controller, late, container, status, produced, written>>

CommandWrites ==
    /\ container = "running" /\ produced < MaxOutput
    /\ produced' = produced + 1
    /\ UNCHANGED <<controller, late, client, rc, request, container, status, written>>

CommandEnds ==
    /\ container = "running"
    /\ container' = "exited" /\ status' \in {"zero", "nonzero"}
    /\ UNCHANGED <<controller, late, client, rc, request, produced, written>>

(* docker run --rm *)
DaemonCleansUp ==
    /\ container = "exited" /\ container' = "absent"
    /\ UNCHANGED <<controller, late, client, rc, request, status, produced, written>>

ClientCopies ==
    /\ client = "attached" /\ written < produced
    /\ written' = written + 1
    /\ UNCHANGED <<controller, late, client, rc, request, container, status, produced>>

ClientExits ==
    /\ client = "attached" /\ status # "none" /\ written = produced
    /\ client' = "exited" /\ rc' = status
    /\ UNCHANGED <<controller, late, request, container, status, produced, written>>

(* For example, the client loses its connection to the daemon. *)
ClientFails ==
    /\ client \in Live
    /\ client' = "exited" /\ rc' = "docker"
    /\ UNCHANGED <<controller, late, request, container, status, produced, written>>

-----------------------------------------------------------------------------
Step ==
    \/ CreateWorkspace \/ Seal \/ Check \/ Spawn \/ Arm
    \/ Deadline \/ ReadChunk \/ ReadEof \/ SelectReturnsNothing \/ Poll
    \/ KillContainer \/ KillClient \/ Wait \/ RemoveContainer
    \/ Result \/ Report \/ Close \/ Discard

Docker ==
    \/ DaemonCreates \/ DaemonStarts \/ DaemonRefuses \/ DaemonCleansUp
    \/ CommandWrites \/ CommandEnds
    \/ ClientStarts \/ ClientCopies \/ ClientExits \/ ClientFails

Next == Step \/ Interrupt \/ Tick \/ Docker

Spec == Init /\ [][Next]_vars

(* The command runs and time passes; Docker owes nothing. *)
FairSpec == Spec /\ WF_vars(Step) /\ WF_vars(Tick)

-----------------------------------------------------------------------------
(* A result says what happened: a run is reported successful only if the   *)
(* command ended with status zero and its output was kept completely, and  *)
(* a failure is blamed on the command only if the command ended in it.     *)
ResultIsTruthful ==
    /\ outcome = "ok" => status = "zero" /\ captured = produced
    /\ outcome = "command_failed" => status = "nonzero"

(* Once docker rm --force was answered, nothing of the run can execute any *)
(* more, although the daemon may still have a request of the client to     *)
(* serve: in particular no container works on a workspace being discarded. *)
NothingOutlivesTheRun == removal = "done" => container # "running"

(* The command ends, whatever the container, the client and the daemon do. *)
CommandReturns == <>(pc = "done")
=============================================================================
