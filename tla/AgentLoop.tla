------------------------------ MODULE AgentLoop ------------------------------
(***************************************************************************)
(* The bounded model/tool loop (controller.py ReadOnlyController) with the *)
(* policy that decides (policy/engine.py), the user who approves, and the  *)
(* audit log it appends to (audit/sinks.py), over the sessions of a task.  *)
(* An error or Ctrl-C may strike inside the try block, the process may be  *)
(* killed anywhere, and an append may stop in the middle of its line.      *)
(*                                                                         *)
(* Of an action the loop tells apart what its policy decides and whether   *)
(* it equals the one before it (Kinds).  One recipe is configured; its     *)
(* durable grant is the number of uses left (uses), which an expiry or a   *)
(* revocation between sessions sets to 0; ScopedGrants has the details.    *)
(* Whether the messages fit the context limit is a choice.  Of the log the *)
(* model keeps whether a reader can parse it and what it says of the       *)
(* current action (marks).                                                 *)
(*                                                                         *)
(* A definition whose name starts with Mutant is a plausible slip in the   *)
(* definition after it, kept to show that some property notices it.        *)
(***************************************************************************)
EXTENDS Integers

CONSTANTS
    MaxTurns, MaxToolCalls, MaxRepeated, MaxFailures,  \* [task]
    MaxUses,     \* tools.run_task.grant_max_uses
    MaxPending   \* bound on the approved runs that are not used up

Kinds == {"read", "smallPatch", "largePatch", "brokenPatch",
          "recipe", "otherRecipe", "complete"}

ASSUME LimitsAssumption ==
    /\ MaxTurns \in Nat \ {0} /\ MaxToolCalls \in Nat \ {0}
    /\ MaxRepeated \in Nat \ {0} /\ MaxFailures \in Nat \ {0}
    /\ MaxUses \in Nat \ {0} /\ MaxPending \in Nat

VARIABLES
    pc,
    turn, toolCalls, failures, repeated, last,   \* locals of run
    action,                  \* the proposed action
    remembered, uses,        \* grant the controller remembers; durable uses
    log, marks,              \* the audit file; events about the action
    invoked, reported, owed  \* observations

counters == <<turn, toolCalls, failures, repeated, last>>
grants == <<remembered, uses>>
audit == <<log, marks>>
seen == <<invoked, reported, owed>>
vars == <<pc, counters, action, grants, audit, seen>>

Guarded == {"propose", "decide", "authorize", "prompt", "asked", "issue", "issued",
            "fresh", "consumed", "denied", "act", "running", "finish"}

\* Where the loop appends to the log.
Appending == {"propose", "decide", "authorize", "prompt", "asked", "issued",
              "fresh", "consumed", "act", "finish"}

Asked == {"largePatch", "recipe"}
Denied == {"brokenPatch", "otherRecipe"}
Events == {"decision", "requested", "resolved", "issued", "consumed", "rejected", "finished"}

TypeOK ==
    /\ pc \in {"down", "failed"} \cup Guarded
    /\ turn \in 0 .. MaxTurns /\ toolCalls \in 0 .. MaxToolCalls
    /\ failures \in 0 .. MaxFailures + 1 /\ repeated \in 0 .. MaxRepeated + 1
    /\ last \in Kinds \cup {"none"}
    /\ action \in Kinds \cup {"none"}
    /\ remembered \in BOOLEAN /\ uses \in 0 .. MaxUses
    /\ log \in {"whole", "torn", "malformed"} /\ marks \subseteq Events
    /\ invoked \in Nat /\ reported \in Nat /\ owed \in [Asked -> Int]

Init ==
    /\ pc = "down"
    /\ turn = 0 /\ toolCalls = 0 /\ failures = 0 /\ repeated = 0 /\ last = "none"
    /\ action = "none"
    /\ remembered = FALSE /\ uses = 0
    /\ log = "whole" /\ marks = {}
    /\ invoked = 0 /\ reported = 0 /\ owed = [k \in Asked |-> 0]

\* _recipe_grants has a grant for the action.
ByRecipe == action = "recipe" /\ remembered

-----------------------------------------------------------------------------
(* The audit log.  A line appended after a torn one continues it: the two  *)
(* end in one newline and neither parses.                                  *)

Line == log' = IF log = "torn" THEN "malformed" ELSE log

Append(e) == Line /\ marks' = IF log = "torn" THEN marks ELSE marks \cup {e}

\* The write stops short: the process dies, or the error leaves the try block.
AppendStops ==
    /\ pc \in {"down", "failed"} \cup Appending
    /\ pc = "authorize" => ByRecipe
    /\ pc = "act" => action = "complete"
    /\ log = "whole" /\ log' = "torn"
    /\ pc' \in IF pc \in Guarded THEN {"failed", "down"} ELSE {"down"}
    /\ UNCHANGED <<counters, action, grants, marks, seen>>

-----------------------------------------------------------------------------
(* Starting, and what ends a session.                                      *)

\* run: active_recipe_grants, fresh locals, task_started or task_resumed.
Start ==
    /\ pc = "down"
    /\ turn' = 0 /\ toolCalls' = 0 /\ failures' = 0 /\ repeated' = 0 /\ last' = "none"
    /\ remembered' = (uses > 0) /\ UNCHANGED uses
    /\ action' = "none" /\ Line /\ marks' = {}
    /\ pc' = "propose"
    /\ invoked' = 0 /\ reported' = 0
    /\ UNCHANGED owed

\* Wall clock, model or tool errors, a refused journal entry, Ctrl-C.
Raise ==
    /\ pc \in Guarded
    /\ pc' = "failed"
    /\ UNCHANGED <<counters, action, grants, audit, seen>>

\* The except clause appends task_failed.
Fail ==
    /\ pc = "failed"
    /\ Line /\ pc' = "down"
    /\ UNCHANGED <<counters, action, grants, marks, seen>>

Kill ==
    /\ pc # "down"
    /\ pc' = "down"
    /\ UNCHANGED <<counters, action, grants, audit, seen>>

Expire ==
    /\ uses > 0
    /\ uses' = 0
    /\ UNCHANGED <<pc, counters, action, remembered, audit, seen>>

-----------------------------------------------------------------------------
(* One turn: the model proposes, the policy decides.                       *)

\* _append_message: on to the next turn, or the context is over its limit.
AddMessages == pc' \in {"propose", "failed"}

MutantNextTurn == turn < MaxTurns /\ turn' = turn
NextTurn == turn < MaxTurns /\ turn' = turn + 1

Propose(a) ==
    /\ pc = "propose" /\ NextTurn
    /\ action' = a /\ last' = a /\ marks' = {}
    /\ repeated' = IF a = last THEN repeated + 1 ELSE 1
    /\ pc' = IF repeated' > MaxRepeated THEN "failed" ELSE "decide"
    /\ UNCHANGED <<toolCalls, failures, grants, log, seen>>

\* A protocol error of the model, retried at most MaxFailures times.
InvalidAction ==
    /\ pc = "propose" /\ NextTurn
    /\ failures' = failures + 1
    /\ Line
    /\ IF failures' <= MaxFailures THEN AddMessages ELSE pc' = "failed"
    /\ UNCHANGED <<toolCalls, repeated, last, action, grants, marks, seen>>

TurnsExhausted ==
    /\ pc = "propose" /\ turn = MaxTurns
    /\ pc' = "failed"
    /\ UNCHANGED <<counters, action, grants, audit, seen>>

\* BaselinePolicy.evaluate, and its decision in the log.
MutantVerdict(a) == IF a \in Asked THEN "authorize" ELSE "act"
Verdict(a) ==
    IF a \in Asked THEN "authorize" ELSE IF a \in Denied THEN "denied" ELSE "act"

Decide ==
    /\ pc = "decide"
    /\ Append("decision") /\ pc' = Verdict(action)
    /\ UNCHANGED <<counters, action, grants, seen>>

\* A denial is a message to the model, and the turn is spent.
Deny ==
    /\ pc = "denied"
    /\ AddMessages
    /\ UNCHANGED <<turn, toolCalls, failures, repeated, last, action, grants, audit, seen>>

-----------------------------------------------------------------------------
(* _authorize and _consume_grant.                                          *)

\* A remembered grant pays, or is forgotten and the user is asked.
UseRemembered ==
    /\ pc = "authorize" /\ ByRecipe
    /\ \/ uses > 0 /\ uses' = uses - 1 /\ pc' = "consumed" /\ UNCHANGED <<remembered, audit>>
       \/ uses = 0 /\ Append("rejected") /\ remembered' = FALSE /\ pc' = "prompt"
          /\ UNCHANGED uses
    /\ UNCHANGED <<counters, action, seen>>

NotRemembered ==
    /\ pc = "authorize" /\ ~ByRecipe
    /\ pc' = "prompt"
    /\ UNCHANGED <<counters, action, grants, audit, seen>>

Request ==
    /\ pc = "prompt"
    /\ Append("requested") /\ pc' = "asked"
    /\ UNCHANGED <<counters, action, grants, seen>>

\* Approving the recipe is no answer to a patch: it denies.
Resolve(answer) ==
    /\ pc = "asked"
    /\ Append("resolved")
    /\ \/ /\ answer = "deny" \/ (answer = "recipe" /\ action # "recipe")
          /\ pc' = "denied" /\ UNCHANGED owed
       \/ /\ answer = "once" /\ owed[action] < MaxPending
          /\ pc' = "issued" /\ owed' = [owed EXCEPT ![action] = @ + 1]
       \/ /\ answer = "recipe" /\ action = "recipe" /\ owed[action] < MaxPending
          /\ pc' = "issue" /\ owed' = [owed EXCEPT ![action] = @ + MaxUses]
    /\ UNCHANGED <<counters, action, grants, invoked, reported>>

IssueRecipe ==
    /\ pc = "issue"
    /\ uses' = MaxUses /\ remembered' = TRUE /\ pc' = "issued"
    /\ UNCHANGED <<counters, action, audit, seen>>

LogIssued ==
    /\ pc = "issued"
    /\ Append("issued") /\ pc' = "fresh"
    /\ UNCHANGED <<counters, action, grants, seen>>

MutantRefused == "act"
Refused == "denied"

MutantSpent == uses' = uses
Spent == uses' = uses - 1

\* A grant for the one action, used up at once, may have expired all the same.
ConsumeFresh ==
    /\ pc = "fresh"
    /\ \/ /\ IF ByRecipe THEN uses > 0 /\ Spent ELSE UNCHANGED uses
          /\ pc' = "consumed" /\ UNCHANGED audit
       \/ /\ ByRecipe => uses = 0
          /\ Append("rejected") /\ pc' = Refused /\ UNCHANGED uses
    /\ UNCHANGED <<counters, action, remembered, seen>>

LogConsumed ==
    /\ pc = "consumed"
    /\ Append("consumed") /\ pc' = "act"
    /\ UNCHANGED <<counters, action, grants, seen>>

-----------------------------------------------------------------------------
(* Acting.                                                                 *)

Complete ==
    /\ pc = "act" /\ action = "complete"
    /\ Line /\ pc' = "down"
    /\ UNCHANGED <<counters, action, grants, marks, seen>>

MutantWithinCalls == toolCalls <= MaxToolCalls
WithinCalls == toolCalls < MaxToolCalls

Invoke ==
    /\ pc = "act" /\ action # "complete"
    /\ IF WithinCalls
       THEN /\ pc' = "running" /\ invoked' = invoked + 1
            /\ owed' = IF action \in Asked THEN [owed EXCEPT ![action] = @ - 1] ELSE owed
       ELSE pc' = "failed" /\ UNCHANGED <<invoked, owed>>
    /\ UNCHANGED <<counters, action, grants, audit, reported>>

ToolReturns ==
    /\ pc = "running"
    /\ toolCalls' = toolCalls + 1 /\ pc' = "finish"
    /\ UNCHANGED <<turn, failures, repeated, last, action, grants, audit, seen>>

\* tool_finished, the event of a generation or a sandbox run, two messages.
MutantFinished == reported' = reported
Finished == reported' = reported + 1

Finish ==
    /\ pc = "finish"
    /\ Append("finished") /\ Finished /\ AddMessages
    /\ UNCHANGED <<turn, toolCalls, failures, repeated, last, action, grants,
                   invoked, owed>>

-----------------------------------------------------------------------------
Loop ==
    \/ \E a \in Kinds : Propose(a)
    \/ InvalidAction \/ TurnsExhausted \/ Decide \/ Deny
    \/ UseRemembered \/ NotRemembered \/ Request
    \/ \E answer \in {"deny", "once", "recipe"} : Resolve(answer)
    \/ IssueRecipe \/ LogIssued \/ ConsumeFresh \/ LogConsumed
    \/ Complete \/ Invoke \/ ToolReturns \/ Finish \/ Fail

Next == Start \/ Loop \/ Raise \/ Kill \/ Expire \/ AppendStops

Spec == Init /\ [][Next]_vars

\* The process runs, and the user answers a prompt.
FairSpec == Spec /\ WF_vars(Loop)

-----------------------------------------------------------------------------
(* Properties.                                                             *)

\* Nothing runs that the policy denies or that lacks a consumed grant where
\* the policy asks; the log says so before the tool is invoked.
RunsAreAuthorized ==
    pc = "running" =>
        /\ action \notin Denied \cup {"complete"}
        /\ "decision" \in marks
        /\ action \in Asked => "consumed" \in marks

\* Over crashes, expiries and resumes, no more actions run than the user
\* agreed to.
RunsWithinApproval == \A k \in Asked : owed[k] >= 0

\* A session that goes on has reported every tool call it made; the call it
\* was making is the only one that a failure can leave unreported.
CallsAreReported ==
    /\ pc \in Guarded \ {"running", "finish"} => reported = invoked
    /\ invoked <= reported + 1

\* Whatever the model proposes and the user answers, the loop ends.
LoopEnds == pc # "down" ~> pc = "down"

\* The log of a task stays readable (README, architecture): `ulg audit'
\* parses every complete line of it.
AuditStaysReadable == log # "malformed"
=============================================================================
