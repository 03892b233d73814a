--------------------------- MODULE AgentLoopProofs ---------------------------
(***************************************************************************)
(* Proofs about AgentLoop, for all limits and any number of sessions.      *)
(*                                                                         *)
(* A session never appends to a torn log, because whatever tears it leaves *)
(* the loop (LogUsable); so a mark is set exactly if the loop appended the *)
(* event, and the marks of an action that runs follow from the way to it   *)
(* (Authorizing).  The account of approvals balances because what a grant  *)
(* still allows is covered by what the user agreed to, and an action on    *)
(* its way to the tool has been paid for (Owing).                          *)
(***************************************************************************)
EXTENDS AgentLoop, TLAPS

\* Within a session no limit has been passed yet.
Limits ==
    /\ pc \in Guarded => failures <= MaxFailures /\ repeated <= MaxRepeated
    /\ pc = "running" => toolCalls < MaxToolCalls

TypeInv == TypeOK /\ Limits

LogUsable == pc \in Guarded => log # "torn"

Asking == {"authorize", "prompt", "asked", "issue", "issued", "fresh", "consumed"}

Authorizing ==
    /\ pc \in Asking \cup {"act", "running"} =>
          action \in Kinds \ Denied /\ "decision" \in marks
    /\ pc = "decide" => action \in Kinds
    /\ pc \in Asking => action \in Asked
    /\ pc \in {"act", "running"} /\ action \in Asked => "consumed" \in marks
    /\ pc = "running" => action # "complete"

AuthInv == LogUsable /\ Authorizing

Owing ==
    /\ owed["recipe"] >= uses /\ owed["largePatch"] >= 0
    /\ pc = "issue" => action = "recipe" /\ owed["recipe"] >= MaxUses
    /\ pc \in {"prompt", "asked"} /\ action = "recipe" => ~remembered
    /\ pc \in {"issued", "fresh"} /\ action = "recipe" /\ ~remembered =>
          owed["recipe"] >= uses + 1
    /\ pc \in {"consumed", "act"} /\ action = "recipe" => owed["recipe"] >= uses + 1
    /\ pc \in {"issued", "fresh", "consumed", "act"} /\ action = "largePatch" =>
          owed["largePatch"] >= 1

Reporting ==
    /\ pc \in Guarded \ {"running", "finish"} => invoked = reported
    /\ pc \in {"running", "finish"} => invoked = reported + 1
    /\ invoked <= reported + 1

-----------------------------------------------------------------------------
\* Every step keeps the types, and no session passes a limit and goes on.
LEMMA TypeStep ==
    ASSUME TypeInv, [Next]_vars PROVE TypeInv'
<1> USE LimitsAssumption DEF Guarded, Appending, Kinds, Asked, Denied, Events, counters, grants,
        audit, seen, Append, Line, NextTurn
<1>1. CASE Start
  BY <1>1 DEF Start, TypeInv, TypeOK, Limits
<1>2. CASE \E a \in Kinds : Propose(a)
  BY <1>2 DEF Propose, TypeInv, TypeOK, Limits
<1>3. CASE InvalidAction \/ TurnsExhausted \/ Decide \/ Deny
  <2>1. CASE InvalidAction
    BY <2>1 DEF InvalidAction, AddMessages, TypeInv, TypeOK, Limits
  <2>2. CASE TurnsExhausted
    BY <2>2 DEF TurnsExhausted, TypeInv, TypeOK, Limits
  <2>3. CASE Decide
    BY <2>3 DEF Decide, Verdict, TypeInv, TypeOK, Limits
  <2>4. CASE Deny
    BY <2>4 DEF Deny, AddMessages, TypeInv, TypeOK, Limits
  <2> QED BY <1>3, <2>1, <2>2, <2>3, <2>4
<1>4. CASE UseRemembered \/ NotRemembered \/ Request
  <2>1. CASE UseRemembered
    <3>1. uses \in Nat /\ uses <= MaxUses /\ MaxUses \in Nat
      BY DEF TypeInv, TypeOK
    <3>2. uses' \in 0 .. MaxUses
      BY <2>1, <3>1 DEF UseRemembered
    <3>3. remembered' \in BOOLEAN
      BY <2>1, Zenon DEF UseRemembered, TypeInv, TypeOK
    <3> QED BY <2>1, <3>2, <3>3 DEF UseRemembered, TypeInv, TypeOK, Limits
  <2>2. CASE NotRemembered
    BY <2>2 DEF NotRemembered, ByRecipe, TypeInv, TypeOK, Limits
  <2>3. CASE Request
    BY <2>3 DEF Request, TypeInv, TypeOK, Limits
  <2> QED BY <1>4, <2>1, <2>2, <2>3
<1>5. CASE \E answer \in {"deny", "once", "recipe"} : Resolve(answer)
  BY <1>5 DEF Resolve, TypeInv, TypeOK, Limits
<1>6. CASE IssueRecipe \/ LogIssued \/ ConsumeFresh \/ LogConsumed
  <2>1. CASE IssueRecipe
    BY <2>1 DEF IssueRecipe, TypeInv, TypeOK, Limits
  <2>2. CASE LogIssued
    BY <2>2 DEF LogIssued, TypeInv, TypeOK, Limits
  <2>3. CASE ConsumeFresh
    <3>1. uses \in Nat /\ uses <= MaxUses /\ MaxUses \in Nat
      BY DEF TypeInv, TypeOK
    <3>2. uses' \in 0 .. MaxUses
      BY <2>3, <3>1 DEF ConsumeFresh, Spent
    <3> QED BY <2>3, <3>2 DEF ConsumeFresh, Refused, TypeInv, TypeOK, Limits
  <2>4. CASE LogConsumed
    BY <2>4 DEF LogConsumed, TypeInv, TypeOK, Limits
  <2> QED BY <1>6, <2>1, <2>2, <2>3, <2>4
<1>7. CASE Complete \/ Invoke \/ ToolReturns \/ Finish
  <2>1. CASE Complete
    BY <2>1 DEF Complete, TypeInv, TypeOK, Limits
  <2>2. CASE Invoke
    BY <2>2 DEF Invoke, WithinCalls, TypeInv, TypeOK, Limits
  <2>3. CASE ToolReturns
    BY <2>3 DEF ToolReturns, TypeInv, TypeOK, Limits
  <2>4. CASE Finish
    BY <2>4 DEF Finish, Finished, AddMessages, TypeInv, TypeOK, Limits
  <2> QED BY <1>7, <2>1, <2>2, <2>3, <2>4
<1>8. CASE Fail \/ Raise \/ Kill \/ Expire \/ AppendStops
  <2>1. CASE Fail
    BY <2>1 DEF Fail, TypeInv, TypeOK, Limits
  <2>2. CASE Raise
    BY <2>2 DEF Raise, TypeInv, TypeOK, Limits
  <2>3. CASE Kill
    BY <2>3 DEF Kill, TypeInv, TypeOK, Limits
  <2>4. CASE Expire
    BY <2>4 DEF Expire, TypeInv, TypeOK, Limits
  <2>5. CASE AppendStops
    BY <2>5 DEF AppendStops, ByRecipe, TypeInv, TypeOK, Limits
  <2> QED BY <1>8, <2>1, <2>2, <2>3, <2>4, <2>5
<1>9. CASE UNCHANGED vars
  BY <1>9 DEF vars, TypeInv, TypeOK, Limits
<1> QED
  BY <1>1, <1>2, <1>3, <1>4, <1>5, <1>6, <1>7, <1>8, <1>9 DEF Next, Loop

\* Every step keeps the log usable and what an action must have passed.
LEMMA AuthStep ==
    ASSUME TypeInv, AuthInv, [Next]_vars PROVE AuthInv'
<1> USE LimitsAssumption DEF Guarded, Appending, Kinds, Asked, Denied, Events, counters, grants,
        audit, seen, Append, Line, NextTurn
<1>1. CASE Start
  BY <1>1 DEF Start, TypeInv, TypeOK, AuthInv, LogUsable, Authorizing, Asking
<1>2. CASE \E a \in Kinds : Propose(a)
  BY <1>2 DEF Propose, TypeInv, TypeOK, AuthInv, LogUsable, Authorizing, Asking
<1>3. CASE InvalidAction \/ TurnsExhausted \/ Decide \/ Deny
  <2>1. CASE InvalidAction
    BY <2>1 DEF InvalidAction, AddMessages, TypeInv, TypeOK, AuthInv, LogUsable, Authorizing, Asking
  <2>2. CASE TurnsExhausted
    BY <2>2 DEF TurnsExhausted, TypeInv, TypeOK, AuthInv, LogUsable, Authorizing, Asking
  <2>3. CASE Decide
    BY <2>3 DEF Decide, Verdict, TypeInv, TypeOK, AuthInv, LogUsable, Authorizing, Asking
  <2>4. CASE Deny
    BY <2>4 DEF Deny, AddMessages, TypeInv, TypeOK, AuthInv, LogUsable, Authorizing, Asking
  <2> QED BY <1>3, <2>1, <2>2, <2>3, <2>4
<1>4. CASE UseRemembered \/ NotRemembered \/ Request
  BY <1>4 DEF UseRemembered, NotRemembered, Request, ByRecipe, TypeInv, TypeOK, AuthInv, LogUsable, Authorizing, Asking
<1>5. CASE \E answer \in {"deny", "once", "recipe"} : Resolve(answer)
  BY <1>5 DEF Resolve, TypeInv, TypeOK, AuthInv, LogUsable, Authorizing, Asking
<1>6. CASE IssueRecipe \/ LogIssued \/ ConsumeFresh \/ LogConsumed
  BY <1>6 DEF IssueRecipe, LogIssued, ConsumeFresh, LogConsumed, ByRecipe, Spent, Refused, TypeInv, TypeOK, AuthInv, LogUsable, Authorizing, Asking
<1>7. CASE Complete \/ Invoke \/ ToolReturns \/ Finish
  BY <1>7 DEF Complete, Invoke, ToolReturns, Finish, Finished, WithinCalls, AddMessages, TypeInv, TypeOK, AuthInv, LogUsable, Authorizing, Asking
<1>8. CASE Fail \/ Raise \/ Kill \/ Expire \/ AppendStops
  BY <1>8 DEF Fail, Raise, Kill, Expire, AppendStops, ByRecipe, TypeInv, TypeOK, AuthInv, LogUsable, Authorizing, Asking
<1>9. CASE UNCHANGED vars
  BY <1>9 DEF vars, TypeInv, TypeOK, AuthInv, LogUsable, Authorizing, Asking
<1> QED
  BY <1>1, <1>2, <1>3, <1>4, <1>5, <1>6, <1>7, <1>8, <1>9 DEF Next, Loop

\* Every step keeps what the user agreed to above what it still pays for.
LEMMA OwingStep ==
    ASSUME TypeInv, AuthInv, Owing, [Next]_vars PROVE Owing'
<1> USE LimitsAssumption DEF Guarded, Appending, Kinds, Asked, Denied, Events, counters, grants,
        audit, seen, Append, Line, NextTurn
<1>1. CASE Start
  BY <1>1 DEF Start, TypeInv, TypeOK, AuthInv, Authorizing, Asking, Owing
<1>2. CASE \E a \in Kinds : Propose(a)
  BY <1>2 DEF Propose, TypeInv, TypeOK, AuthInv, Authorizing, Asking, Owing
<1>3. CASE InvalidAction \/ TurnsExhausted \/ Decide \/ Deny
  BY <1>3 DEF InvalidAction, TurnsExhausted, Decide, Deny, AddMessages, Verdict, TypeInv, TypeOK, AuthInv, Authorizing, Asking, Owing
<1>4. CASE UseRemembered \/ NotRemembered \/ Request
  BY <1>4 DEF UseRemembered, NotRemembered, Request, ByRecipe, TypeInv, TypeOK, AuthInv, Authorizing, Asking, Owing
<1>5. CASE \E answer \in {"deny", "once", "recipe"} : Resolve(answer)
  BY <1>5 DEF Resolve, TypeInv, TypeOK, AuthInv, Authorizing, Asking, Owing
<1>6. CASE IssueRecipe \/ LogIssued \/ ConsumeFresh \/ LogConsumed
  BY <1>6 DEF IssueRecipe, LogIssued, ConsumeFresh, LogConsumed, ByRecipe, Spent, Refused, TypeInv, TypeOK, AuthInv, Authorizing, Asking, Owing
<1>7. CASE Complete \/ Invoke \/ ToolReturns \/ Finish
  BY <1>7 DEF Complete, Invoke, ToolReturns, Finish, Finished, WithinCalls, AddMessages, TypeInv, TypeOK, AuthInv, Authorizing, Asking, Owing
<1>8. CASE Fail \/ Raise \/ Kill \/ Expire \/ AppendStops
  BY <1>8 DEF Fail, Raise, Kill, Expire, AppendStops, ByRecipe, TypeInv, TypeOK, AuthInv, Authorizing, Asking, Owing
<1>9. CASE UNCHANGED vars
  BY <1>9 DEF vars, TypeInv, TypeOK, AuthInv, Authorizing, Asking, Owing
<1> QED
  BY <1>1, <1>2, <1>3, <1>4, <1>5, <1>6, <1>7, <1>8, <1>9 DEF Next, Loop

\* Every step keeps at most one call without its event.
LEMMA ReportingStep ==
    ASSUME TypeInv, Reporting, [Next]_vars PROVE Reporting'
<1> USE LimitsAssumption DEF Guarded, Appending, Kinds, Asked, Denied, Events, counters, grants,
        audit, seen, Append, Line, NextTurn
<1>1. CASE Start
  BY <1>1 DEF Start, TypeInv, TypeOK, Reporting
<1>2. CASE \E a \in Kinds : Propose(a)
  BY <1>2 DEF Propose, TypeInv, TypeOK, Reporting
<1>3. CASE InvalidAction \/ TurnsExhausted \/ Decide \/ Deny
  BY <1>3 DEF InvalidAction, TurnsExhausted, Decide, Deny, AddMessages, Verdict, TypeInv, TypeOK, Reporting
<1>4. CASE UseRemembered \/ NotRemembered \/ Request
  BY <1>4 DEF UseRemembered, NotRemembered, Request, ByRecipe, TypeInv, TypeOK, Reporting
<1>5. CASE \E answer \in {"deny", "once", "recipe"} : Resolve(answer)
  BY <1>5 DEF Resolve, TypeInv, TypeOK, Reporting
<1>6. CASE IssueRecipe \/ LogIssued \/ ConsumeFresh \/ LogConsumed
  BY <1>6 DEF IssueRecipe, LogIssued, ConsumeFresh, LogConsumed, ByRecipe, Spent, Refused, TypeInv, TypeOK, Reporting
<1>7. CASE Complete \/ Invoke \/ ToolReturns \/ Finish
  BY <1>7 DEF Complete, Invoke, ToolReturns, Finish, Finished, WithinCalls, AddMessages, TypeInv, TypeOK, Reporting
<1>8. CASE Fail \/ Raise \/ Kill \/ Expire \/ AppendStops
  BY <1>8 DEF Fail, Raise, Kill, Expire, AppendStops, ByRecipe, TypeInv, TypeOK, Reporting
<1>9. CASE UNCHANGED vars
  BY <1>9 DEF vars, TypeInv, TypeOK, Reporting
<1> QED
  BY <1>1, <1>2, <1>3, <1>4, <1>5, <1>6, <1>7, <1>8, <1>9 DEF Next, Loop

-----------------------------------------------------------------------------
\* A task starts with no session, an empty log and no approval.
LEMMA InitHolds == Init => TypeInv /\ AuthInv /\ Owing /\ Reporting
<1> SUFFICES ASSUME Init PROVE TypeInv /\ AuthInv /\ Owing /\ Reporting
  OBVIOUS
<1> USE LimitsAssumption DEF Init, Guarded, Asked
<1>1. owed \in [Asked -> Int] /\ owed["recipe"] = 0 /\ owed["largePatch"] = 0
  OBVIOUS
<1>2. remembered \in BOOLEAN
  OBVIOUS
<1>3. TypeOK
  BY <1>1, <1>2 DEF TypeOK, Kinds, Events
<1>4. Limits /\ AuthInv
  BY DEF Limits, AuthInv, LogUsable, Authorizing, Asking
<1>5. Owing /\ Reporting
  BY <1>1 DEF Owing, Reporting
<1> QED BY <1>3, <1>4, <1>5 DEF TypeInv

\* The four invariants hold in every reachable state.
LEMMA InvHolds == Spec => [](TypeInv /\ AuthInv /\ Owing /\ Reporting)
<1>1. /\ TypeInv /\ AuthInv /\ Owing /\ Reporting
      /\ [Next]_vars
      => (TypeInv /\ AuthInv /\ Owing /\ Reporting)'
  BY TypeStep, AuthStep, OwingStep, ReportingStep
<1> QED BY InitHolds, <1>1, PTL DEF Spec

-----------------------------------------------------------------------------
\* The counters of the loop stay within the limits of the configuration and
\* the stored uses within the limit of the grant.
THEOREM TypeCorrect == Spec => []TypeOK
BY InvHolds, PTL DEF TypeInv

\* _authorize and _consume_grant stand between every proposal and its tool,
\* and the log says so before the tool is invoked.
THEOREM OnlyAuthorizedRuns == Spec => []RunsAreAuthorized
<1>1. AuthInv => RunsAreAuthorized
  BY DEF AuthInv, Authorizing, RunsAreAuthorized
<1> QED BY <1>1, InvHolds, PTL

\* However sessions crash, resume and let grants expire, the tools run no more
\* often than the user agreed to.
THEOREM ApprovalsSuffice == Spec => []RunsWithinApproval
<1>1. TypeInv /\ Owing => RunsWithinApproval
  BY DEF TypeInv, TypeOK, Owing, RunsWithinApproval, Asked
<1> QED BY <1>1, InvHolds, PTL

\* A session that goes on has a tool_finished event for every call.
THEOREM EveryCallReported == Spec => []CallsAreReported
<1>1. Reporting => CallsAreReported
  BY DEF Reporting, CallsAreReported
<1> QED BY <1>1, InvHolds, PTL
=============================================================================
