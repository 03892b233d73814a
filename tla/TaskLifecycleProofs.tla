------------------------ MODULE TaskLifecycleProofs ------------------------
(* Proofs about the lifecycle of one task, for any action identifiers,     *)
(* recipes and bounds.                                                     *)
EXTENDS TaskLifecycle, TLAPS

(***************************************************************************)
(* Types of the record's updates.                                          *)
(***************************************************************************)

\* Changing the phase of a record keeps it a record.
LEMMA PhasedType ==
    ASSUME NEW s \in TaskStates, NEW phase \in Phases
    PROVE  Phased(s, phase) \in TaskStates
    BY DEF Phased, TaskStates

\* So does changing its generation, alone or with the phase.
LEMMA GenerationType ==
    ASSUME NEW s \in TaskStates, NEW g \in Nat, NEW phase \in Phases
    PROVE  /\ [s EXCEPT !.generation = g] \in TaskStates
           /\ [s EXCEPT !.phase = phase, !.generation = g] \in TaskStates
    BY DEF TaskStates

\* before_execute keeps the record a record.
LEMMA ScheduledType ==
    ASSUME NEW s \in TaskStates, NEW a \in ActionIds,
           NEW r \in Recipes \cup {NoRecipe}
    PROVE  Scheduled(s, a, r) \in TaskStates
    BY DEF Scheduled, TaskStates, PendingEffects, Phases

\* Settling a pending effect keeps the record a record.
LEMMA SettledType ==
    ASSUME NEW s \in TaskStates, s.pending # None, NEW phase \in Phases,
           NEW g \in Nat, NEW outcome \in Outcomes
    PROVE  Settled(s, phase, g, outcome) \in TaskStates
<1> DEFINE e == [id |-> s.pending.id, recipe |-> s.pending.recipe, outcome |-> outcome]
<1>1. s.pending \in PendingEffects
    BY DEF TaskStates
<1>2. e \in EffectOutcomes
    BY <1>1 DEF PendingEffects, EffectOutcomes
<1>3. s.effects \cup {e} \in SUBSET EffectOutcomes
    BY <1>2 DEF TaskStates
<1> HIDE DEF e
<1>4. [s EXCEPT !.phase = phase, !.generation = g, !.pending = None,
                !.effects = @ \cup {e}] \in TaskStates
    BY <1>3 DEF TaskStates
<1> QED BY <1>4 DEF Settled, e

\* after_execute keeps the record a record.
LEMMA CompletedType ==
    ASSUME NEW s \in TaskStates, s.pending # None, NEW good \in BOOLEAN, NEW g \in Nat
    PROVE  Completed(s, good, g) \in TaskStates
<1> DEFINE gen == IF s.pending.recipe = NoRecipe /\ good THEN g ELSE s.generation
<1>1. gen \in Nat
    BY DEF TaskStates
<1>2. (IF gen > 0 THEN "review" ELSE "execute") \in Phases
    BY DEF Phases
<1>3. (IF good THEN "succeeded" ELSE "failed") \in Outcomes
    BY DEF Outcomes
<1> HIDE DEF gen
<1>4. Settled(s, IF gen > 0 THEN "review" ELSE "execute", gen,
              IF good THEN "succeeded" ELSE "failed") \in TaskStates
    BY <1>1, <1>2, <1>3, SettledType
<1> QED BY <1>4 DEF Completed, gen

\* reconcile keeps the record a record.
LEMMA ReconciledType ==
    ASSUME NEW s \in TaskStates, NEW g \in Nat
    PROVE  Reconciled(s, g) \in TaskStates
<1>1. CASE s.pending = None
    <2>1. [s EXCEPT !.generation = g] \in TaskStates
        BY DEF TaskStates
    <2> QED BY <1>1, <2>1 DEF Reconciled
<1>2. CASE s.pending # None
    <2> DEFINE outcome == Inferred(s.pending, g)
    <2>1. outcome \in Outcomes
        BY DEF Inferred, Outcomes
    <2>2. (IF outcome = "succeeded" THEN "review" ELSE "retry") \in Phases
        BY DEF Phases
    <2> HIDE DEF outcome
    <2>3. Settled(s, IF outcome = "succeeded" THEN "review" ELSE "retry", g, outcome)
              \in TaskStates
        BY <1>2, <2>1, <2>2, SettledType
    <2> QED BY <1>2, <2>3 DEF Reconciled, outcome
<1> QED BY <1>1, <1>2

(***************************************************************************)
(* Type correctness.  It is inductive together with the fact that between  *)
(* before_execute and after_execute the session has a pending effect.      *)
(***************************************************************************)

ActiveHasPending == pc \in {"execute", "running", "record"} => mem.pending # None
TypeInv == TypeOK /\ ActiveHasPending

\* The state a task is created in is well typed.
LEMMA InitTypeInv == Init => TypeInv
<1> SUFFICES ASSUME Init PROVE TypeInv
    OBVIOUS
<1>1. disk \in TaskStates
    BY DEF Init, TaskStates, Phases
<1>2. pc \in {"idle"} \cup Setup \cup Body \cup Handler \cup Discarding
    BY DEF Init
<1>3. published \in Seq(ActionIds)
    BY DEF Init
<1> QED BY <1>1, <1>2, <1>3 DEF Init, TypeInv, TypeOK, ActiveHasPending

\* The end of a session leaves its variables well typed.
LEMMA EndSessionType ==
    ASSUME TypeInv, NEW final \in TaskStates, EndSession(final)
    PROVE  /\ disk' \in TaskStates /\ mem' \in TaskStates /\ behind' \in BOOLEAN
           /\ pc' = "idle" /\ guarded' \in BOOLEAN
           /\ toolGen' \in Nat /\ ok' \in BOOLEAN
           /\ interrupted' \in Recipes \cup {NoRecipe}
           /\ owed' \subseteq Recipes
<1>1. owed \subseteq Recipes
    BY DEF TypeInv, TypeOK
<1>2. owed' \subseteq Recipes
    BY <1>1 DEF EndSession
<1> QED BY <1>2 DEF EndSession

\* Every step of a session, and of the user who starts one, keeps the types.
LEMMA NextTypeInv == TypeInv /\ [Next]_vars => TypeInv'
<1> SUFFICES ASSUME TypeInv, [Next]_vars PROVE TypeInv'
    OBVIOUS
<1> USE DEF TypeInv, TypeOK, ActiveHasPending, record, locals, tree, observed,
            Setup, Body, Handler, Discarding
<1>1. CASE Resume
    BY <1>1 DEF Resume
<1>2. CASE StartDiscard
    BY <1>2 DEF StartDiscard, TaskStates
<1>3. CASE RedirectOutput
    BY <1>3 DEF RedirectOutput
<1>4. CASE RecoverLatest
    BY <1>4 DEF RecoverLatest
<1>5. CASE Reconcile
    <2>1. Reconciled(mem, toolGen) \in TaskStates
        BY ReconciledType
    <2>2. interrupted' \in Recipes \cup {NoRecipe}
        BY <1>5 DEF Reconcile, TaskStates, PendingEffects
    <2> QED BY <1>5, <2>1, <2>2 DEF Reconcile, Commit
<1>6. CASE RevokeRecipe
    BY <1>6 DEF RevokeRecipe, Remaining
<1>7. CASE EnterExecute
    <2>1. Phased(mem, "execute") \in TaskStates
        BY PhasedType DEF Phases
    <2> QED BY <1>7, <2>1 DEF EnterExecute, Commit
<1>8. ASSUME NEW a \in ActionIds, NEW r \in Recipes \cup {NoRecipe}, Schedule(a, r)
      PROVE  TypeInv'
    <2>1. Scheduled(mem, a, r) \in TaskStates
        BY ScheduledType
    <2>2. Scheduled(mem, a, r).pending # None
        BY ConstantsAssumption DEF Scheduled, TaskStates, PendingEffects
    <2>3. grants' \subseteq Recipes /\ owed' \subseteq Recipes
        BY <1>8 DEF Schedule, Authorized, FreshApproval
    <2> QED BY <1>8, <2>1, <2>2, <2>3 DEF Schedule, GuardedSave, Commit, CommitUnseen, Raised
<1>9. CASE InvokeTool
    <2>1. mem.pending.id \in ActionIds /\ runs[mem.pending.id] \in Nat
        BY <1>9 DEF InvokeTool, TaskStates, PendingEffects
    <2>2. runs' \in [ActionIds -> Nat]
        BY <1>9, <2>1 DEF InvokeTool
    <2> QED BY <1>9, <2>2 DEF InvokeTool
<1>10. CASE ToolReturns
    BY <1>10 DEF ToolReturns
<1>11. CASE PatchPublished
    <2>1. mem.pending.id \in ActionIds
        BY <1>11 DEF PatchPublished, TaskStates, PendingEffects
    <2>2. published' \in Seq(ActionIds)
        BY <1>11, <2>1 DEF PatchPublished
    <2>3. /\ toolGen' \in Nat /\ ok' \in BOOLEAN /\ guarded' \in BOOLEAN
          /\ pc' \in {"record", "failed", "cancelled"}
        <3>1. CASE toolGen' = toolGen + 1 /\ ok' = TRUE /\ pc' = "record" /\ UNCHANGED guarded
            BY <3>1
        <3>2. CASE Raised /\ UNCHANGED <<toolGen, ok>>
            BY <3>2 DEF Raised
        <3> QED BY <1>11, <3>1, <3>2 DEF PatchPublished
    <2>4. UNCHANGED <<record, interrupted, workspace, grants, output, failureMode, observed>>
          /\ pc = "running"
        BY <1>11 DEF PatchPublished
    <2> QED BY <2>2, <2>3, <2>4
<1>12. CASE RecordOutcome
    <2>1. Completed(mem, ok, toolGen) \in TaskStates
        BY <1>12, CompletedType DEF RecordOutcome
    <2> QED BY <1>12, <2>1 DEF RecordOutcome, GuardedSave, Commit, CommitUnseen, Raised
<1>13. CASE Complete
    <2>1. [mem EXCEPT !.phase = "review", !.generation = toolGen] \in TaskStates
        BY GenerationType DEF Phases
    <2> QED BY <1>13, <2>1 DEF Complete, GuardedSave, Commit, CommitUnseen, Raised
<1>14. CASE Export
    BY <1>14 DEF Export, Exports, ExportStops, Raised
<1>15. CASE FinishExport
    <2>1. Phased(mem, "export") \in TaskStates
        BY PhasedType DEF Phases
    <2> QED BY <1>15, <2>1 DEF FinishExport, GuardedSave, Commit, CommitUnseen, Raised
<1>16. CASE RemoveTree
    BY <1>16 DEF RemoveTree
<1>17. CASE RemoveTreeStops
    <2>1. CASE ~guarded /\ EndSession(disk)
        BY <1>17, <2>1, EndSessionType DEF RemoveTreeStops
    <2>2. CASE guarded /\ Raised /\ UNCHANGED <<record, locals, owed>>
        BY <1>17, <2>2 DEF RemoveTreeStops, Raised
    <2> QED BY <1>17, <2>1, <2>2 DEF RemoveTreeStops
<1>18. CASE DropGrants
    BY <1>18 DEF DropGrants, Remaining
<1>19. CASE MarkDiscard
    <2>1. Discarded(mem) \in TaskStates
        BY GenerationType DEF Discarded, Phases
    <2>2. CASE EndSession(Discarded(mem))
        BY <1>19, <2>1, <2>2, EndSessionType DEF MarkDiscard
    <2>3. CASE CommitUnseen(Discarded(mem)) /\ Raised /\ UNCHANGED <<locals, owed>>
        BY <1>19, <2>1, <2>3 DEF MarkDiscard, CommitUnseen, Raised
    <2> QED BY <1>19, <2>2, <2>3 DEF MarkDiscard
<1>20. CASE Raise
    BY <1>20 DEF Raise, Raised
<1>21. CASE HandleFailure
    <2>1. Phased(mem, "retry") \in TaskStates /\ Phased(mem, "cancel") \in TaskStates
        BY PhasedType DEF Phases
    <2> DEFINE phase == IF pc = "failed" THEN "retry" ELSE "cancel"
    <2>2. Phased(mem, phase) \in TaskStates
        BY <2>1
    <2> HIDE DEF phase
    <2>3. CASE EndSession(disk) \/ EndSession(Phased(mem, phase))
        BY <1>21, <2>2, <2>3, EndSessionType DEF HandleFailure
    <2>4. CASE SafeTransition(phase) /\ pc' = "recoverExport"
               /\ UNCHANGED <<guarded, locals, owed>>
        BY <1>21, <2>2, <2>4 DEF HandleFailure, SafeTransition, Commit, CommitUnseen
    <2> QED BY <1>21, <2>3, <2>4 DEF HandleFailure, phase
<1>22. CASE RecoverExport
    BY <1>22 DEF RecoverExport, Exports, ExportStops
<1>23. CASE RecoverMark
    <2>1. Phased(mem, "export") \in TaskStates
        BY PhasedType DEF Phases
    <2> QED BY <1>23, <2>1 DEF RecoverMark, SafeTransition, Commit, CommitUnseen
<1>24. CASE Refuse \/ Crash
    BY <1>24, EndSessionType DEF Refuse, Crash, Abandon
<1>25. CASE UNCHANGED vars
    BY <1>25 DEF vars
<1> QED
    BY <1>1, <1>2, <1>3, <1>4, <1>5, <1>6, <1>7, <1>8, <1>9, <1>10, <1>11, <1>12, <1>13,
       <1>14, <1>15, <1>16, <1>17, <1>18, <1>19, <1>20, <1>21, <1>22, <1>23, <1>24, <1>25
    DEF Next, Begin, Step

\* Every reachable state of a task and its session is well typed.
THEOREM TypeCorrect == Spec => []TypeOK
<1>1. Init => TypeInv
    BY InitTypeInv
<1>2. TypeInv /\ [Next]_vars => TypeInv'
    BY NextTypeInv
<1>3. TypeInv => TypeOK
    BY DEF TypeInv
<1> QED BY <1>1, <1>2, <1>3, PTL DEF Spec

(***************************************************************************)
(* At-most-once execution.  A session whose revision is current works on   *)
(* the record that is on disk, so every identifier that ever reached a     *)
(* tool stays pending or settled in the record (RunsAccounted), and        *)
(* before_execute only schedules identifiers that are neither.             *)
(***************************************************************************)

SessionView ==
    /\ ~behind => mem = disk
    /\ pc \in {"idle"} \cup Setup \cup Body => ~behind
PendingIs(a) == disk.pending # None /\ disk.pending.id = a
RunsAccounted ==
    \A a \in ActionIds : runs[a] >= 1 => a \in DoneIds(disk) \/ PendingIs(a)
NotYetRun == pc = "execute" => runs[mem.pending.id] = 0
JournalInv == SessionView /\ RunsAccounted /\ NotYetRun /\ AtMostOnce

\* The three things a step can do to the journal part of the record.
Kept == disk'.pending = disk.pending /\ disk'.effects = disk.effects
Opened == disk.pending = None /\ disk'.effects = disk.effects
Closed ==
    /\ disk.pending # None /\ disk'.pending = None
    /\ \E e : e.id = disk.pending.id /\ disk'.effects = disk.effects \cup {e}

\* A session that is not behind works on the record on disk, after every
\* step too.
LEMMA SessionViewStep == TypeInv /\ SessionView /\ [Next]_vars => SessionView'
<1> SUFFICES ASSUME TypeInv, SessionView, [Next]_vars PROVE SessionView'
    OBVIOUS
<1> USE DEF SessionView, record, locals, Setup, Body
<1>1. CASE Begin
    BY <1>1 DEF Begin, Resume, StartDiscard
<1>2. CASE RedirectOutput \/ RecoverLatest \/ RevokeRecipe
    BY <1>2 DEF RedirectOutput, RecoverLatest, RevokeRecipe
<1>3. CASE Reconcile \/ EnterExecute
    BY <1>3 DEF Reconcile, EnterExecute, Commit
<1>4. ASSUME NEW a \in ActionIds, NEW r \in Recipes \cup {NoRecipe}, Schedule(a, r)
      PROVE  SessionView'
    BY <1>4 DEF Schedule, GuardedSave, Commit, CommitUnseen, Raised
<1>5. CASE InvokeTool \/ ToolReturns
    BY <1>5 DEF InvokeTool, ToolReturns
<1>6. CASE PatchPublished
    BY <1>6 DEF PatchPublished
<1>7. CASE RecordOutcome \/ Complete \/ FinishExport
    BY <1>7 DEF RecordOutcome, Complete, FinishExport, GuardedSave, Commit,
                CommitUnseen, Raised
<1>8. CASE Export
    BY <1>8 DEF Export
<1>9. CASE RemoveTree \/ DropGrants
    BY <1>9 DEF RemoveTree, DropGrants
<1>10. CASE RemoveTreeStops
    BY <1>10 DEF RemoveTreeStops, EndSession, Raised
<1>11. CASE MarkDiscard
    BY <1>11 DEF MarkDiscard, EndSession, CommitUnseen, Raised
<1>12. CASE Raise
    BY <1>12 DEF Raise, Raised
<1>13. CASE HandleFailure
    BY <1>13 DEF HandleFailure, SafeTransition, Commit, CommitUnseen, EndSession
<1>14. CASE RecoverExport
    BY <1>14 DEF RecoverExport
<1>15. CASE RecoverMark
    BY <1>15 DEF RecoverMark, SafeTransition, Commit, CommitUnseen
<1>16. CASE Refuse \/ Crash
    BY <1>16 DEF Refuse, Crash, Abandon, EndSession
<1>17. CASE UNCHANGED vars
    BY <1>17 DEF vars
<1> QED
    BY <1>1, <1>2, <1>3, <1>4, <1>5, <1>6, <1>7, <1>8, <1>9, <1>10, <1>11, <1>12,
       <1>13, <1>14, <1>15, <1>16, <1>17
    DEF Next, Step

\* Settling closes the pending effect and lists its identifier.
LEMMA SettledShape ==
    ASSUME NEW s \in TaskStates, NEW phase, NEW g, NEW outcome
    PROVE  LET new == Settled(s, phase, g, outcome)
           IN  /\ new.pending = None
               /\ \E e : e.id = s.pending.id /\ new.effects = s.effects \cup {e}
<1> DEFINE e == [id |-> s.pending.id, recipe |-> s.pending.recipe, outcome |-> outcome]
<1>1. e.id = s.pending.id
    OBVIOUS
<1>2. Settled(s, phase, g, outcome).pending = None
    BY DEF Settled, TaskStates
<1>3. Settled(s, phase, g, outcome).effects = s.effects \cup {e}
    BY DEF Settled, TaskStates
<1> QED BY <1>1, <1>2, <1>3

\* No step touches the journal except by opening its one slot, by closing it
\* into an outcome, or by saving something else beside it.
LEMMA JournalStep ==
    ASSUME TypeInv, SessionView, [Next]_vars
    PROVE  \/ Kept
           \/ Closed
           \/ Opened /\ \E a \in ActionIds, r \in Recipes \cup {NoRecipe} : Schedule(a, r)
<1> USE DEF Kept
<1>1. CASE UNCHANGED disk
    BY <1>1
<1>2. CASE Reconcile
    <2>1. ~behind /\ mem = disk /\ disk \in TaskStates /\ toolGen \in Nat
        BY <1>2 DEF SessionView, Reconcile, Commit, Accepts, TypeInv, TypeOK
    <2>2. disk' = Reconciled(disk, toolGen)
        BY <1>2, <2>1 DEF Reconcile, Commit
    <2>3. CASE disk.pending = None
        BY <2>1, <2>2, <2>3 DEF Reconciled, TaskStates
    <2>4. CASE disk.pending # None
        <3>1. Closed
            BY <2>1, <2>2, <2>4, SettledShape DEF Reconciled, Closed
        <3> QED BY <3>1
    <2> QED BY <2>3, <2>4
<1>3. CASE EnterExecute
    BY <1>3 DEF EnterExecute, Commit, Accepts, Phased, SessionView, TypeInv, TypeOK, TaskStates
<1>4. ASSUME NEW a \in ActionIds, NEW r \in Recipes \cup {NoRecipe}, Schedule(a, r)
      PROVE  Kept \/ Opened
    BY <1>4 DEF Schedule, GuardedSave, Commit, CommitUnseen, Accepts, Schedulable, Scheduled,
                SessionView, TypeInv, TypeOK, TaskStates, Opened
<1>5. CASE RecordOutcome
    <2>1. mem = disk /\ disk \in TaskStates /\ disk.pending # None
        BY <1>5 DEF SessionView, RecordOutcome, Body, TypeInv, TypeOK, ActiveHasPending
    <2>2. disk' = Completed(disk, ok, toolGen)
        BY <1>5, <2>1 DEF RecordOutcome, GuardedSave, Commit, CommitUnseen
    <2>3. Closed
        BY <2>1, <2>2, SettledShape DEF Completed, Closed
    <2> QED BY <2>3
<1>6. CASE Complete
    BY <1>6 DEF Complete, GuardedSave, Commit, CommitUnseen, Accepts, SessionView, TypeInv,
                TypeOK, TaskStates
<1>7. CASE FinishExport
    BY <1>7 DEF FinishExport, GuardedSave, Commit, CommitUnseen, Accepts, Phased, SessionView,
                TypeInv, TypeOK, TaskStates
<1>8. CASE MarkDiscard
    BY <1>8 DEF MarkDiscard, EndSession, CommitUnseen, Accepts, Discarded, SessionView, TypeInv,
                TypeOK, TaskStates
<1>9. CASE HandleFailure
    BY <1>9 DEF HandleFailure, SafeTransition, Commit, CommitUnseen, EndSession, Accepts, Phased,
                SessionView, TypeInv, TypeOK, TaskStates, record
<1>10. CASE RecoverMark
    BY <1>10 DEF RecoverMark, SafeTransition, Commit, CommitUnseen, Accepts, Phased,
                SessionView, TypeInv, TypeOK, TaskStates, record
<1>11. CASE RemoveTreeStops \/ Refuse \/ Crash
    BY <1>11, <1>1 DEF RemoveTreeStops, Refuse, Crash, Abandon, EndSession, record
<1> QED
    BY <1>1, <1>2, <1>3, <1>4, <1>5, <1>6, <1>7, <1>8, <1>9, <1>10, <1>11
    DEF Next, Begin, Step, vars, record, Resume, StartDiscard, RedirectOutput, RecoverLatest,
        RevokeRecipe, InvokeTool, ToolReturns, PatchPublished, Export, RemoveTree, DropGrants,
        Raise, RecoverExport

\* An identifier the journal knows stays known.
LEMMA AccountedStays ==
    ASSUME Kept \/ Closed \/ Opened, NEW a \in ActionIds, a \in DoneIds(disk) \/ PendingIs(a)
    PROVE  a \in DoneIds(disk)' \/ PendingIs(a)'
<1>1. CASE Kept
    BY <1>1 DEF Kept, DoneIds, PendingIs
<1>2. CASE Closed
    BY <1>2 DEF Closed, DoneIds, PendingIs
<1>3. CASE Opened
    BY <1>3 DEF Opened, DoneIds, PendingIs
<1> QED BY <1>1, <1>2, <1>3

\* A scheduled identifier has never been run.
LEMMA ScheduleFresh ==
    ASSUME TypeInv, JournalInv, NEW a \in ActionIds, NEW r \in Recipes \cup {NoRecipe},
           Schedule(a, r)
    PROVE  NotYetRun'
<1>1. mem = disk /\ a \notin DoneIds(disk) /\ disk.pending = None
    BY DEF Schedule, Schedulable, JournalInv, SessionView, Body
<1>2. runs[a] = 0
    BY <1>1 DEF JournalInv, RunsAccounted, PendingIs, TypeInv, TypeOK
<1>3. pc' = "execute" => mem' = Scheduled(mem, a, r)
    BY DEF Schedule, GuardedSave, Commit, CommitUnseen, Raised
<1>4. Scheduled(mem, a, r).pending.id = a
    BY DEF Scheduled, TypeInv, TypeOK, TaskStates
<1> QED BY <1>2, <1>3, <1>4 DEF NotYetRun, Schedule

\* Everywhere else the tool is about to run only where it already was.
LEMMA NotYetRunStep ==
    ASSUME TypeInv, JournalInv, [Next]_vars
    PROVE  NotYetRun'
<1> USE DEF NotYetRun, JournalInv
<1>1. ASSUME NEW a \in ActionIds, NEW r \in Recipes \cup {NoRecipe}, Schedule(a, r)
      PROVE  NotYetRun'
    BY <1>1, ScheduleFresh
<1>2. CASE UNCHANGED vars
    BY <1>2 DEF vars, record, observed
<1>3. CASE Begin
    BY <1>3 DEF Begin, Resume, StartDiscard
<1>4. CASE RedirectOutput
    BY <1>4 DEF RedirectOutput
<1>5. ASSUME Step \/ Crash, ~RedirectOutput,
             ~\E a \in ActionIds, r \in Recipes \cup {NoRecipe} : Schedule(a, r)
      PROVE  pc' # "execute"
    BY <1>5 DEF Step, RecoverLatest, Reconcile, RevokeRecipe, EnterExecute, InvokeTool,
        ToolReturns, PatchPublished, RecordOutcome, Complete, Export, FinishExport, GuardedSave,
        RemoveTree, RemoveTreeStops, DropGrants, MarkDiscard, Raise, Raised, EndSession,
        HandleFailure, RecoverExport, RecoverMark, Refuse, Crash, Abandon
<1> QED BY <1>1, <1>2, <1>3, <1>4, <1>5 DEF Next

\* Only InvokeTool counts an execution.
LEMMA RunsStep ==
    ASSUME [Next]_vars
    PROVE  runs' = runs \/ (InvokeTool /\ disk' = disk)
    BY DEF Next, Begin, Step, vars, observed, record, Resume, StartDiscard, RedirectOutput,
        RecoverLatest, Reconcile, RevokeRecipe, EnterExecute, Schedule, InvokeTool,
        ToolReturns, PatchPublished, RecordOutcome, Complete, Export, FinishExport,
        RemoveTree, RemoveTreeStops, DropGrants, MarkDiscard, Raise,
        HandleFailure, RecoverExport, RecoverMark, Refuse, Crash, Abandon

\* Every execution stays accounted for, and none is a second one.
LEMMA RunsAccountedStep ==
    ASSUME TypeInv, JournalInv, [Next]_vars
    PROVE  RunsAccounted' /\ AtMostOnce'
<1>1. Kept \/ Closed \/ Opened
    BY JournalStep DEF JournalInv
<1>2. CASE runs' = runs
    BY <1>1, <1>2, AccountedStays DEF JournalInv, RunsAccounted, AtMostOnce
<1>3. CASE InvokeTool /\ disk' = disk
    <2>1. mem = disk /\ mem.pending # None /\ mem.pending.id \in ActionIds
        BY <1>3 DEF InvokeTool, JournalInv, SessionView, Body, TypeInv, TypeOK,
                    ActiveHasPending, TaskStates, PendingEffects
    <2> PICK b \in ActionIds : b = mem.pending.id
        BY <2>1
    <2>2. runs[b] = 0 /\ runs \in [ActionIds -> Nat]
        BY <1>3 DEF InvokeTool, JournalInv, NotYetRun, TypeInv, TypeOK
    <2>3. runs' = [runs EXCEPT ![b] = runs[b] + 1]
        BY <1>3 DEF InvokeTool
    <2>4. PendingIs(b)'
        BY <1>3, <2>1 DEF PendingIs
    <2>5. runs'[b] = 1 /\ \A a \in ActionIds \ {b} : runs'[a] = runs[a]
        BY <2>1, <2>2, <2>3
    <2>6. ASSUME NEW a \in ActionIds
          PROVE  /\ runs'[a] <= 1
                 /\ runs'[a] >= 1 => (a \in DoneIds(disk) \/ PendingIs(a))'
        <3>1. CASE a = b
            BY <3>1, <2>4, <2>5
        <3>2. CASE a # b
            BY <3>2, <2>5, <1>3 DEF JournalInv, AtMostOnce, RunsAccounted, PendingIs, DoneIds
        <3> QED BY <3>1, <3>2
    <2> QED BY <2>6 DEF RunsAccounted, AtMostOnce
<1> QED BY <1>2, <1>3, RunsStep

\* The journal's invariant holds when a task is created and is kept.
LEMMA JournalInvariant == Spec => [](TypeInv /\ JournalInv)
<1>1. Init => TypeInv /\ JournalInv
    <2>1. ASSUME Init PROVE JournalInv
        BY <2>1 DEF Init, JournalInv, SessionView, RunsAccounted, NotYetRun, AtMostOnce
    <2> QED BY <2>1, InitTypeInv
<1>2. TypeInv /\ JournalInv /\ [Next]_vars => TypeInv' /\ JournalInv'
    BY NextTypeInv, SessionViewStep, NotYetRunStep, RunsAccountedStep DEF JournalInv
<1> QED BY <1>1, <1>2, PTL DEF Spec

\* No action identifier reaches a tool twice, whatever crashes, failed saves
\* and resumes happen in between.
THEOREM ExecutedAtMostOnce == Spec => []AtMostOnce
<1>1. JournalInv => AtMostOnce
    BY DEF JournalInv
<1> QED BY <1>1, JournalInvariant, PTL

\* A scheduled effect is never dropped: it leaves its slot only into the list
\* of outcomes.
THEOREM EffectsAreNotForgotten == Spec => NoEffectForgotten
<1>1. ASSUME TypeInv, JournalInv, [Next]_vars
      PROVE  disk.pending # None /\ disk'.pending # disk.pending
                 => disk.pending.id \in DoneIds(disk')
    <2>1. Kept \/ Closed \/ Opened
        BY <1>1, JournalStep DEF JournalInv
    <2> QED BY <2>1 DEF Kept, Closed, Opened, DoneIds
<1>2. TypeInv /\ JournalInv /\ [Next]_vars
      => [disk.pending # None /\ disk'.pending # disk.pending
             => disk.pending.id \in DoneIds(disk')]_vars
    BY <1>1
<1> QED BY <1>2, JournalInvariant, PTL DEF Spec, NoEffectForgotten

(***************************************************************************)
(* What discard leaves.  A session works in the tree only while the tree   *)
(* is there, and the marks of `discard' follow the removals.               *)
(***************************************************************************)

InTree == {"reconcile", "revoke", "enter"} \cup Body
TreeThere == pc \in InTree => workspace = "whole"
Cleared ==
    /\ pc \in {"dropGrants", "markDiscard"} => workspace = "gone"
    /\ pc = "markDiscard" => grants = {}
CleanInv == TreeThere /\ Cleared /\ DiscardedIsClean

\* No step outside MarkDiscard enters the DISCARD phase.
LEMMA DiscardPhaseStep ==
    ASSUME TypeInv, SessionView, [Next]_vars, disk'.phase = "discard"
    PROVE  disk.phase = "discard" \/ MarkDiscard
<1> USE DEF TypeInv, TypeOK, TaskStates
<1>1. CASE UNCHANGED disk
    BY <1>1
<1>2. CASE Reconcile
    <2>1. ~behind /\ mem = disk /\ disk' = Reconciled(disk, toolGen)
        BY <1>2 DEF SessionView, Reconcile, Commit, Accepts
    <2> QED BY <2>1 DEF Reconciled, Settled
<1>3. CASE EnterExecute
    BY <1>3 DEF EnterExecute, Commit, Phased
<1>4. ASSUME NEW a \in ActionIds, NEW r \in Recipes \cup {NoRecipe}, Schedule(a, r)
      PROVE  disk.phase = "discard"
    BY <1>4 DEF Schedule, GuardedSave, Commit, CommitUnseen, Scheduled
<1>5. CASE RecordOutcome
    BY <1>5 DEF RecordOutcome, GuardedSave, Commit, CommitUnseen, Completed, Settled
<1>6. CASE Complete
    BY <1>6 DEF Complete, GuardedSave, Commit, CommitUnseen
<1>7. CASE FinishExport
    BY <1>7 DEF FinishExport, GuardedSave, Commit, CommitUnseen, Phased
<1>8. CASE HandleFailure
    BY <1>8 DEF HandleFailure, SafeTransition, Commit, CommitUnseen, EndSession, Phased, record
<1>9. CASE RecoverMark
    BY <1>9 DEF RecoverMark, SafeTransition, Commit, CommitUnseen, Phased, record
<1>10. CASE RemoveTreeStops \/ Refuse \/ Crash
    BY <1>10, <1>1 DEF RemoveTreeStops, Refuse, Crash, Abandon, EndSession, record
<1> QED
    BY <1>1, <1>2, <1>3, <1>4, <1>5, <1>6, <1>7, <1>8, <1>9, <1>10
    DEF Next, Begin, Step, vars, record, Resume, StartDiscard, RedirectOutput, RecoverLatest,
        RevokeRecipe, InvokeTool, ToolReturns, PatchPublished, Export, RemoveTree, DropGrants,
        Raise, RecoverExport

\* The order of the removals and the mark is kept by every step.
LEMMA CleanStep ==
    ASSUME TypeInv, SessionView, CleanInv, [Next]_vars
    PROVE  CleanInv'
<1> USE DEF CleanInv, TreeThere, Cleared, DiscardedIsClean, InTree, Body, record, tree, locals
<1>1. disk'.phase = "discard" => disk.phase = "discard" \/ MarkDiscard
    BY DiscardPhaseStep
<1>2. CASE Begin
    BY <1>2, <1>1 DEF Begin, Resume, StartDiscard, MarkDiscard
<1>3. CASE RedirectOutput \/ RecoverLatest
    BY <1>3, <1>1 DEF RedirectOutput, RecoverLatest, MarkDiscard
<1>4. CASE Reconcile \/ EnterExecute
    BY <1>4, <1>1 DEF Reconcile, EnterExecute, MarkDiscard
<1>5. CASE RevokeRecipe
    BY <1>5, <1>1 DEF RevokeRecipe, MarkDiscard
<1>6. ASSUME NEW a \in ActionIds, NEW r \in Recipes \cup {NoRecipe}, Schedule(a, r)
      PROVE  CleanInv'
    BY <1>6, <1>1 DEF Schedule, GuardedSave, Raised, MarkDiscard
<1>7. CASE InvokeTool \/ ToolReturns
    BY <1>7, <1>1 DEF InvokeTool, ToolReturns, MarkDiscard
<1>8. CASE PatchPublished
    BY <1>8, <1>1 DEF PatchPublished, Raised, MarkDiscard
<1>9. CASE RecordOutcome \/ Complete \/ FinishExport
    BY <1>9, <1>1 DEF RecordOutcome, Complete, FinishExport, GuardedSave, Raised, MarkDiscard
<1>10. CASE Export
    BY <1>10, <1>1 DEF Export, Raised, MarkDiscard
<1>11. CASE RemoveTree
    BY <1>11, <1>1 DEF RemoveTree, MarkDiscard
<1>12. CASE RemoveTreeStops
    BY <1>12, <1>1 DEF RemoveTreeStops, EndSession, Raised, MarkDiscard
<1>13. CASE DropGrants
    <2>1. grants' = {}
        BY <1>13 DEF DropGrants, Remaining, TypeInv, TypeOK
    <2> QED BY <1>13, <1>1, <2>1 DEF DropGrants, MarkDiscard
<1>14. CASE MarkDiscard
    BY <1>14 DEF MarkDiscard, EndSession, Raised
<1>15. CASE Raise
    BY <1>15, <1>1 DEF Raise, Raised, MarkDiscard
<1>16. CASE HandleFailure
    BY <1>16, <1>1 DEF HandleFailure, EndSession, MarkDiscard
<1>17. CASE RecoverExport \/ RecoverMark
    BY <1>17, <1>1 DEF RecoverExport, RecoverMark, MarkDiscard
<1>18. CASE Refuse \/ Crash
    BY <1>18, <1>1 DEF Refuse, Crash, Abandon, EndSession, MarkDiscard
<1>19. CASE UNCHANGED vars
    BY <1>19 DEF vars
<1> QED
    BY <1>2, <1>3, <1>4, <1>5, <1>6, <1>7, <1>8, <1>9, <1>10, <1>11, <1>12, <1>13, <1>14,
       <1>15, <1>16, <1>17, <1>18, <1>19
    DEF Next, Step

\* The removals come before the mark in every reachable state.
LEMMA CleanInvariant == Spec => []CleanInv
<1>1. Init => CleanInv
    BY DEF Init, CleanInv, TreeThere, Cleared, DiscardedIsClean, InTree, Body
<1>2. TypeInv /\ JournalInv /\ CleanInv /\ [Next]_vars => CleanInv'
    BY CleanStep DEF JournalInv
<1> QED BY <1>1, <1>2, JournalInvariant, PTL DEF Spec

\* A record says `discard' only after its workspace and every grant are gone,
\* for any number of sessions, failed saves and crashes.
THEOREM DiscardLeavesNothing == Spec => []DiscardedIsClean
<1>1. CleanInv => DiscardedIsClean
    BY DEF CleanInv
<1> QED BY <1>1, CleanInvariant, PTL

(***************************************************************************)
(* The record and the generations.  The workspace is at the recorded       *)
(* generation, or one past it by the patch that is pending; the session's  *)
(* toolGen is what tells the two apart when the outcome is recorded, and   *)
(* the recorded `before' is what tells them apart after a crash.           *)
(***************************************************************************)

AtFrontier == Len(published) = disk.generation
PastFrontier ==
    /\ Len(published) = disk.generation + 1
    /\ published[Len(published)] = disk.pending.id
    /\ disk.pending.recipe = NoRecipe
PendingPlaced ==
    /\ disk.pending.before = disk.generation
    /\ (AtFrontier /\ ~PublishedBy(disk.pending.id)) \/ PastFrontier
Frontier ==
    disk.phase # "discard" =>
        IF disk.pending = None THEN AtFrontier ELSE PendingPlaced
PendingOpen == disk.pending # None => disk.pending.id \notin DoneIds(disk)
PublishedKnown ==
    \A a \in ActionIds : PublishedBy(a) => a \in DoneIds(disk) \/ PendingIs(a)
RecordTrue == Frontier /\ PendingOpen /\ PublishedKnown /\ OutcomesTruthful
ToolView ==
    /\ pc \in InTree => toolGen = Len(published)
    /\ pc \in {"revoke", "enter", "loop", "export", "finish"} => disk.pending = None
    /\ pc \in {"execute", "running"} => AtFrontier
    /\ pc = "record" => (AtFrontier <=> ~(ok /\ disk.pending.recipe = NoRecipe))
    /\ pc \in Handler \cup Discarding /\ disk.phase # "discard"
           => toolGen \in {disk.generation, Len(published)}
    /\ guarded => pc \in Body \cup Discarding
GenerationInv == RecordTrue /\ ToolView

\* A session that has a tree to work in has the record on disk before it,
\* and that record is not discarded.
LEMMA InTreeRecord ==
    ASSUME SessionView, CleanInv, pc \in InTree
    PROVE  mem = disk /\ disk.phase # "discard"
    BY DEF SessionView, CleanInv, TreeThere, DiscardedIsClean, InTree, Setup, Body

\* A save that keeps the journal and the generation keeps what the record
\* says of the workspace true.
LEMMA RecordKeptTrue ==
    ASSUME RecordTrue, Kept, disk'.generation = disk.generation, published' = published,
           disk'.phase # "discard" => disk.phase # "discard"
    PROVE  RecordTrue'
    BY DEF RecordTrue, Frontier, PendingOpen, PublishedKnown, OutcomesTruthful, Kept, AtFrontier,
           PastFrontier, PendingPlaced, PublishedBy, PendingIs, DoneIds

\* A pending patch that moved the frontier is a published one.
LEMMA PastIsPublished ==
    ASSUME TypeInv, PastFrontier
    PROVE  PublishedBy(disk.pending.id)
<1>1. Len(published) \in DOMAIN published
    BY DEF TypeInv, TypeOK, TaskStates, PastFrontier
<1> QED BY <1>1 DEF PastFrontier, PublishedBy

\* Settling the pending effect at the frontier of the workspace, as succeeded
\* exactly when it moved that frontier, keeps the record true.
LEMMA SettledTrue ==
    ASSUME TypeInv, RecordTrue, disk.pending # None, disk.phase # "discard",
           NEW phase, NEW outcome,
           disk' = Settled(disk, phase, Len(published), outcome), published' = published,
           disk.pending.recipe = NoRecipe => (outcome = "succeeded" <=> PastFrontier)
    PROVE  RecordTrue'
<1> DEFINE e == [id |-> disk.pending.id, recipe |-> disk.pending.recipe, outcome |-> outcome]
<1>1. disk'.pending = None /\ disk'.generation = Len(published)
    BY DEF Settled, TypeInv, TypeOK, TaskStates
<1>2. disk'.effects = disk.effects \cup {e}
    BY DEF Settled, TypeInv, TypeOK, TaskStates
<1>3. Frontier' /\ PendingOpen'
    BY <1>1 DEF Frontier, PendingOpen, AtFrontier
<1>4. PublishedKnown'
    <2>1. Closed
        BY <1>1, <1>2 DEF Closed
    <2> QED BY <2>1, AccountedStays DEF RecordTrue, PublishedKnown, PublishedBy
<1>5. OutcomesTruthful'
    <2>1. e.recipe = NoRecipe => (e.outcome = "succeeded" <=> PublishedBy(e.id))
        BY PastIsPublished DEF RecordTrue, Frontier, PendingPlaced
    <2> HIDE DEF e
    <2>2. \A f \in disk.effects \cup {e} :
              f.recipe = NoRecipe => (f.outcome = "succeeded" <=> PublishedBy(f.id))
        BY <2>1 DEF RecordTrue, OutcomesTruthful
    <2> QED BY <1>2, <2>2 DEF OutcomesTruthful, PublishedBy
<1> QED BY <1>3, <1>4, <1>5 DEF RecordTrue

\* after_execute, on the outcome the tool returned.
LEMMA RecordOutcomeTrue ==
    ASSUME TypeInv, SessionView, CleanInv, GenerationInv, RecordOutcome
    PROVE  RecordTrue'
<1> DEFINE good == IF ok THEN "succeeded" ELSE "failed"
<1>1. mem = disk /\ disk.phase # "discard" /\ disk.pending # None
    BY InTreeRecord DEF RecordOutcome, InTree, Body, TypeInv, ActiveHasPending
<1>2. disk' = Completed(disk, ok, toolGen) /\ published' = published
    BY <1>1 DEF RecordOutcome, GuardedSave, Commit, CommitUnseen, tree
<1>3. toolGen = Len(published) /\ (AtFrontier <=> ~(ok /\ disk.pending.recipe = NoRecipe))
    BY DEF RecordOutcome, GenerationInv, ToolView, InTree, Body
<1>4. AtFrontier \/ PastFrontier
    BY <1>1 DEF GenerationInv, RecordTrue, Frontier, PendingPlaced
<1>5. (IF disk.pending.recipe = NoRecipe /\ ok THEN toolGen ELSE disk.generation)
          = Len(published)
    BY <1>3 DEF AtFrontier
<1>6. PastFrontier => ~AtFrontier
    BY DEF PastFrontier, AtFrontier, TypeInv, TypeOK, TaskStates
<1>7. disk.pending.recipe = NoRecipe => (good = "succeeded" <=> PastFrontier)
    BY <1>3, <1>4, <1>6
<1>8. disk' = Settled(disk, IF Len(published) > 0 THEN "review" ELSE "execute",
                      Len(published), good)
    BY <1>2, <1>5 DEF Completed
<1> QED BY <1>1, <1>2, <1>7, <1>8, SettledTrue DEF GenerationInv

\* reconcile, on the outcome it infers from the recovered generation.
LEMMA ReconcileTrue ==
    ASSUME TypeInv, SessionView, CleanInv, GenerationInv, Reconcile
    PROVE  RecordTrue'
<1>1. mem = disk /\ disk.phase # "discard"
    BY InTreeRecord DEF Reconcile, InTree
<1>2. disk' = Reconciled(disk, Len(published)) /\ published' = published
    BY <1>1 DEF Reconcile, Commit, tree, GenerationInv, ToolView, InTree
<1>3. CASE disk.pending = None
    <2>1. Len(published) = disk.generation
        BY <1>1, <1>3 DEF GenerationInv, RecordTrue, Frontier, AtFrontier
    <2>2. Kept /\ disk'.generation = disk.generation
        BY <1>2, <1>3, <2>1 DEF Reconciled, Kept, TypeInv, TypeOK, TaskStates
    <2> QED BY <1>1, <1>2, <2>2, RecordKeptTrue DEF GenerationInv
<1>4. CASE disk.pending # None
    <2> DEFINE outcome == Inferred(disk.pending, Len(published))
    <2>1. PendingPlaced
        BY <1>1, <1>4 DEF GenerationInv, RecordTrue, Frontier
    <2>2. Len(published) > disk.generation <=> PastFrontier
        BY <2>1 DEF PendingPlaced, AtFrontier, PastFrontier, TypeInv, TypeOK, TaskStates
    <2>3. disk.pending.recipe = NoRecipe => (outcome = "succeeded" <=> PastFrontier)
        BY <2>1, <2>2 DEF Inferred, PendingPlaced
    <2> HIDE DEF outcome
    <2>4. disk' = Settled(disk, IF outcome = "succeeded" THEN "review" ELSE "retry",
                          Len(published), outcome)
        BY <1>2, <1>4 DEF Reconciled, outcome
    <2> QED BY <1>1, <1>2, <1>4, <2>3, <2>4, SettledTrue DEF GenerationInv
<1> QED BY <1>3, <1>4

\* before_execute, on an identifier the journal does not know.
LEMMA ScheduleTrue ==
    ASSUME TypeInv, SessionView, CleanInv, GenerationInv,
           NEW a \in ActionIds, NEW r \in Recipes \cup {NoRecipe}, Schedule(a, r)
    PROVE  RecordTrue'
<1> DEFINE new == [id |-> a, recipe |-> r, before |-> disk.generation]
<1>1. mem = disk /\ disk.phase # "discard"
    BY InTreeRecord DEF Schedule, InTree, Body
<1>2. disk' = Scheduled(disk, a, r) /\ published' = published
    BY <1>1 DEF Schedule, GuardedSave, Commit, CommitUnseen, tree
<1>3. disk.pending = None /\ a \notin DoneIds(disk)
    BY <1>1 DEF Schedule, Schedulable
<1>4. /\ disk'.pending = new /\ disk'.effects = disk.effects
      /\ disk'.generation = disk.generation
    BY <1>2 DEF Scheduled, TypeInv, TypeOK, TaskStates
<1>5. AtFrontier /\ ~PublishedBy(a)
    BY <1>1, <1>3 DEF GenerationInv, RecordTrue, Frontier, PublishedKnown, PendingIs
<1>6. PendingPlaced'
    BY <1>2, <1>4, <1>5 DEF PendingPlaced, AtFrontier, PublishedBy
<1>7. new # None
    BY ConstantsAssumption DEF PendingEffects, TypeInv, TypeOK, TaskStates
<1>8. Frontier' /\ PendingOpen'
    BY <1>3, <1>4, <1>6, <1>7 DEF Frontier, PendingOpen, DoneIds
<1>9. PublishedKnown' /\ OutcomesTruthful'
    BY <1>2, <1>3, <1>4 DEF GenerationInv, RecordTrue, PublishedKnown, OutcomesTruthful,
                            PublishedBy, DoneIds, PendingIs
<1> QED BY <1>8, <1>9 DEF RecordTrue

\* The editor publishes what is pending.
LEMMA PublishedTrue ==
    ASSUME TypeInv, SessionView, CleanInv, GenerationInv, PatchPublished
    PROVE  RecordTrue' /\ PastFrontier'
<1>1. mem = disk /\ disk.phase # "discard" /\ disk.pending # None
    BY InTreeRecord DEF PatchPublished, InTree, Body, TypeInv, ActiveHasPending
<1> DEFINE b == disk.pending.id
<1>2. /\ published' = Append(published, b) /\ disk' = disk
      /\ disk.pending.recipe = NoRecipe
    BY <1>1 DEF PatchPublished, record
<1>3. b \in ActionIds /\ published \in Seq(ActionIds)
    BY <1>1 DEF TypeInv, TypeOK, TaskStates, PendingEffects
<1>4. AtFrontier /\ ~PublishedBy(b)
    <2>1. AtFrontier
        BY DEF PatchPublished, GenerationInv, ToolView
    <2>2. ~PastFrontier
        BY <2>1 DEF AtFrontier, PastFrontier, TypeInv, TypeOK, TaskStates
    <2> QED BY <1>1, <2>1, <2>2 DEF GenerationInv, RecordTrue, Frontier, PendingPlaced
<1>5. Len(published') = Len(published) + 1 /\ published'[Len(published) + 1] = b
    BY <1>2, <1>3
<1>6. \A a : PublishedBy(a)' => PublishedBy(a) \/ a = b
    BY <1>2, <1>3 DEF PublishedBy
<1>7. \A a : PublishedBy(a) => PublishedBy(a)'
    BY <1>2, <1>3 DEF PublishedBy
<1>8. PastFrontier'
    BY <1>2, <1>4, <1>5 DEF PastFrontier, AtFrontier
<1>9. Frontier' /\ PendingOpen'
    BY <1>1, <1>2, <1>8 DEF GenerationInv, RecordTrue, Frontier, PendingPlaced, PendingOpen,
                            DoneIds
<1>10. PublishedKnown'
    BY <1>1, <1>2, <1>6 DEF GenerationInv, RecordTrue, PublishedKnown, PendingIs, DoneIds
<1>11. OutcomesTruthful'
    <2>1. \A e \in disk.effects : e.id # b
        BY <1>1 DEF GenerationInv, RecordTrue, PendingOpen, DoneIds
    <2> QED BY <1>2, <1>6, <1>7, <2>1 DEF GenerationInv, RecordTrue, OutcomesTruthful
<1> QED BY <1>8, <1>9, <1>10, <1>11 DEF RecordTrue

\* Every other step keeps journal, generation and tree's history, and none
\* leaves the DISCARD phase.
LEMMA OtherRecordKept ==
    ASSUME TypeInv, SessionView, CleanInv, GenerationInv, [Next]_vars,
           ~Reconcile, ~RecordOutcome, ~PatchPublished, ~MarkDiscard,
           ~\E a \in ActionIds, r \in Recipes \cup {NoRecipe} : Schedule(a, r)
    PROVE  /\ Kept /\ disk'.generation = disk.generation /\ published' = published
           /\ disk'.phase # "discard" => disk.phase # "discard"
<1> USE DEF Kept, TypeInv, TypeOK, TaskStates, SessionView, tree
<1>1. ASSUME UNCHANGED <<disk, published>>
      PROVE  /\ Kept /\ disk'.generation = disk.generation /\ published' = published
             /\ disk'.phase # "discard" => disk.phase # "discard"
    BY <1>1
<1>2. CASE EnterExecute
    BY <1>2 DEF EnterExecute, Commit, Accepts, Phased, Legal, Transitions
<1>3. CASE Complete
    <2>1. mem = disk /\ disk.phase # "discard" /\ disk.pending = None /\ toolGen = Len(published)
        BY <1>3, InTreeRecord DEF Complete, InTree, Body, GenerationInv, ToolView
    <2>2. toolGen = disk.generation
        BY <2>1 DEF GenerationInv, RecordTrue, Frontier, AtFrontier
    <2> QED BY <1>3, <2>1, <2>2 DEF Complete, GuardedSave, Commit, CommitUnseen
<1>4. CASE FinishExport
    BY <1>4 DEF FinishExport, GuardedSave, Commit, CommitUnseen, Accepts, Phased, Legal,
                Transitions
<1>5. CASE HandleFailure
    BY <1>5 DEF HandleFailure, SafeTransition, Commit, CommitUnseen, EndSession, Accepts,
                Phased, Legal, Transitions, record
<1>6. CASE RecoverMark
    BY <1>6 DEF RecoverMark, SafeTransition, Commit, CommitUnseen, Accepts, Phased, Legal,
                Transitions, record
<1>7. CASE RemoveTreeStops \/ Refuse \/ Crash
    BY <1>7 DEF RemoveTreeStops, Refuse, Crash, Abandon, EndSession, record
<1> QED
    BY <1>1, <1>2, <1>3, <1>4, <1>5, <1>6, <1>7
    DEF Next, Begin, Step, vars, record, Resume, StartDiscard, RedirectOutput, RecoverLatest,
        RevokeRecipe, InvokeTool, ToolReturns, Export, RemoveTree, DropGrants,
        Raise, RecoverExport

\* The mark of `discard' settles nothing.
LEMMA MarkDiscardTrue ==
    ASSUME TypeInv, SessionView, GenerationInv, MarkDiscard
    PROVE  RecordTrue'
<1>1. mem = disk /\ disk' = Discarded(disk) /\ published' = published
    BY DEF MarkDiscard, Accepts, SessionView, EndSession, CommitUnseen, tree
<1>2. disk'.phase = "discard" /\ Kept
    BY <1>1 DEF Discarded, Kept, TypeInv, TypeOK, TaskStates
<1> QED BY <1>1, <1>2 DEF GenerationInv, RecordTrue, Frontier, PendingOpen, PublishedKnown,
        OutcomesTruthful, PublishedBy, PendingIs, DoneIds, Kept

\* Every step keeps the record true of the workspace.
LEMMA RecordTrueStep ==
    ASSUME TypeInv, SessionView, CleanInv, GenerationInv, [Next]_vars
    PROVE  RecordTrue'
<1>1. CASE Reconcile
    BY <1>1, ReconcileTrue
<1>2. CASE RecordOutcome
    BY <1>2, RecordOutcomeTrue
<1>3. CASE PatchPublished
    BY <1>3, PublishedTrue
<1>4. CASE MarkDiscard
    BY <1>4, MarkDiscardTrue
<1>5. ASSUME NEW a \in ActionIds, NEW r \in Recipes \cup {NoRecipe}, Schedule(a, r)
      PROVE  RecordTrue'
    BY <1>5, ScheduleTrue
<1>6. ASSUME ~Reconcile, ~RecordOutcome, ~PatchPublished, ~MarkDiscard,
             ~\E a \in ActionIds, r \in Recipes \cup {NoRecipe} : Schedule(a, r)
      PROVE  RecordTrue'
    BY <1>6, OtherRecordKept, RecordKeptTrue DEF GenerationInv
<1> QED BY <1>1, <1>2, <1>3, <1>4, <1>5, <1>6

\* An error in the tree leaves toolGen at the workspace's last generation.
LEMMA ToolViewStep ==
    ASSUME TypeInv, SessionView, CleanInv, GenerationInv, [Next]_vars
    PROVE  ToolView'
<1> USE DEF ToolView, InTree, Body, Handler, Discarding, Raised, record, locals, tree
<1> DEFINE Same == /\ Kept /\ disk'.generation = disk.generation /\ published' = published
                   /\ disk'.phase # "discard" => disk.phase # "discard"
<1>0. /\ ToolView
      /\ Reconcile \/ RecordOutcome \/ PatchPublished \/ MarkDiscard \/ Same
         \/ \E a \in ActionIds, r \in Recipes \cup {NoRecipe} : Schedule(a, r)
    BY OtherRecordKept DEF GenerationInv
<1>1. CASE Resume
    BY <1>1, <1>0 DEF Resume
<1>2. CASE StartDiscard
    BY <1>2, <1>0 DEF StartDiscard
<1>3. CASE RedirectOutput
    BY <1>3, <1>0 DEF RedirectOutput
<1>4. CASE RecoverLatest
    BY <1>4, <1>0 DEF RecoverLatest
<1>5. CASE Reconcile
    <2>1. mem = disk
        BY <1>5, InTreeRecord DEF Reconcile
    <2>2. disk'.pending = None
        BY <1>5, <2>1 DEF Reconcile, Commit, Reconciled, Settled, TypeInv, TypeOK, TaskStates
    <2> QED BY <1>5, <1>0, <2>2 DEF Reconcile
<1>6. CASE RevokeRecipe
    BY <1>6, <1>0 DEF RevokeRecipe
<1>7. CASE EnterExecute
    BY <1>7, <1>0, OtherRecordKept DEF EnterExecute, Reconcile, RecordOutcome,
        PatchPublished, MarkDiscard, Schedule, Kept
<1>8. ASSUME NEW a \in ActionIds, NEW r \in Recipes \cup {NoRecipe}, Schedule(a, r)
      PROVE  ToolView'
    <2>1. mem = disk /\ disk.phase # "discard"
        BY <1>8, InTreeRecord DEF Schedule
    <2>2. disk' = Scheduled(disk, a, r) /\ disk.pending = None
        BY <1>8, <2>1 DEF Schedule, Schedulable, GuardedSave, Commit, CommitUnseen
    <2>3. disk'.generation = disk.generation /\ published' = published
        BY <1>8, <2>2 DEF Scheduled, Schedule, TypeInv, TypeOK, TaskStates
    <2>4. AtFrontier /\ AtFrontier'
        BY <2>1, <2>2, <2>3 DEF GenerationInv, RecordTrue, Frontier, AtFrontier
    <2> QED BY <1>8, <1>0, <2>3, <2>4 DEF Schedule, GuardedSave, AtFrontier
<1>9. CASE InvokeTool
    BY <1>9, <1>0 DEF InvokeTool, AtFrontier
<1>10. CASE ToolReturns
    <2>1. mem = disk
        BY <1>10, InTreeRecord DEF ToolReturns
    <2> QED BY <1>10, <1>0, <2>1 DEF ToolReturns, AtFrontier
<1>11. CASE PatchPublished
    <2>1. mem = disk /\ PastFrontier' /\ AtFrontier /\ toolGen = Len(published)
        BY <1>11, <1>0, PublishedTrue, InTreeRecord DEF PatchPublished
    <2>2. ~AtFrontier' /\ Len(published)' = disk.generation + 1 /\ disk' = disk
        BY <1>11, <2>1 DEF PastFrontier, AtFrontier, PatchPublished, TypeInv, TypeOK, TaskStates
    <2>3. disk.pending.recipe = NoRecipe
        BY <1>11, <2>1 DEF PatchPublished
    <2> QED BY <1>11, <1>0, <2>1, <2>2, <2>3 DEF PatchPublished, AtFrontier
<1>12. CASE RecordOutcome
    <2>1. mem = disk /\ disk.pending # None
        BY <1>12, InTreeRecord DEF RecordOutcome, TypeInv, ActiveHasPending
    <2>2. disk'.pending = None
        BY <1>12, <2>1 DEF RecordOutcome, GuardedSave, Commit, CommitUnseen, Completed, Settled,
                           TypeInv, TypeOK, TaskStates
    <2> QED BY <1>12, <1>0, <2>2 DEF RecordOutcome, GuardedSave
<1>13. CASE Complete \/ FinishExport
    <2>1. pc \in {"loop", "finish"} /\ (pc' \in {"failed", "cancelled"} \/ guarded' = guarded)
        BY <1>13 DEF Complete, FinishExport, GuardedSave
    <2>2. ~Reconcile /\ ~RecordOutcome /\ ~PatchPublished /\ ~MarkDiscard
        BY <2>1 DEF Reconcile, RecordOutcome, PatchPublished, MarkDiscard
    <2>3. Kept
        <3>1. CASE pc = "finish"
            BY <3>1, <2>2, <1>0 DEF Schedule
        <3>2. CASE Complete
            BY <3>2 DEF Complete, GuardedSave, Commit, CommitUnseen, Accepts, SessionView,
                        Kept, TypeInv, TypeOK, TaskStates
        <3> QED BY <1>13, <3>1, <3>2 DEF FinishExport
    <2> QED BY <1>13, <1>0, <2>3 DEF Complete, FinishExport, GuardedSave, Kept
<1>14. CASE Export
    BY <1>14, <1>0 DEF Export
<1>15. CASE RemoveTree \/ DropGrants
    BY <1>15, <1>0 DEF RemoveTree, DropGrants
<1>16. CASE RemoveTreeStops
    BY <1>16, <1>0 DEF RemoveTreeStops, EndSession
<1>17. CASE MarkDiscard
    <2>1. disk'.phase = "discard"
        BY <1>17 DEF MarkDiscard, EndSession, CommitUnseen, Discarded, TypeInv, TypeOK, TaskStates
    <2> QED BY <1>17, <1>0, <2>1 DEF MarkDiscard, EndSession
<1>18. CASE Raise
    BY <1>18, <1>0 DEF Raise
<1>19. CASE HandleFailure
    <2>1. Same
        BY <1>19, <1>0 DEF HandleFailure, Reconcile, RecordOutcome, PatchPublished,
                           MarkDiscard, Schedule
    <2> QED BY <1>19, <1>0, <2>1 DEF HandleFailure, EndSession
<1>20. CASE RecoverExport
    BY <1>20, <1>0 DEF RecoverExport
<1>21. CASE RecoverMark
    <2>1. Same
        BY <1>21, <1>0 DEF RecoverMark, Reconcile, RecordOutcome, PatchPublished,
                           MarkDiscard, Schedule
    <2> QED BY <1>21, <1>0, <2>1 DEF RecoverMark
<1>22. CASE Refuse \/ Crash
    BY <1>22 DEF Refuse, Crash, Abandon, EndSession
<1>23. CASE UNCHANGED vars
    BY <1>23, <1>0 DEF vars, AtFrontier
<1> QED
    BY <1>1, <1>2, <1>3, <1>4, <1>5, <1>6, <1>7, <1>8, <1>9, <1>10, <1>11, <1>12, <1>13,
       <1>14, <1>15, <1>16, <1>17, <1>18, <1>19, <1>20, <1>21, <1>22, <1>23
    DEF Next, Begin, Step

\* Record, workspace and session agree in every reachable state.
LEMMA GenerationInvariant == Spec => []GenerationInv
<1>1. Init => GenerationInv
    <2> SUFFICES ASSUME Init PROVE GenerationInv
        OBVIOUS
    <2>1. disk.pending = None /\ disk.generation = 0 /\ disk.effects = {} /\ published = <<>>
        BY DEF Init
    <2>2. RecordTrue
        BY <2>1 DEF RecordTrue, Frontier, PendingOpen, PublishedKnown, OutcomesTruthful,
                    AtFrontier, PublishedBy
    <2>3. ToolView
        BY DEF Init, ToolView, InTree, Body, Handler, Discarding
    <2> QED BY <2>2, <2>3 DEF GenerationInv
<1>2. TypeInv /\ JournalInv /\ CleanInv /\ GenerationInv /\ [Next]_vars => GenerationInv'
    BY RecordTrueStep, ToolViewStep DEF JournalInv, GenerationInv
<1> QED BY <1>1, <1>2, JournalInvariant, CleanInvariant, PTL DEF Spec

\* A recorded patch says `succeeded' exactly when it published a generation,
\* also where reconcile inferred it, for any number of actions and crashes.
THEOREM OutcomesAreTruthful == Spec => []OutcomesTruthful
<1>1. GenerationInv => OutcomesTruthful
    BY DEF GenerationInv, RecordTrue
<1> QED BY <1>1, GenerationInvariant, PTL

\* A workspace never holds a generation that record and pending patch do not
\* explain, so the next session can always reconcile it.
THEOREM GenerationsExplained == Spec => []GenerationsAccounted
<1>1. CleanInv /\ GenerationInv => GenerationsAccounted
    BY DEF CleanInv, DiscardedIsClean, GenerationInv, RecordTrue, Frontier, PendingPlaced,
           AtFrontier, PastFrontier, GenerationsAccounted
<1> QED BY <1>1, CleanInvariant, GenerationInvariant, PTL

(***************************************************************************)
(* What is exported before the workspace goes.                             *)
(***************************************************************************)

Resumed == /\ pc \in {"recover"} \cup InTree => disk.phase # "discard"
           /\ pc \in {"recover", "reconcile"} => disk.phase # "export"
JustExported == pc \in {"finish", "recoverMark"} => exported = toolGen /\ exported > 0
OnlyRecovers == pc \in {"recoverExport", "recoverMark"} => failureMode = "recover"
WrittenFirst ==
    failureMode = "retain" /\ ~discarded /\ (workspace # "whole" \/ pc \in Discarding)
        => exported > 0 /\ exported = Len(published)
ExportInv ==
    Resumed /\ JustExported /\ OnlyRecovers /\ WrittenFirst /\ ExportCoversRecord

\* Only the two marks after an export enter the EXPORT phase.
LEMMA ExportPhaseStep ==
    ASSUME TypeInv, SessionView, Resumed, [Next]_vars, disk'.phase = "export"
    PROVE  \/ disk.phase = "export" /\ disk'.generation = disk.generation
           \/ FinishExport /\ mem = disk /\ disk'.generation = disk.generation
           \/ RecoverMark /\ mem = disk /\ disk'.generation = disk.generation
                 /\ disk.phase # "discard"
<1> USE DEF TypeInv, TypeOK, TaskStates, SessionView
<1>1. CASE UNCHANGED disk
    BY <1>1
<1>2. CASE Reconcile
    <2>1. ~behind /\ mem = disk /\ disk' = Reconciled(disk, toolGen) /\ disk.phase # "export"
        BY <1>2 DEF Reconcile, Commit, Accepts, Resumed
    <2> QED BY <2>1 DEF Reconciled, Settled
<1>3. CASE EnterExecute
    BY <1>3 DEF EnterExecute, Commit, Phased
<1>4. ASSUME NEW a \in ActionIds, NEW r \in Recipes \cup {NoRecipe}, Schedule(a, r)
      PROVE  FALSE
    BY <1>4 DEF Schedule, GuardedSave, Commit, CommitUnseen, Scheduled
<1>5. CASE RecordOutcome
    BY <1>5 DEF RecordOutcome, GuardedSave, Commit, CommitUnseen, Completed, Settled
<1>6. CASE Complete
    BY <1>6 DEF Complete, GuardedSave, Commit, CommitUnseen
<1>7. CASE FinishExport
    BY <1>7 DEF FinishExport, GuardedSave, Commit, CommitUnseen, Accepts, Phased
<1>8. CASE HandleFailure
    BY <1>8 DEF HandleFailure, SafeTransition, Commit, CommitUnseen, EndSession, Phased, record
<1>9. CASE RecoverMark
    BY <1>9 DEF RecoverMark, SafeTransition, Commit, CommitUnseen, Accepts, Phased, Legal,
                Transitions, record
<1>10. CASE RemoveTreeStops \/ Refuse \/ Crash
    BY <1>10, <1>1 DEF RemoveTreeStops, Refuse, Crash, Abandon, EndSession, record
<1>11. CASE MarkDiscard
    BY <1>11 DEF MarkDiscard, EndSession, CommitUnseen, Discarded
<1> QED
    BY <1>1, <1>2, <1>3, <1>4, <1>5, <1>6, <1>7, <1>8, <1>9, <1>10, <1>11
    DEF Next, Begin, Step, vars, record, Resume, StartDiscard, RedirectOutput, RecoverLatest,
        RevokeRecipe, InvokeTool, ToolReturns, PatchPublished, Export, RemoveTree, DropGrants,
        Raise, RecoverExport

\* toolGen never lags behind the record where the task may still be exported.
LEMMA ToolGenCovers ==
    ASSUME TypeInv, CleanInv, GenerationInv, disk.phase # "discard", pc \in InTree \cup Handler
    PROVE  toolGen >= disk.generation
<1>1. Len(published) >= disk.generation
    BY DEF GenerationInv, RecordTrue, Frontier, PendingPlaced, AtFrontier, PastFrontier,
           TypeInv, TypeOK, TaskStates
<1> QED BY <1>1 DEF GenerationInv, ToolView, TypeInv, TypeOK, TaskStates

\* A task enters the EXPORT phase with its patch written, and keeps it.
LEMMA ExportCoversStep ==
    ASSUME TypeInv, SessionView, CleanInv, GenerationInv, ExportInv, [Next]_vars
    PROVE  ExportCoversRecord'
<1> SUFFICES ASSUME disk'.phase = "export"
             PROVE  exported' > 0 /\ exported' >= disk'.generation
    BY DEF ExportCoversRecord
<1> USE DEF TypeInv, TypeOK, TaskStates
<1>1. CASE disk.phase = "export" /\ disk'.generation = disk.generation
    <2>1. exported > 0 /\ exported >= disk.generation
        BY <1>1 DEF ExportInv, ExportCoversRecord
    <2>2. CASE exported' = exported
        BY <1>1, <2>1, <2>2
    <2>3. CASE Export \/ RecoverExport
        <3>1. toolGen >= disk.generation
            BY <1>1, <2>3, ToolGenCovers DEF Export, RecoverExport, InTree, Body, Handler
        <3> QED BY <1>1, <2>1, <2>3, <3>1 DEF Export, RecoverExport, Exports, ExportStops
    <2>4. exported' = exported \/ Export \/ RecoverExport
        BY DEF Next, Begin, Step, vars, observed, Resume, StartDiscard, RedirectOutput,
            RecoverLatest, Reconcile, RevokeRecipe, EnterExecute, Schedule, InvokeTool,
            ToolReturns, PatchPublished, RecordOutcome, Complete, FinishExport,
            RemoveTree, RemoveTreeStops, DropGrants, MarkDiscard, Raise,
            HandleFailure, RecoverMark, Refuse, Crash, Abandon
    <2> QED BY <2>2, <2>3, <2>4
<1>2. CASE FinishExport /\ mem = disk /\ disk'.generation = disk.generation
    <2>1. disk.phase # "discard" /\ toolGen >= disk.generation
        BY <1>2, InTreeRecord, ToolGenCovers DEF FinishExport, InTree, Body
    <2> QED BY <1>2, <2>1 DEF FinishExport, ExportInv, JustExported, observed
<1>3. CASE /\ RecoverMark /\ mem = disk /\ disk'.generation = disk.generation
           /\ disk.phase # "discard"
    <2>1. toolGen >= disk.generation
        BY <1>3, ToolGenCovers DEF RecoverMark, Handler
    <2> QED BY <1>3, <2>1 DEF RecoverMark, ExportInv, JustExported, observed
<1> QED BY <1>1, <1>2, <1>3, ExportPhaseStep DEF ExportInv

\* The phases a session may be resumed from.
LEMMA ResumedStep ==
    ASSUME TypeInv, SessionView, CleanInv, [Next]_vars, Resumed
    PROVE  Resumed'
<1>1. CleanInv'
    BY CleanStep
<1>2. pc' \in InTree => disk'.phase # "discard"
    BY <1>1 DEF CleanInv, TreeThere, DiscardedIsClean
<1>3. CASE pc' \notin {"recover", "reconcile"}
    BY <1>2, <1>3 DEF Resumed
<1>4. CASE UNCHANGED vars
    BY <1>4 DEF vars, record, Resumed
<1>5. CASE Resume \/ RedirectOutput \/ RecoverLatest
    BY <1>5 DEF Resume, RedirectOutput, RecoverLatest, record, Resumed, InTree, Body
<1>6. ASSUME Next, ~Resume, ~RedirectOutput, ~RecoverLatest
      PROVE  pc' \notin {"recover", "reconcile"}
    BY <1>6 DEF Next, Begin, Step, StartDiscard, Reconcile, RevokeRecipe, EnterExecute,
        Schedule, InvokeTool, ToolReturns, PatchPublished, RecordOutcome, Complete, Export,
        FinishExport, GuardedSave, RemoveTree, RemoveTreeStops, DropGrants, MarkDiscard, Raise,
        Raised, EndSession, HandleFailure, RecoverExport, RecoverMark, Refuse, Crash, Abandon
<1> QED BY <1>3, <1>4, <1>5, <1>6

\* In retain mode nothing but a complete export leads to the removal.
LEMMA WrittenFirstStep ==
    ASSUME TypeInv, SessionView, CleanInv, GenerationInv, ExportInv, [Next]_vars
    PROVE  JustExported' /\ OnlyRecovers' /\ WrittenFirst'
<1> USE DEF JustExported, OnlyRecovers, WrittenFirst, InTree, Body, Discarding, Raised,
            record, locals, tree, observed
<1>0. /\ JustExported /\ OnlyRecovers /\ WrittenFirst
      /\ pc \in InTree => workspace = "whole" /\ toolGen = Len(published)
      /\ pc \in {"dropGrants", "markDiscard"} => workspace = "gone"
      /\ guarded => pc \in Body \cup Discarding
    BY DEF ExportInv, CleanInv, TreeThere, Cleared, GenerationInv, ToolView
<1>1. CASE Begin
    BY <1>1, <1>0 DEF Begin, Resume, StartDiscard
<1>2. CASE RedirectOutput \/ RecoverLatest \/ RevokeRecipe
    BY <1>2, <1>0 DEF RedirectOutput, RecoverLatest, RevokeRecipe
<1>3. CASE Reconcile \/ EnterExecute
    BY <1>3, <1>0 DEF Reconcile, EnterExecute
<1>4. ASSUME NEW a \in ActionIds, NEW r \in Recipes \cup {NoRecipe}, Schedule(a, r)
      PROVE  JustExported' /\ OnlyRecovers' /\ WrittenFirst'
    BY <1>4, <1>0 DEF Schedule, GuardedSave
<1>5. CASE InvokeTool \/ ToolReturns
    BY <1>5, <1>0 DEF InvokeTool, ToolReturns
<1>6. CASE PatchPublished
    BY <1>6, <1>0 DEF PatchPublished
<1>7. CASE RecordOutcome \/ Complete
    BY <1>7, <1>0 DEF RecordOutcome, Complete, GuardedSave
<1>8. CASE FinishExport
    BY <1>8, <1>0 DEF FinishExport, GuardedSave
<1>9. CASE Export
    BY <1>9, <1>0 DEF Export, Exports, ExportStops
<1>10. CASE RemoveTree \/ DropGrants
    BY <1>10, <1>0 DEF RemoveTree, DropGrants
<1>11. CASE RemoveTreeStops
    BY <1>11, <1>0 DEF RemoveTreeStops, EndSession
<1>12. CASE MarkDiscard
    BY <1>12, <1>0 DEF MarkDiscard, EndSession
<1>13. CASE Raise
    BY <1>13, <1>0 DEF Raise
<1>14. CASE HandleFailure
    BY <1>14, <1>0 DEF HandleFailure, EndSession, TypeInv, TypeOK
<1>15. CASE RecoverExport
    BY <1>15, <1>0 DEF RecoverExport, Exports, ExportStops
<1>16. CASE RecoverMark
    BY <1>16, <1>0 DEF RecoverMark
<1>17. CASE Refuse \/ Crash
    BY <1>17, <1>0 DEF Refuse, Crash, Abandon, EndSession
<1>18. CASE UNCHANGED vars
    BY <1>18, <1>0 DEF vars
<1> QED
    BY <1>1, <1>2, <1>3, <1>4, <1>5, <1>6, <1>7, <1>8, <1>9, <1>10, <1>11, <1>12, <1>13,
       <1>14, <1>15, <1>16, <1>17, <1>18
    DEF Next, Step

\* Export comes before the marks and removals in every reachable state.
LEMMA ExportInvariant == Spec => []ExportInv
<1>1. Init => ExportInv
    BY DEF Init, ExportInv, Resumed, JustExported, OnlyRecovers, WrittenFirst, InTree, Body,
           Discarding, ExportCoversRecord
<1>2. TypeInv /\ JournalInv /\ CleanInv /\ GenerationInv /\ ExportInv /\ [Next]_vars
      => ExportInv'
    BY ExportCoversStep, ResumedStep, WrittenFirstStep DEF JournalInv, ExportInv
<1> QED BY <1>1, <1>2, JournalInvariant, CleanInvariant, GenerationInvariant, PTL DEF Spec

\* A task whose record says `export' has a patch file that covers the
\* recorded generation, also when the mark follows a failure.
THEOREM ExportsCoverRecord == Spec => []ExportCoversRecord
<1>1. ExportInv => ExportCoversRecord
    BY DEF ExportInv
<1> QED BY <1>1, ExportInvariant, PTL

\* In retain mode a workspace goes only on the user's word or after a patch of
\* its last generation was written, for any number of failures.
THEOREM NothingLostSilently == Spec => []NoSilentLoss
<1>1. ExportInv => NoSilentLoss
    BY DEF ExportInv, WrittenFirst, NoSilentLoss
<1> QED BY <1>1, ExportInvariant, PTL
=============================================================================
