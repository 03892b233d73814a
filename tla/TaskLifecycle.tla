---------------------------- MODULE TaskLifecycle ----------------------------
(***************************************************************************)
(* One durable coding task from creation to discard: the task record       *)
(* (tasks/state.py), the effect journal around tool execution, and the     *)
(* session that drives both (cli.py _execute_task_session and              *)
(* _discard_coding).  A process holds the lease while pc # "idle"; it may   *)
(* die between any two durable steps, an exception or Ctrl-C may leave the *)
(* try block anywhere, and a save may fail after it replaced the file.     *)
(*                                                                         *)
(* `disk' is the record as the next process will load it and `mem' the     *)
(* copy in TaskSession.state; `behind' says their revisions differ, so that*)
(* every later save of this session is refused.  published[g] is the       *)
(* action that published generation g; exported, discarded, runs and owed  *)
(* only observe.                                                           *)
(*                                                                         *)
(* A definition whose name starts with Mutant is a plausible slip in the   *)
(* definition after it, kept to show that some property notices it.        *)
(***************************************************************************)
EXTENDS Integers, Sequences, FiniteSets

CONSTANTS
    ActionIds,       \* identifiers the model may give its actions
    Recipes,         \* configured sandbox recipes
    NoRecipe,        \* recipe_name is None: the action is apply_patch
    None,            \* no pending effect
    MaxGenerations,  \* workspace.max_generations
    MaxEffects       \* bound of TaskState.effects (1000 in the code)

VARIABLES
    disk, mem, behind,              \* durable record, session copy
    pc, guarded,                    \* program counter; inside the try block
    toolGen, ok, interrupted,       \* locals of the session
    workspace, published,           \* the task's generations on disk
    grants,                         \* recipes with a durable recipe grant
    output, failureMode,            \* export destination; --failure-mode
    exported, discarded, runs, owed \* observations

record == <<disk, mem, behind>>
locals == <<toolGen, ok, interrupted>>
tree == <<workspace, published>>
observed == <<exported, discarded, runs, owed>>
vars == <<record, pc, guarded, locals, tree, grants, output, failureMode, observed>>

Phases == {"plan", "execute", "review", "retry", "cancel", "export", "discard"}
MutantTransitions ==
    [plan |-> {"execute", "cancel", "discard"},
     execute |-> {"review", "retry", "cancel", "discard"},
     review |-> {"execute", "export", "retry", "discard"},
     retry |-> {"execute", "export", "cancel", "discard"},
     cancel |-> {"execute", "export"},
     export |-> {"discard"},
     discard |-> {}]
Transitions ==
    [plan |-> {"execute", "cancel", "discard"},
     execute |-> {"review", "retry", "cancel", "discard"},
     review |-> {"execute", "export", "retry", "discard"},
     retry |-> {"execute", "export", "cancel", "discard"},
     cancel |-> {"execute", "export", "discard"},
     export |-> {"discard"},
     discard |-> {}]
Outcomes == {"succeeded", "failed", "interrupted", "unknown"}
PendingEffects == [id : ActionIds, recipe : Recipes \cup {NoRecipe}, before : Nat]
EffectOutcomes ==
    [id : ActionIds, recipe : Recipes \cup {NoRecipe}, outcome : Outcomes]
TaskStates ==
    [phase : Phases, generation : Nat,
     pending : PendingEffects \cup {None}, effects : SUBSET EffectOutcomes]

Setup == {"recover", "reconcile", "revoke", "enter"}
Body == {"loop", "execute", "running", "record", "review", "export", "finish"}
Handler == {"failed", "cancelled", "recoverExport", "recoverMark"}
Discarding == {"removeTree", "dropGrants", "markDiscard"}

ASSUME ConstantsAssumption ==
    /\ NoRecipe \notin Recipes
    /\ None \notin PendingEffects
    /\ MaxGenerations \in Nat
    /\ MaxEffects \in Nat

TypeOK ==
    /\ disk \in TaskStates /\ mem \in TaskStates /\ behind \in BOOLEAN
    /\ pc \in {"idle"} \cup Setup \cup Body \cup Handler \cup Discarding
    /\ guarded \in BOOLEAN
    /\ toolGen \in Nat /\ ok \in BOOLEAN /\ interrupted \in Recipes \cup {NoRecipe}
    /\ workspace \in {"whole", "damaged", "gone"}
    /\ published \in Seq(ActionIds)
    /\ grants \subseteq Recipes
    /\ output \in {"absent", "partial", "written"}
    /\ failureMode \in {"retain", "recover"}
    /\ exported \in Nat /\ discarded \in BOOLEAN
    /\ runs \in [ActionIds -> Nat]
    /\ owed \subseteq Recipes

Init ==
    /\ disk = [phase |-> "plan", generation |-> 0, pending |-> None, effects |-> {}]
    /\ mem = disk /\ behind = FALSE
    /\ pc = "idle" /\ guarded = FALSE
    /\ toolGen = 0 /\ ok = FALSE /\ interrupted = NoRecipe
    /\ workspace = "whole" /\ published = <<>>
    /\ grants = {}
    /\ output = "absent" /\ failureMode \in {"retain", "recover"}
    /\ exported = 0 /\ discarded = FALSE
    /\ runs = [a \in ActionIds |-> 0]
    /\ owed = {}

-----------------------------------------------------------------------------
(* The record and the journal's updates of it.                             *)

Legal(from, to) == from = to \/ to \in Transitions[from]

MutantDoneIds(s) == {e.id : e \in {f \in s.effects : f.outcome # "failed"}}
DoneIds(s) == {e.id : e \in s.effects}

\* TaskState.validate_effects and the bound on the number of effects.
Valid(s) ==
    /\ Cardinality(s.effects) <= MaxEffects
    /\ \A e, f \in s.effects : e.id = f.id => e = f
    /\ s.pending # None => s.pending.id \notin DoneIds(s)

\* before_execute, with the tests that raise EffectReplayError.
Schedulable(s, a) == a \notin DoneIds(s) /\ s.pending = None
MutantScheduled(s, a, r) ==
    [s EXCEPT !.phase = "execute",
              !.pending = [id |-> a, recipe |-> r, before |-> s.generation - 1]]
Scheduled(s, a, r) ==
    [s EXCEPT !.phase = "execute",
              !.pending = [id |-> a, recipe |-> r, before |-> s.generation]]

MutantSettled(s, phase, generation, outcome) ==
    [s EXCEPT !.phase = phase, !.generation = generation, !.pending = None]
Settled(s, phase, generation, outcome) ==
    [s EXCEPT !.phase = phase, !.generation = generation, !.pending = None,
              !.effects = @ \cup {[id |-> s.pending.id, recipe |-> s.pending.recipe,
                                   outcome |-> outcome]}]

\* after_execute: only a successful patch moves the generation.
MutantCompleted(s, succeeded, generation) ==
    Settled(s, "review", s.generation, IF succeeded THEN "succeeded" ELSE "failed")
Completed(s, succeeded, generation) ==
    LET g == IF s.pending.recipe = NoRecipe /\ succeeded
             THEN generation ELSE s.generation
    IN  Settled(s, IF g > 0 THEN "review" ELSE "execute", g,
                IF succeeded THEN "succeeded" ELSE "failed")

\* reconcile's reading of an effect nobody recorded the end of.
MutantInferred(p, recovered) ==
    IF p.recipe # NoRecipe THEN "unknown"
    ELSE IF recovered >= p.before THEN "succeeded" ELSE "interrupted"
Inferred(p, recovered) ==
    IF p.recipe # NoRecipe THEN "unknown"
    ELSE IF recovered > p.before THEN "succeeded" ELSE "interrupted"

Reconciled(s, recovered) ==
    IF s.pending = None THEN [s EXCEPT !.generation = recovered]
    ELSE LET outcome == Inferred(s.pending, recovered)
         IN  Settled(s, IF outcome = "succeeded" THEN "review" ELSE "retry",
                     recovered, outcome)

-----------------------------------------------------------------------------
(* Saves.  TaskSession.transition refuses an illegal phase, a record that  *)
(* does not validate, and a revision other than the one it loaded.         *)

Accepts(new) == ~behind /\ Legal(mem.phase, new.phase) /\ Valid(new)

Phased(s, phase) == [s EXCEPT !.phase = phase]

Commit(new) == Accepts(new) /\ disk' = new /\ mem' = new /\ UNCHANGED behind

\* os.replace took effect and the directory sync after it failed.
CommitUnseen(new) == Accepts(new) /\ disk' = new /\ behind' = TRUE /\ UNCHANGED mem

\* _safe_transition: a save that fails is suppressed.
SafeTransition(phase) ==
    \/ Commit(Phased(mem, phase))
    \/ CommitUnseen(Phased(mem, phase))
    \/ UNCHANGED record

\* The process ends or dies with `final' on disk: the lease is released and
\* its memory is gone.
EndSession(final) ==
    /\ disk' = final /\ mem' = final /\ behind' = FALSE
    /\ pc' = "idle" /\ guarded' = FALSE
    /\ toolGen' = 0 /\ ok' = FALSE /\ interrupted' = NoRecipe
    /\ UNCHANGED owed

\* An exception inside the try block reaches one of its two handlers.
MutantRaised == UNCHANGED guarded /\ pc' = "loop"
Raised == guarded' = FALSE /\ pc' \in {"failed", "cancelled"}

\* A save inside the try block.
GuardedSave(new, next) ==
    \/ Commit(new) /\ pc' = next /\ UNCHANGED guarded
    \/ CommitUnseen(new) /\ Raised

-----------------------------------------------------------------------------
(* Starting a session.                                                     *)

Resume ==
    /\ pc = "idle" /\ disk.phase \notin {"export", "discard"}
    /\ pc' = "recover"
    /\ UNCHANGED <<record, guarded, locals, tree, grants, output, failureMode, observed>>

\* resume --output with a new path, saved before anything else.
RedirectOutput ==
    /\ pc = "recover" /\ output # "absent"
    /\ output' = "absent"
    /\ UNCHANGED <<record, pc, guarded, locals, tree, grants, failureMode, observed>>

\* recover_latest walks the verified generations from the recorded one.
RecoverLatest ==
    /\ pc = "recover" /\ workspace = "whole"
    /\ toolGen' = Len(published) /\ pc' = "reconcile"
    /\ UNCHANGED <<record, guarded, ok, interrupted, tree, grants, output, failureMode, observed>>

Reconcile ==
    /\ pc = "reconcile"
    /\ Commit(Reconciled(mem, toolGen))
    /\ interrupted' = IF mem.pending = None THEN NoRecipe ELSE mem.pending.recipe
    /\ owed' = owed \cup ({interrupted'} \cap Recipes)
    /\ pc' = "revoke"
    /\ UNCHANGED <<guarded, toolGen, ok, tree, grants, output, failureMode,
                   exported, discarded, runs>>

\* The part of the snapshot that remains: revoke_recipe and delete_grants.
MutantRemaining(snapshot, revoked) == snapshot
Remaining(snapshot, revoked) == snapshot \ revoked

RevokeRecipe ==
    /\ pc = "revoke"
    /\ grants' = Remaining(grants, {interrupted})
    /\ pc' = "enter"
    /\ UNCHANGED <<record, guarded, locals, tree, output, failureMode, observed>>

EnterExecute ==
    /\ pc = "enter"
    /\ Commit(Phased(mem, "execute"))
    /\ pc' = "loop" /\ guarded' = TRUE
    /\ UNCHANGED <<locals, tree, grants, output, failureMode, observed>>

-----------------------------------------------------------------------------
(* The controller loop: one authorised effect at a time.                   *)

\* A fresh approval for this action only, or for the whole recipe.
FreshApproval(r) ==
    /\ \/ UNCHANGED grants
       \/ r \in Recipes /\ grants' = grants \cup {r}
    /\ owed' = owed \ {r}

Authorized(r) == FreshApproval(r) \/ (r \in grants /\ UNCHANGED <<grants, owed>>)

Schedule(a, r) ==
    /\ pc = "loop" /\ Schedulable(mem, a)
    /\ Authorized(r)
    /\ GuardedSave(Scheduled(mem, a, r), "execute")
    /\ UNCHANGED <<locals, tree, output, failureMode, exported, discarded, runs>>

InvokeTool ==
    /\ pc = "execute"
    /\ runs' = [runs EXCEPT ![mem.pending.id] = @ + 1]
    /\ pc' = "running"
    /\ UNCHANGED <<record, guarded, locals, tree, grants, output, failureMode,
                   exported, discarded, owed>>

\* The sandbox returned, or the patch was rejected and nothing published.
ToolReturns ==
    /\ pc = "running"
    /\ ok' \in BOOLEAN /\ (mem.pending.recipe = NoRecipe => ~ok')
    /\ pc' = "record"
    /\ UNCHANGED <<record, guarded, toolGen, interrupted, tree, grants, output,
                   failureMode, observed>>

\* The editor published the next generation; Ctrl-C may arrive before
\* CodingTools has taken note of it.
PatchPublished ==
    /\ pc = "running" /\ mem.pending.recipe = NoRecipe
    /\ toolGen < MaxGenerations
    /\ published' = Append(published, mem.pending.id)
    /\ \/ toolGen' = toolGen + 1 /\ ok' = TRUE /\ pc' = "record" /\ UNCHANGED guarded
       \/ Raised /\ UNCHANGED <<toolGen, ok>>
    /\ UNCHANGED <<record, interrupted, workspace, grants, output, failureMode, observed>>

RecordOutcome ==
    /\ pc = "record"
    /\ GuardedSave(Completed(mem, ok, toolGen), "loop")
    /\ UNCHANGED <<locals, tree, grants, output, failureMode, observed>>

-----------------------------------------------------------------------------
(* Completion, export and discard.                                         *)

Complete ==
    /\ pc = "loop"
    /\ GuardedSave([mem EXCEPT !.phase = "review", !.generation = toolGen], "export")
    /\ UNCHANGED <<locals, tree, grants, output, failureMode, observed>>

\* _export_coding_patch writes a new file; the diff of generation 0 is empty.
Exports ==
    /\ toolGen > 0 /\ output = "absent" /\ workspace = "whole"
    /\ output' = "written" /\ exported' = toolGen

\* The write stops short (a partial file stays behind) or never starts.
ExportStops ==
    /\ \/ UNCHANGED output
       \/ toolGen > 0 /\ output = "absent" /\ workspace = "whole" /\ output' = "partial"
    /\ UNCHANGED exported

MutantExport ==
    /\ pc = "export" /\ (Exports \/ ExportStops) /\ pc' = "finish"
    /\ UNCHANGED <<record, guarded, locals, tree, grants, failureMode, discarded, runs, owed>>
Export ==
    /\ pc = "export"
    /\ \/ Exports /\ pc' = "finish" /\ UNCHANGED guarded
       \/ ExportStops /\ Raised
    /\ UNCHANGED <<record, locals, tree, grants, failureMode, discarded, runs, owed>>

FinishExport ==
    /\ pc = "finish"
    /\ GuardedSave(Phased(mem, "export"), "removeTree")
    /\ UNCHANGED <<locals, tree, grants, output, failureMode, observed>>

\* ulg discard, by the user, in a session of its own.
StartDiscard ==
    /\ pc = "idle" /\ disk.phase # "discard"
    /\ pc' = "removeTree" /\ toolGen' = disk.generation /\ discarded' = TRUE
    /\ UNCHANGED <<record, guarded, ok, interrupted, tree, grants, output, failureMode,
                   exported, runs, owed>>

RemoveTree ==
    /\ pc = "removeTree"
    /\ workspace' = "gone" /\ pc' = "dropGrants"
    /\ UNCHANGED <<record, guarded, locals, published, grants, output, failureMode, observed>>

\* rmtree stopped half way.
RemoveTreeStops ==
    /\ pc = "removeTree" /\ workspace = "whole"
    /\ workspace' = "damaged"
    /\ \/ guarded /\ Raised /\ UNCHANGED <<record, locals, owed>>
       \/ ~guarded /\ EndSession(disk)
    /\ UNCHANGED <<published, grants, output, failureMode, exported, discarded, runs>>

DropGrants ==
    /\ pc = "dropGrants"
    /\ grants' = Remaining(grants, Recipes) /\ pc' = "markDiscard"
    /\ UNCHANGED <<record, guarded, locals, tree, output, failureMode, observed>>

Discarded(s) == [s EXCEPT !.phase = "discard", !.generation = toolGen]

MarkDiscard ==
    /\ pc = "markDiscard" /\ Accepts(Discarded(mem))
    /\ \/ EndSession(Discarded(mem))
       \/ guarded /\ CommitUnseen(Discarded(mem)) /\ Raised /\ UNCHANGED <<locals, owed>>
    /\ UNCHANGED <<tree, grants, output, failureMode, exported, discarded, runs>>

-----------------------------------------------------------------------------
(* Failures.                                                               *)

\* An error or Ctrl-C anywhere in the try block.
Raise ==
    /\ guarded /\ Raised
    /\ UNCHANGED <<record, locals, tree, grants, output, failureMode, observed>>

\* The except clauses record RETRY or CANCEL and retain or recover the task.
HandleFailure ==
    /\ pc \in {"failed", "cancelled"}
    /\ LET phase == IF pc = "failed" THEN "retry" ELSE "cancel"
       IN  IF failureMode = "recover"
           THEN /\ SafeTransition(phase) /\ pc' = "recoverExport"
                /\ UNCHANGED <<guarded, locals, owed>>
           ELSE \/ Accepts(Phased(mem, phase)) /\ EndSession(Phased(mem, phase))
                \/ EndSession(disk)
    /\ UNCHANGED <<tree, grants, output, failureMode, exported, discarded, runs>>

RecoverExport ==
    /\ pc = "recoverExport"
    /\ \/ Exports /\ pc' \in {"recoverMark", "removeTree"}
       \/ ExportStops /\ pc' = "removeTree"
    /\ UNCHANGED <<record, guarded, locals, tree, grants, failureMode, discarded, runs, owed>>

RecoverMark ==
    /\ pc = "recoverMark"
    /\ SafeTransition("export") /\ pc' = "removeTree"
    /\ UNCHANGED <<guarded, locals, tree, grants, output, failureMode, observed>>

Abandon ==
    /\ EndSession(disk)
    /\ UNCHANGED <<tree, grants, output, failureMode, exported, discarded, runs>>

\* Steps outside the try block that are refused whatever is tried: their
\* error ends the session (_execute_saved_task and _discard_coding report it).
Refused ==
    \/ pc = "recover" /\ workspace # "whole"
    \/ pc = "reconcile" /\ ~Accepts(Reconciled(mem, toolGen))
    \/ pc = "enter" /\ ~Accepts(Phased(mem, "execute"))
    \/ pc = "markDiscard" /\ ~guarded /\ ~Accepts(Discarded(mem))

Refuse == Refused /\ Abandon

\* The process is killed, or an operation of the disk fails outside the try
\* block.
Crash == pc # "idle" /\ Abandon

-----------------------------------------------------------------------------
Begin == Resume \/ StartDiscard

Step ==
    \/ RedirectOutput \/ RecoverLatest \/ Reconcile \/ RevokeRecipe \/ EnterExecute
    \/ \E a \in ActionIds, r \in Recipes \cup {NoRecipe} : Schedule(a, r)
    \/ InvokeTool \/ ToolReturns \/ PatchPublished \/ RecordOutcome
    \/ Complete \/ Export \/ FinishExport
    \/ RemoveTree \/ RemoveTreeStops \/ DropGrants \/ MarkDiscard
    \/ Raise \/ HandleFailure \/ RecoverExport \/ RecoverMark \/ Refuse

Next == Begin \/ Step \/ Crash

Spec == Init /\ [][Next]_vars

\* A session goes on as long as nothing kills it; no crash is owed.
FairSpec == Spec /\ WF_vars(Step)

\* A user who keeps repeating `ulg discard', and faults that do not strike
\* the same durable step for ever.
PersistentDiscard ==
    FairSpec /\ SF_vars(StartDiscard) /\ SF_vars(RemoveTree) /\ SF_vars(DropGrants)
             /\ SF_vars(MarkDiscard)

-----------------------------------------------------------------------------
(* Properties.                                                             *)

PublishedBy(a) == \E g \in DOMAIN published : published[g] = a

\* No action identifier reaches a tool twice, over any number of crashes and
\* resumes (before_execute, after_execute and reconcile together).
AtMostOnce == \A a \in ActionIds : runs[a] <= 1

\* A recorded patch outcome says "succeeded" exactly when that very action
\* published a generation, also when reconcile inferred it after a crash.
OutcomesTruthful ==
    \A e \in disk.effects :
        e.recipe = NoRecipe => (e.outcome = "succeeded" <=> PublishedBy(e.id))

\* The generations of a whole workspace are the recorded one, plus the one
\* the pending patch published: reconcile never meets one it cannot explain.
GenerationsAccounted ==
    workspace = "whole" =>
        \/ Len(published) = disk.generation
        \/ /\ Len(published) = disk.generation + 1
           /\ disk.pending # None
           /\ disk.pending.id = published[Len(published)]

\* In retain mode a task loses its workspace only after the user asked for
\* it or after a complete patch of its last generation was written.
NoSilentLoss ==
    failureMode = "retain" /\ workspace # "whole" /\ ~discarded =>
        exported > 0 /\ exported = Len(published)

\* A task in the EXPORT phase has a patch file that covers its record.
ExportCoversRecord ==
    disk.phase = "export" => exported > 0 /\ exported >= disk.generation

\* The DISCARD phase is reached only after the workspace and every grant
\* are gone, so that nothing is left that a later resume could use.
DiscardedIsClean == disk.phase = "discard" => workspace = "gone" /\ grants = {}

\* A scheduled effect leaves the pending slot only into the list of outcomes.
NoEffectForgotten ==
    [][disk.pending # None /\ disk'.pending # disk.pending
        => disk.pending.id \in DoneIds(disk')]_vars

\* Every session gives the lease back (bounded loop, handlers that end).
SessionEnds == pc # "idle" ~> pc = "idle"

\* Discard is legal from every phase a task can be left in, so a user who
\* insists gets rid of the task.
DiscardConverges == <>(disk.phase = "discard")

\* What resuming a retained task relies on: the phase reconcile moves to is
\* a legal successor of the phase the task was left in.
RetainedTaskReconciles ==
    pc = "reconcile" => Legal(mem.phase, Reconciled(mem, toolGen).phase)

\* ADR 0005: after an outcome-unknown execution the recipe needs a fresh
\* approval, in whatever session it runs next.
FreshAfterUnknown ==
    pc = "running" => mem.pending.recipe \notin owed
=============================================================================
