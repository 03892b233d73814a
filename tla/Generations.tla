----------------------------- MODULE Generations -----------------------------
(***************************************************************************)
(* The generations of one task on disk: how WorkspaceEditor.apply stages,  *)
(* renames and publishes the next one (workspace/editor.py), what it       *)
(* leaves when a step fails, and how recover_latest                        *)
(* (workspace/manager.py) finds the last published one in the next         *)
(* process.  An error or Ctrl-C may strike at every step of apply, and the *)
(* process may be killed between any two file operations.                  *)
(*                                                                         *)
(* A generation is its directory and its manifest; a manifest that is      *)
(* created and not yet filled is "partial" and does not parse.  The        *)
(* contents are left out: a scan of a directory nobody else writes to      *)
(* agrees with the manifest written from it.                               *)
(*                                                                         *)
(* A definition whose name starts with Mutant is a plausible slip in the   *)
(* definition after it, kept to show that some property notices it.        *)
(***************************************************************************)
EXTENDS Integers

CONSTANT MaxGenerations   \* workspace.max_generations

ASSUME MaxGenerationsAssumption == MaxGenerations \in Nat \ {0}

VARIABLES
    staging,    \* generations with a .staging directory
    dirs,       \* generations with a final directory
    manifest,   \* what is at manifest-<n>.json
    recorded,   \* generation in the durable task record
    current,    \* generation the process works on
    pc,
    raised      \* what the try block of apply unwinds from

vars == <<staging, dirs, manifest, recorded, current, pc, raised>>

Gens == 0 .. MaxGenerations
next == current + 1

Applying == {"copy", "patch", "rename", "open", "fill", "written"}
Unwinding == {"unwindManifest", "unwindStaging", "unwindFinal"}

TypeOK ==
    /\ staging \subseteq Gens /\ dirs \subseteq Gens
    /\ manifest \in [Gens -> {"absent", "partial", "complete"}]
    /\ recorded \in Gens /\ current \in Gens
    /\ pc \in {"down", "walk", "sweepFinal", "sweepStaging", "ready", "returned"}
              \cup Applying \cup Unwinding
    /\ raised \in {"none", "PatchError"}

Init ==
    /\ staging = {} /\ dirs = {0}
    /\ manifest = [g \in Gens |-> IF g = 0 THEN "complete" ELSE "absent"]
    /\ recorded = 0 /\ current = 0
    /\ pc = "down" /\ raised = "none"

Complete(g) == g \in dirs /\ manifest[g] = "complete"

-----------------------------------------------------------------------------
(* recover_latest, at the start of every session and of `ulg diff'.         *)

Start ==
    /\ pc = "down"
    /\ current' = recorded /\ pc' = "walk"
    /\ UNCHANGED <<staging, dirs, manifest, recorded, raised>>

Adopt ==
    /\ pc = "walk" /\ current < MaxGenerations /\ Complete(next)
    /\ current' = next
    /\ UNCHANGED <<staging, dirs, manifest, recorded, pc, raised>>

\* A manifest without its directory, or one that does not parse.
Refused ==
    /\ current < MaxGenerations
    /\ manifest[next] # "absent" /\ ~Complete(next)

Refuse ==
    /\ pc = "walk" /\ Refused
    /\ pc' = "down"
    /\ UNCHANGED <<staging, dirs, manifest, recorded, current, raised>>

WalkEnds ==
    /\ pc = "walk" /\ (current < MaxGenerations => manifest[next] = "absent")
    /\ pc' = IF current < MaxGenerations THEN "sweepFinal" ELSE "ready"
    /\ UNCHANGED <<staging, dirs, manifest, recorded, current, raised>>

MutantSwept(kept) == kept
MutantSweptCurrent(kept) == kept \ {current}
Swept(kept) == kept \ {next}

SweepFinal ==
    /\ pc = "sweepFinal"
    /\ dirs' = Swept(dirs) /\ pc' = "sweepStaging"
    /\ UNCHANGED <<staging, manifest, recorded, current, raised>>

SweepStaging ==
    /\ pc = "sweepStaging"
    /\ staging' = Swept(staging) /\ pc' = "ready"
    /\ UNCHANGED <<dirs, manifest, recorded, current, raised>>

\* reconcile writes the recovered generation to the task record.
RecordRecovered ==
    /\ pc = "ready" /\ recorded # current
    /\ recorded' = current
    /\ UNCHANGED <<staging, dirs, manifest, current, pc, raised>>

-----------------------------------------------------------------------------
(* WorkspaceEditor.apply.                                                  *)

MutantWithinLimit == current <= MaxGenerations
WithinLimit == next <= MaxGenerations

\* before_execute comes after reconcile or after_execute saved the generation.
MutantRecorded == TRUE
Recorded == recorded = current

\* Leftovers of the successor go first; at the limit the patch is rejected.
BeginApply ==
    /\ pc = "ready" /\ Recorded /\ WithinLimit
    /\ ~Complete(next)
    /\ dirs' = Swept(dirs) /\ staging' = Swept(staging)
    /\ pc' = "copy"
    /\ UNCHANGED <<manifest, recorded, current, raised>>

CopyGeneration ==
    /\ pc = "copy"
    /\ staging' = staging \cup {next} /\ pc' = "patch"
    /\ UNCHANGED <<dirs, manifest, recorded, current, raised>>

\* The patch applies, or a PatchError unwinds what was staged.
ApplyFilePatches ==
    /\ pc = "patch"
    /\ \/ pc' = "rename" /\ UNCHANGED raised
       \/ pc' = "unwindStaging" /\ raised' = "PatchError"
    /\ UNCHANGED <<staging, dirs, manifest, recorded, current>>

RenameStaging ==
    /\ pc = "rename"
    /\ staging' = staging \ {next} /\ dirs' = dirs \cup {next}
    /\ pc' = "open"
    /\ UNCHANGED <<manifest, recorded, current, raised>>

CreateManifest ==
    /\ pc = "open" /\ manifest[next] = "absent"
    /\ manifest' = [manifest EXCEPT ![next] = "partial"]
    /\ pc' = "fill"
    /\ UNCHANGED <<staging, dirs, recorded, current, raised>>

FillManifest ==
    /\ pc = "fill"
    /\ manifest' = [manifest EXCEPT ![next] = "complete"]
    /\ pc' = "written"
    /\ UNCHANGED <<staging, dirs, recorded, current, raised>>

\* The descriptor is closed and the try block left.
LeaveTry ==
    /\ pc = "written"
    /\ pc' = "returned"
    /\ UNCHANGED <<staging, dirs, manifest, recorded, current, raised>>

\* CodingTools takes the new workspace and after_execute records it.
Return ==
    /\ pc = "returned"
    /\ current' = next /\ recorded' = next /\ pc' = "ready"
    /\ UNCHANGED <<staging, dirs, manifest, raised>>

-----------------------------------------------------------------------------
(* Failures.                                                               *)

\* Where an exception goes from each step of the try block: write_manifest
\* unlinks a manifest it could not fill, and only that one.
UnwindFrom(step) == IF step = "fill" THEN "unwindManifest" ELSE "unwindStaging"

Interrupt ==
    /\ pc \in Applying
    /\ pc' = UnwindFrom(pc)
    /\ UNCHANGED <<staging, dirs, manifest, recorded, current, raised>>

UnwindManifest ==
    /\ pc = "unwindManifest"
    /\ manifest' = [manifest EXCEPT ![next] = "absent"]
    /\ pc' = "unwindStaging"
    /\ UNCHANGED <<staging, dirs, recorded, current, raised>>

UnwindStaging ==
    /\ pc = "unwindStaging"
    /\ staging' = Swept(staging) /\ pc' = "unwindFinal"
    /\ UNCHANGED <<dirs, manifest, recorded, current, raised>>

\* A rejected patch is a result; every other exception ends the session.
UnwindFinal ==
    /\ pc = "unwindFinal"
    /\ dirs' = Swept(dirs)
    /\ pc' = IF raised = "PatchError" THEN "ready" ELSE "down"
    /\ raised' = "none"
    /\ UNCHANGED <<staging, manifest, recorded, current>>

Kill ==
    /\ pc # "down"
    /\ pc' = "down" /\ raised' = "none"
    /\ UNCHANGED <<staging, dirs, manifest, recorded, current>>

Next ==
    \/ Start \/ Adopt \/ Refuse \/ WalkEnds \/ SweepFinal \/ SweepStaging
    \/ RecordRecovered
    \/ BeginApply \/ CopyGeneration \/ ApplyFilePatches \/ RenameStaging
    \/ CreateManifest \/ FillManifest \/ LeaveTry \/ Return
    \/ Interrupt \/ UnwindManifest \/ UnwindStaging \/ UnwindFinal \/ Kill

Spec == Init /\ [][Next]_vars

-----------------------------------------------------------------------------
(* Properties.                                                             *)

\* Whatever crashed, every generation up to the recorded one and up to the one
\* a session works on has its directory and its complete manifest.
AcknowledgedSurvive ==
    \A g \in Gens :
        g <= recorded \/ (pc # "down" /\ g <= current) => Complete(g)

\* Recovery has at most one generation to adopt: the record lags one behind.
AtMostOneAhead == \A g \in Gens : Complete(g) => g <= recorded + 1

\* A session that is ready to apply a patch finds nothing of the successor:
\* an earlier attempt cannot leak into the next one.
ReadyIsClean ==
    pc = "ready" =>
        /\ staging = {} /\ dirs = 0 .. current
        /\ \A g \in Gens : g > current => manifest[g] = "absent"

\* Staging, renaming, manifests and recovery together publish atomically.
Publication == INSTANCE AtomicPublication WITH
    acknowledged <- recorded,
    ahead <- recorded < MaxGenerations /\ Complete(recorded + 1)

ImplementsPublication == Publication!Spec

\* Recovery never stops at a successor: ADR 0005 says a final directory without
\* a complete manifest is unpublished and removed.
RecoveryProceeds == pc = "walk" => ~Refused
=============================================================================
