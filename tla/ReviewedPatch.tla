---------------------------- MODULE ReviewedPatch ----------------------------
(***************************************************************************)
(* One task's text on its way back to the user: the model proposes patches *)
(* (WorkspaceEditor.apply), the session exports the diff between the first *)
(* and the last workspace (export_diff), and the user applies that diff to *)
(* what the task started from.  The user's tool is modelled by the parser  *)
(* and the application of this program, which are the more lenient ones.   *)
(*                                                                         *)
(* How a workspace survives crashes is the subject of Generations; here    *)
(* the steps of a generation are its files' contents.                      *)
(***************************************************************************)
EXTENDS UnifiedDiff

CONSTANTS
    Proposals,   \* payloads the model may propose
    MaxPatches   \* bound on the patches of a task

ASSUME ReviewAssumption == Proposals \subseteq Seq(DiffPiece) /\ MaxPatches \in Nat

VARIABLES
    original, tree,      \* generation 0 and the latest one: path |-> File
    staging, pending,    \* being patched; file patches to go
    by,                  \* who applies: "nobody", "agent" or "human"
    patches              \* proposals so far

reviewVars == <<original, tree, staging, pending, by, patches>>

NoFiles == [path \in Paths |-> NoFile]

ReviewTypeOK ==
    /\ original \in [Paths -> File] /\ tree \in [Paths -> File]
    /\ staging \in [Paths -> File] /\ pending \in Seq(FilePatch)
    /\ by \in {"nobody", "agent", "human"} /\ patches \in 0 .. MaxPatches

ReviewInit ==
    /\ original = NoFiles /\ tree = NoFiles /\ staging = NoFiles
    /\ pending = <<>> /\ by = "nobody" /\ patches = 0

\* apply refuses what does not parse before anything is staged.
Propose(payload) ==
    /\ by = "nobody" /\ patches < MaxPatches
    /\ patches' = patches + 1
    /\ LET parsed == Parsed(payload) IN
       IF parsed.mode = "old"
       THEN by' = "agent" /\ staging' = tree /\ pending' = parsed.patches
       ELSE UNCHANGED <<staging, pending, by>>
    /\ UNCHANGED <<original, tree, patchVars>>

\* _apply_file_patch reads the file as the file patches before it left it.
StartFile ==
    /\ status = "none" /\ pending # <<>>
    /\ Begin(staging[Head(pending).path], Head(pending))
    /\ UNCHANGED reviewVars

Resulting == IF patch.operation = "delete" THEN NoFile
             ELSE [exists |-> TRUE, lines |-> Text(output)]

Idle ==
    /\ status' = "none" /\ source' = NoFile /\ patch' = NoPatch
    /\ hunk' = 1 /\ line' = 1 /\ cursor' = 0
    /\ output' = <<>> /\ origin' = <<>> /\ removed' = {}

FinishFile ==
    /\ status = "done"
    /\ staging' = [staging EXCEPT ![patch.path] = Resulting]
    /\ pending' = Tail(pending)
    /\ Idle
    /\ UNCHANGED <<original, tree, by, patches>>

Publish ==
    /\ by = "agent" /\ status = "none" /\ pending = <<>>
    /\ tree' = staging /\ staging' = NoFiles /\ by' = "nobody"
    /\ UNCHANGED <<original, pending, patches, patchVars>>

\* One file patch that does not fit refuses them all.
Refuse ==
    /\ by = "agent" /\ status = "refused"
    /\ staging' = NoFiles /\ pending' = <<>> /\ by' = "nobody"
    /\ Idle
    /\ UNCHANGED <<original, tree, patches>>

\* A task without a diff has no patch to export.
Export ==
    /\ by = "nobody"
    /\ \E diff \in Diffs(original, tree) \ {<<>>} :
          LET parsed == Parsed(diff) IN
          /\ pending' = IF parsed.mode = "old" THEN parsed.patches ELSE <<>>
          /\ status' = IF parsed.mode = "old" THEN "none" ELSE "refused"
    /\ by' = "human" /\ staging' = original
    /\ UNCHANGED <<original, tree, patches, source, patch, hunk, line, cursor,
                   output, origin, removed>>

ReviewNext ==
    \/ \E payload \in Proposals : Propose(payload)
    \/ StartFile \/ FinishFile \/ Publish \/ Refuse \/ Export
    \/ ApplyStep /\ UNCHANGED reviewVars

-----------------------------------------------------------------------------
(* Properties.                                                             *)

\* The user who applies the exported diff to what the task started from is
\* never refused and gets exactly the files the task ended with.
Reproduces ==
    by = "human" =>
        /\ status # "refused"
        /\ pending = <<>> /\ status = "none" => staging = tree

\* A line that would be written like a header, and only ends because the
\* text does.
HeaderLike(op, l) ==
    l.end = "none" /\ l.text # <<>>
        /\ l.text[1] = IF op = "-" THEN "-- " ELSE "++ "

\* What build_diff can express: files that end their lines with line feeds,
\* no unterminated line that looks like a header when it is marked, and no
\* empty file that comes or goes.
Expressible(path) ==
    LET before == original[path]
        after == tree[path]
    IN  /\ \A l \in Range(before.lines) \cup Range(after.lines) : l.end # "sep"
        /\ ~ \E l \in Range(before.lines) : HeaderLike("-", l)
        /\ ~ \E l \in Range(after.lines) : HeaderLike("+", l)
        /\ before.exists = after.exists \/ before.lines # after.lines

\* Whatever the task did with texts a unified diff can express, in several
\* files and several patches, some refused, the exported diff is read and
\* applied without complaint and reproduces the task's last workspace.
ExportReproduces ==
    (\A path \in Paths : original[path] # tree[path] => Expressible(path)) => Reproduces
=============================================================================
