---------------------------- MODULE TaskWorkspace ----------------------------
(***************************************************************************)
(* The texts of a task from the user's directory and back: the directory   *)
(* is copied (SourceSnapshot), the copy is patched file by file            *)
(* (FilePatches) and the difference goes back to the user (ReviewedPatch). *)
(* The copy that is complete becomes generation 0; nothing of the user's   *)
(* directory is looked at afterwards.                                      *)
(***************************************************************************)
EXTENDS SourceSnapshot, ReviewedPatch

ASSUME WorkspaceAssumption == Names = Paths

vars == <<snapshotVars, patchVars, reviewVars>>

TypeOK ==
    /\ SnapshotTypeOK /\ PatchTypeOK /\ ReviewTypeOK
    /\ Cardinality(FilesIn(copied)) <= MaxFiles

Init == SnapshotInit /\ PatchInit /\ ReviewInit

\* The generation is opened; the copy's own state ends.
GenerationZero ==
    [n \in Paths |-> IF copied[n] = {} THEN NoFile
                     ELSE [exists |-> TRUE,
                           lines |-> Text(FlattenSeq(CHOOSE c \in copied[n] : TRUE))]]

HandOver ==
    /\ step = "copied"
    /\ step' = "handed over"
    /\ original' = GenerationZero /\ tree' = GenerationZero
    /\ dir' = [n \in Names |-> 0]
    /\ inode' = [i \in Inodes |-> [parts |-> <<>>, time |-> 0]]
    /\ edits' = 0 /\ held' = Nothing /\ rules' = {} /\ copied' = Nothing
    /\ name' = Ignore /\ listing' = {} /\ Closed
    /\ UNCHANGED <<staging, pending, by, patches, patchVars>>

Next ==
    \/ SnapshotNext /\ UNCHANGED <<patchVars, reviewVars>>
    \/ HandOver
    \/ step = "handed over" /\ ReviewNext /\ UNCHANGED snapshotVars

Spec == Init /\ [][Next]_vars
=============================================================================
