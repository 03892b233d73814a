---------------------------- MODULE SourceSnapshot ----------------------------
(***************************************************************************)
(* SnapshotWorkspaceManager.create: the source directory is copied while   *)
(* its user goes on editing it.  .gitignore is read first and decides what *)
(* is left out; then the directory is listed, and every file is inspected, *)
(* opened, compared with the inspection, read piece by piece and compared  *)
(* with its state when it was opened.  Nothing is locked.                  *)
(*                                                                         *)
(* An inode has its contents, a sequence of the pieces that one read       *)
(* returns, and the time of the last change, here the number of the edit   *)
(* that made it (no two edits share a timestamp).  Inode numbers are used  *)
(* again when neither a path nor an open descriptor refers to them.        *)
(*                                                                         *)
(* held records the contents every path has had since the copy began and   *)
(* decides nothing.  A definition whose name starts with Mutant is a       *)
(* plausible slip in the definition after it, kept to show that some       *)
(* property notices it.                                                    *)
(***************************************************************************)
EXTENDS Texts, FiniteSets

CONSTANTS
    Names,         \* of the files in the directory
    NameOrder,     \* the same, sorted
    Ignore,        \* the one that is .gitignore
    Contents,      \* what the user may write, per file
    Inodes,        \* numbers, 0 not among them
    Ignored(_, _), \* whether a .gitignore's contents leave a file out
    MaxFiles,      \* quota
    MaxEdits       \* bound on the user's edits during the copy

ASSUME SnapshotAssumption ==
    /\ Ignore \in Names /\ NameOrder \in Seq(Names)
    /\ Contents \in [Names -> SUBSET Seq(Seq(Line))]
    /\ 0 \notin Inodes
    /\ MaxFiles \in Nat /\ MaxEdits \in Nat

VARIABLES
    dir, inode, edits,       \* the user's directory
    step, name, listing,     \* of the copy; file at hand; files to go
    seen, fd, opened, got,   \* inode inspected, inode open, its time, pieces read
    rules, copied,           \* contents of .gitignore and of the copies, if any
    held

userVars == <<dir, inode, edits, held>>
fileVars == <<seen, fd, opened, got>>
snapshotVars == <<userVars, step, name, listing, fileVars, rules, copied>>

Running == {"rules", "open", "read", "verify", "list", "entries"}

Inode == [parts : Seq(Seq(Line)), time : Nat]

SnapshotTypeOK ==
    /\ dir \in [Names -> Inodes \cup {0}] /\ inode \in [Inodes -> Inode]
    /\ edits \in Nat
    /\ step \in Running \cup {"copied", "failed", "interrupted", "handed over"}
    /\ name \in Names /\ listing \subseteq Names
    /\ seen \in Inodes \cup {0} /\ fd \in Inodes \cup {0}
    /\ opened \in Nat /\ got \in Seq(Seq(Line))
    /\ rules \subseteq Seq(Seq(Line))
    /\ copied \in [Names -> SUBSET Seq(Seq(Line))]
    /\ held \in [Names -> SUBSET Seq(Seq(Line))]

ContentsOf(n) == inode[dir[n]].parts

Nothing == [n \in Names |-> {}]

\* Any directory whose files hold what the user may write.
SnapshotInit ==
    /\ dir \in [Names -> Inodes \cup {0}]
    /\ \A m, n \in Names : dir[m] = dir[n] /\ m # n => dir[m] = 0
    /\ inode \in [Inodes -> [parts : {<<>>} \cup UNION {Contents[n] : n \in Names},
                             time : {0}]]
    /\ \A n \in Names : dir[n] # 0 => ContentsOf(n) \in Contents[n]
    /\ \A i \in Inodes : (\A n \in Names : dir[n] # i) => inode[i].parts = <<>>
    /\ edits = 0
    /\ held = [n \in Names |-> IF dir[n] = 0 THEN {} ELSE {ContentsOf(n)}]
    /\ step = "rules" /\ name = Ignore /\ listing = {}
    /\ seen = 0 /\ fd = 0 /\ opened = 0 /\ got = <<>>
    /\ rules = {} /\ copied = Nothing

-----------------------------------------------------------------------------
(* The user edits.                                                         *)

Edit(n, i, contents) ==
    /\ step \in Running /\ edits < MaxEdits
    /\ edits' = edits + 1
    /\ inode' = [inode EXCEPT ![i] = [parts |-> contents, time |-> edits + 1]]
    /\ dir' = [dir EXCEPT ![n] = i]
    /\ held' = [held EXCEPT ![n] = @ \cup {contents}]
    /\ UNCHANGED <<step, name, listing, fileVars, rules, copied>>

\* In place: whoever has the file open sees it change.
Rewrite(n, contents) == dir[n] # 0 /\ Edit(n, dir[n], contents)

\* A new file, renamed over the old one if there is one.
Replace(n, i, contents) ==
    /\ i # fd /\ \A m \in Names : dir[m] # i
    /\ Edit(n, i, contents)

Delete(n) ==
    /\ step \in Running /\ edits < MaxEdits /\ dir[n] # 0
    /\ edits' = edits + 1
    /\ dir' = [dir EXCEPT ![n] = 0]
    /\ UNCHANGED <<inode, held, step, name, listing, fileVars, rules, copied>>

-----------------------------------------------------------------------------
(* Reading one file.                                                       *)

Closed == seen' = 0 /\ fd' = 0 /\ opened' = 0 /\ got' = <<>>

\* SnapshotError: what was copied is removed.
Failed ==
    /\ step' = "failed" /\ copied' = Nothing /\ Closed
    /\ UNCHANGED <<userVars, name, listing, rules>>

\* The descriptor is compared with the inspection, so a file that was
\* replaced in between is refused unless it got the same inode number.
Open ==
    /\ step = "open" /\ dir[name] # 0 /\ dir[name] = seen
    /\ fd' = dir[name] /\ opened' = inode[dir[name]].time /\ got' = <<>>
    /\ step' = "read"
    /\ UNCHANGED <<userVars, name, listing, seen, rules, copied>>

OpenFails ==
    /\ step = "open" /\ (dir[name] = 0 \/ dir[name] # seen)
    /\ Failed

MorePieces == Len(got) < Len(inode[fd].parts)

Read ==
    /\ step = "read" /\ MorePieces
    /\ got' = Append(got, inode[fd].parts[Len(got) + 1])
    /\ UNCHANGED <<userVars, step, name, listing, seen, fd, opened, rules, copied>>

EndOfFile ==
    /\ step = "read" /\ ~MorePieces
    /\ step' = "verify"
    /\ UNCHANGED <<userVars, name, listing, fileVars, rules, copied>>

\* _file_version: size and time of the file as opened and now.
MutantSameVersion == Len(got) = Len(inode[fd].parts)
SameVersion == inode[fd].time = opened

Changed == step = "verify" /\ ~SameVersion /\ Failed

FilesIn(copy) == {n \in Names : copy[n] # {}}

MutantWithinQuota(copy) == Cardinality(FilesIn(copied)) <= MaxFiles
WithinQuota(copy) == Cardinality(FilesIn(copy)) <= MaxFiles

\* One more file in the copy, unless that is one too many.
Keep(n, contents) ==
    LET kept == [copied EXCEPT ![n] = {contents}] IN
    IF WithinQuota(kept) THEN copied' = kept /\ step' = "entries"
    ELSE copied' = Nothing /\ step' = "failed"

RulesRead ==
    /\ step = "verify" /\ SameVersion /\ name = Ignore
    /\ rules' = {got}
    /\ step' = "list"
    /\ Closed
    /\ UNCHANGED <<userVars, name, listing, copied>>

FileCopied ==
    /\ step = "verify" /\ SameVersion /\ name # Ignore
    /\ Keep(name, got)
    /\ Closed
    /\ UNCHANGED <<userVars, name, listing, rules>>

-----------------------------------------------------------------------------
(* _copy_directory                                                         *)

InspectRules ==
    /\ step = "rules"
    /\ seen' = dir[Ignore]
    /\ step' = IF dir[Ignore] = 0 THEN "list" ELSE "open"
    /\ UNCHANGED <<userVars, name, listing, fd, opened, got, rules, copied>>

List ==
    /\ step = "list"
    /\ listing' = {n \in Names : dir[n] # 0}
    /\ step' = "entries"
    /\ UNCHANGED <<userVars, name, fileVars, rules, copied>>

Sorts(m, n) == \E i, j \in DOMAIN NameOrder : i < j /\ NameOrder[i] = m /\ NameOrder[j] = n

\* The next one of the names that were listed.
Entry(n) == n \in listing /\ \A m \in listing \ {n} : Sorts(n, m)

LeftOut(n) == \E r \in rules : Ignored(r, n)

\* Not read again: the copy and the rules are one text.
MutantPayload == IF dir[Ignore] = 0 THEN rules ELSE {ContentsOf(Ignore)}
Payload == rules

\* .gitignore is copied from what was read, and it may leave itself out.
CopyRules ==
    /\ step = "entries" /\ Entry(Ignore) /\ rules # {}
    /\ listing' = listing \ {Ignore}
    /\ IF LeftOut(Ignore) THEN UNCHANGED <<step, copied>>
       ELSE \E contents \in Payload : Keep(Ignore, contents)
    /\ UNCHANGED <<userVars, name, fileVars, rules>>

\* .gitignore is there by now, and was not when the rules were read.
LateRules ==
    /\ step = "entries" /\ Entry(Ignore) /\ rules = {}
    /\ Failed

Inspect(n) ==
    /\ step = "entries" /\ Entry(n) /\ n # Ignore /\ dir[n] # 0
    /\ listing' = listing \ {n}
    /\ IF LeftOut(n) THEN UNCHANGED <<step, name, seen>>
       ELSE step' = "open" /\ name' = n /\ seen' = dir[n]
    /\ UNCHANGED <<userVars, fd, opened, got, rules, copied>>

InspectFails(n) ==
    /\ step = "entries" /\ Entry(n) /\ n # Ignore /\ dir[n] = 0
    /\ Failed

Complete ==
    /\ step = "entries" /\ listing = {}
    /\ step' = "copied"
    /\ UNCHANGED <<userVars, name, listing, fileVars, rules, copied>>

\* Ctrl-C: what was copied stays behind.
Interrupt ==
    /\ step \in Running
    /\ step' = "interrupted" /\ Closed
    /\ UNCHANGED <<userVars, name, listing, rules, copied>>

-----------------------------------------------------------------------------
UserStep ==
    \E n \in Names :
        \/ Delete(n)
        \/ \E contents \in Contents[n] :
              Rewrite(n, contents) \/ \E i \in Inodes : Replace(n, i, contents)

CopyStep ==
    \/ InspectRules \/ Open \/ OpenFails \/ Read \/ EndOfFile \/ Changed
    \/ RulesRead \/ FileCopied \/ List \/ CopyRules \/ LateRules
    \/ (\E n \in Names : Inspect(n) \/ InspectFails(n)) \/ Complete \/ Interrupt

SnapshotNext == UserStep \/ CopyStep

SnapshotSpec == SnapshotInit /\ [][SnapshotNext]_snapshotVars

-----------------------------------------------------------------------------
(* Properties.                                                             *)

\* Every file in the copy has contents that the file had at one moment since
\* the copy began: no file is torn between two versions of it, however the
\* user edits, replaces, removes and creates files meanwhile.
CopiedWhole == \A n \in Names : copied[n] \subseteq held[n]

\* What the copied .gitignore leaves out is not in the copy, although the
\* user may have rewritten it while the files were copied.
IgnoredStaysOut ==
    \A n \in Names : \A contents \in copied[Ignore] :
        copied[n] # {} => ~Ignored(contents, n)
=============================================================================
