----------------------------- MODULE FilePatches -----------------------------
(***************************************************************************)
(* FilePatch.apply (workspace/patches.py): one file patch is applied to    *)
(* the lines of one file, hunk after hunk and line after line.  cursor     *)
(* counts the lines of the file that have been passed.                     *)
(*                                                                         *)
(* Two variables record what becomes of the file's lines and decide        *)
(* nothing: origin[i] is the number of the line that output line i was     *)
(* copied from (0 when the patch adds it), removed the lines dropped.      *)
(*                                                                         *)
(* A definition whose name starts with Mutant is a plausible slip in the   *)
(* definition after it, kept to show that some property notices it.        *)
(***************************************************************************)
EXTENDS Texts

CONSTANT Paths   \* of the files in a workspace

VARIABLES
    status,          \* of the application
    source, patch,   \* the file, [exists, lines], and its FilePatch
    hunk, line,      \* next hunk; next line in it
    cursor, output,
    origin, removed

patchVars == <<status, source, patch, hunk, line, cursor, output, origin, removed>>

HunkLine == [operation : {" ", "+", "-"}, content : Line]
Hunk == [oldStart : Nat, oldCount : Nat, newStart : Nat, newCount : Nat,
         lines : Seq(HunkLine)]
FilePatch == [path : Paths \cup {"none"}, operation : {"create", "update", "delete"},
              hunks : Seq(Hunk)]
File == [exists : BOOLEAN, lines : Seq(Line)]

NoFile == [exists |-> FALSE, lines |-> <<>>]
NoPatch == [path |-> "none", operation |-> "update", hunks |-> <<>>]

PatchTypeOK ==
    /\ status \in {"none", "hunks", "lines", "done", "refused"}
    /\ source \in File /\ patch \in FilePatch
    /\ hunk \in Nat /\ line \in Nat /\ cursor \in Nat
    /\ output \in Seq(Line) /\ origin \in Seq(Nat)
    /\ removed \subseteq Nat

PatchInit ==
    /\ status = "none" /\ source = NoFile /\ patch = NoPatch
    /\ hunk = 1 /\ line = 1 /\ cursor = 0
    /\ output = <<>> /\ origin = <<>> /\ removed = {}

Begin(file, p) ==
    /\ source' = file /\ patch' = p
    /\ status' = IF (p.operation = "create") = file.exists THEN "refused" ELSE "hunks"
    /\ hunk' = 1 /\ line' = 1 /\ cursor' = 0
    /\ output' = <<>> /\ origin' = <<>> /\ removed' = {}

-----------------------------------------------------------------------------
(* Hunks.                                                                  *)

\* A range of no lines is named by the line before it.
Start(h) == IF h.oldCount = 0 THEN h.oldStart ELSE h.oldStart - 1
NewStart(h) == IF h.newCount = 0 THEN h.newStart ELSE h.newStart - 1

Current == patch.hunks[hunk]

MutantReachable(h) == 0 <= Start(h) /\ Start(h) <= Len(source.lines)
Reachable(h) == cursor <= Start(h) /\ Start(h) <= Len(source.lines)

Between(h) == SubSeq(source.lines, cursor + 1, Start(h))

MutantInPosition(h) == TRUE
InPosition(h) == Len(output) + Len(Between(h)) = NewStart(h)

\* The numbers of the lines that are copied up to line n.
Copied(n) == [i \in 1 .. (n - cursor) |-> cursor + i]

OpenHunk ==
    /\ status = "hunks" /\ hunk <= Len(patch.hunks)
    /\ Reachable(Current) /\ InPosition(Current)
    /\ output' = output \o Between(Current)
    /\ origin' = origin \o Copied(Start(Current))
    /\ cursor' = Start(Current)
    /\ line' = 1 /\ status' = "lines"
    /\ UNCHANGED <<source, patch, hunk, removed>>

RefuseHunk ==
    /\ status = "hunks" /\ hunk <= Len(patch.hunks)
    /\ ~(Reachable(Current) /\ InPosition(Current))
    /\ status' = "refused"
    /\ UNCHANGED <<source, patch, hunk, line, cursor, output, origin, removed>>

Reading(op) ==
    /\ status = "lines" /\ line <= Len(Current.lines)
    /\ Current.lines[line].operation \in op

Matches ==
    /\ cursor < Len(source.lines)
    /\ source.lines[cursor + 1] = Current.lines[line].content

AddLine ==
    /\ Reading({"+"})
    /\ output' = Append(output, Current.lines[line].content)
    /\ origin' = Append(origin, 0)
    /\ line' = line + 1
    /\ UNCHANGED <<status, source, patch, hunk, cursor, removed>>

KeepLine ==
    /\ Reading({" "}) /\ Matches
    /\ output' = Append(output, Current.lines[line].content)
    /\ origin' = Append(origin, cursor + 1)
    /\ cursor' = cursor + 1 /\ line' = line + 1
    /\ UNCHANGED <<status, source, patch, hunk, removed>>

DropLine ==
    /\ Reading({"-"}) /\ Matches
    /\ removed' = removed \cup {cursor + 1}
    /\ cursor' = cursor + 1 /\ line' = line + 1
    /\ UNCHANGED <<status, source, patch, hunk, output, origin>>

RefuseLine ==
    /\ Reading({" ", "-"}) /\ ~Matches
    /\ status' = "refused"
    /\ UNCHANGED <<source, patch, hunk, line, cursor, output, origin, removed>>

CloseHunk ==
    /\ status = "lines" /\ line > Len(Current.lines)
    /\ hunk' = hunk + 1 /\ status' = "hunks"
    /\ UNCHANGED <<source, patch, line, cursor, output, origin, removed>>

Rest == SubSeq(source.lines, cursor + 1, Len(source.lines))

\* A deleted file must end up empty.
Finish ==
    /\ status = "hunks" /\ hunk > Len(patch.hunks)
    /\ output' = output \o Rest
    /\ origin' = origin \o Copied(Len(source.lines))
    /\ cursor' = Len(source.lines)
    /\ status' = IF patch.operation = "delete" /\ Text(output') # <<>>
                 THEN "refused" ELSE "done"
    /\ UNCHANGED <<source, patch, hunk, line, removed>>

ApplyStep ==
    \/ OpenHunk \/ RefuseHunk \/ AddLine \/ KeepLine \/ DropLine \/ RefuseLine
    \/ CloseHunk \/ Finish

\* One patch of one file after the other.
PatchNext == ApplyStep \/ \E file \in File, p \in FilePatch : Begin(file, p)

PatchSpec == PatchInit /\ [][PatchNext]_patchVars

-----------------------------------------------------------------------------
(* What a patch means, whatever the order it is worked off in.             *)

\* What those of the first n lines hold that are marked with one of ops.
LinesTo(lines, ops) ==
    LET to[n \in 0 .. Len(lines)] ==
            IF n = 0 THEN <<>>
            ELSE IF lines[n].operation \in ops THEN Append(to[n - 1], lines[n].content)
            ELSE to[n - 1]
    IN  to
LinesOf(lines, ops) == LinesTo(lines, ops)[Len(lines)]

Old(h) == LinesOf(h.lines, {" ", "-"})
New(h) == LinesOf(h.lines, {" ", "+"})

\* By how many lines the first n hunks lengthen a text.
Growth(hunks) ==
    LET grown[n \in 0 .. Len(hunks)] ==
            IF n = 0 THEN 0 ELSE grown[n - 1] + Len(New(hunks[n])) - Len(Old(hunks[n]))
    IN  grown

\* A hunk finds its old lines where it says, and its new lines come to stand
\* where it says.
Found(text, hunks, i) ==
    LET h == hunks[i] IN
    /\ Start(h) >= 0 /\ Start(h) + Len(Old(h)) <= Len(text)
    /\ SubSeq(text, Start(h) + 1, Start(h) + Len(Old(h))) = Old(h)
    /\ NewStart(h) = Start(h) + Growth(hunks)[i - 1]

\* Every hunk is found, after the lines of the hunk before it.
Fits(text, hunks) ==
    /\ \A i \in 1 .. Len(hunks) : Found(text, hunks, i)
    /\ \A i \in 2 .. Len(hunks) :
          Start(hunks[i - 1]) + Len(Old(hunks[i - 1])) <= Start(hunks[i])

Replaced(h, text) ==
    SubSeq(text, 1, Start(h)) \o New(h)
        \o SubSeq(text, Start(h) + Len(Old(h)) + 1, Len(text))

\* The first k hunks, from the last one to the first: no position moves.
PatchedBy(k, hunks, text) ==
    LET after[n \in 0 .. k] ==
            IF n = 0 THEN text ELSE Replaced(hunks[k + 1 - n], after[n - 1])
    IN  after[k]

Patched(text, hunks) == PatchedBy(Len(hunks), hunks, text)

Applies(file, p) ==
    /\ file.exists = (p.operation # "create")
    /\ Fits(file.lines, p.hunks)
    /\ p.operation = "delete" => Text(Patched(file.lines, p.hunks)) = <<>>

-----------------------------------------------------------------------------
(* Properties.                                                             *)

\* A patch is accepted exactly if it fits the file, and it then yields the
\* file with every hunk's old lines replaced by its new ones.
AppliesAsWritten ==
    /\ status = "done" => /\ Applies(source, patch)
                          /\ output = Patched(source.lines, patch.hunks)
    /\ status = "refused" => ~Applies(source, patch)

\* At every moment of the application each line of the file that was passed
\* is either in the output, once, unchanged and in its place among the
\* others, or was dropped; hunks that overlap would repeat or revive lines.
EveryLineAccounted ==
    /\ \A i \in 1 .. Len(origin) : origin[i] # 0 =>
          /\ origin[i] \in (1 .. cursor) \ removed
          /\ output[i] = source.lines[origin[i]]
          /\ \A j \in 1 .. (i - 1) : origin[j] < origin[i]
    /\ \A n \in (1 .. cursor) \ removed : \E i \in 1 .. Len(origin) : origin[i] = n
    /\ Len(origin) = Len(output)
=============================================================================
