----------------------------- MODULE UnifiedDiff -----------------------------
(***************************************************************************)
(* The unified diff between two workspaces: how it is written (build_diff, *)
(* workspace/editor.py) and how it is read (parse_unified_diff,            *)
(* workspace/patches.py).                                                  *)
(*                                                                         *)
(* A payload is a sequence of pieces that are written one after the other, *)
(* lines with a field `at': the ranges of a hunk header, <<>> elsewhere.   *)
(* Atoms of a text that matter here are "-", "+" and " " (the first        *)
(* character of a line of a hunk), "-- " and "++ " (so that "-", "-- " is  *)
(* what "--- " is), "@@", "a/", "b/" and "/dev/null".                      *)
(*                                                                         *)
(* difflib is modelled from the way it is used: it finds some alignment of *)
(* the two files, not always a shortest one (its autojunk heuristic passes *)
(* over frequent lines), so the model takes any alignment that removes     *)
(* lines before it adds others in their place.                             *)
(***************************************************************************)
EXTENDS FilePatches

CONSTANTS
    PathOrder,   \* the paths, sorted
    Context      \* unchanged lines shown around a change

\* What a diff is written with besides the paths and the lines of the files.
Marks == {" ", "+", "-", "-- ", "++ ", "@@", "a/", "b/", "/dev/null",
          "\\ No newline at end of file"}

ASSUME DiffAssumption ==
    /\ Paths \cup Marks \subseteq Atoms
    /\ PathOrder \in Seq(Paths) /\ ToSet(PathOrder) = Paths
    /\ \A i, j \in DOMAIN PathOrder : PathOrder[i] = PathOrder[j] => i = j
    /\ Context \in Nat

DiffPiece == [text : Seq(Atoms), end : {"lf", "none", "sep"},
              at : {<<>>} \cup (Nat \X Nat \X Nat \X Nat)]

-----------------------------------------------------------------------------
(* difflib.unified_diff                                                    *)

CountOf(ops, lines) == Len(LinesOf(lines, ops))

\* A further line of the script: the next one of the old file, of the new one
\* or of both; those removed come before those added.
Continued(a, b, script) ==
    LET i == CountOf({" ", "-"}, script) + 1
        j == CountOf({" ", "+"}, script) + 1
    IN  {Append(script, l) : l \in
            {l \in [operation : {" ", "-", "+"}, content : Range(a) \cup Range(b)] :
                /\ l.operation \in {" ", "-"} => i <= Len(a) /\ l.content = a[i]
                /\ l.operation \in {" ", "+"} => j <= Len(b) /\ l.content = b[j]
                /\ l.operation = "-" => script = <<>> \/ Last(script).operation # "+"}}

\* Every line of both files is in the script.  A frequent line may be removed
\* and added again in one place, as difflib does in texts of 200 lines and more.
IsScript(a, b, script) ==
    CountOf({" ", "-"}, script) = Len(a) /\ CountOf({" ", "+"}, script) = Len(b)

Scripts(a, b) ==
    LET upTo[n \in 0 .. Len(a) + Len(b)] ==
            IF n = 0 THEN {<<>>}
            ELSE LET shorter == upTo[n - 1]
                 IN  shorter \cup UNION {Continued(a, b, s) : s \in shorter}
    IN  {s \in upTo[Len(a) + Len(b)] : IsScript(a, b, s)}

\* difflib names an empty range by the line before it.
MutantFirstLine(passed, count) == passed + 1
FirstLine(passed, count) == IF count = 0 THEN passed ELSE passed + 1

HunkOf(script, from, to) ==
    LET passed == SubSeq(script, 1, from - 1)
        lines == SubSeq(script, from, to)
        old == CountOf({" ", "-"}, lines)
        new == CountOf({" ", "+"}, lines)
    IN  [oldStart |-> FirstLine(CountOf({" ", "-"}, passed), old), oldCount |-> old,
         newStart |-> FirstLine(CountOf({" ", "+"}, passed), new), newCount |-> new,
         lines |-> lines]

\* Changes with few unchanged lines between them share a hunk.
HunksOf(script) ==
    LET shown == {i \in DOMAIN script : \E j \in DOMAIN script :
                     script[j].operation # " " /\ i - j \in -Context .. Context}
        First(n) == CHOOSE m \in 1 .. n : m .. n \subseteq shown /\ m - 1 \notin shown
        hunks[n \in 0 .. Len(script)] ==
            IF n = 0 THEN <<>>
            ELSE IF n \in shown /\ n + 1 \notin shown
                 THEN Append(hunks[n - 1], HunkOf(script, First(n), n))
            ELSE hunks[n - 1]
    IN  hunks[Len(script)]

-----------------------------------------------------------------------------
(* build_diff                                                              *)

Piece(text, end) == [text |-> text, end |-> end, at |-> <<>>]

Marker == Piece(<<"\\ No newline at end of file">>, "lf")

OldHeader == <<"-", "-- ">>
NewHeader == <<"+", "++ ">>

\* What looks like a header is written as it is.
MutantIsDataLine(text) == FALSE
IsDataLine(text) == ~IsPrefix(OldHeader, text) /\ ~IsPrefix(NewHeader, text)

Written(l) ==
    LET text == <<l.operation>> \o l.content.text
        end == l.content.end
    IN  IF IsDataLine(text) /\ end # "lf"
        THEN <<Piece(text, end), Piece(<<>>, "lf"), Marker>>
        ELSE <<Piece(text, end)>>

WrittenHunk(h) ==
    <<[text |-> <<"@@">>, end |-> "lf",
       at |-> <<h.oldStart, h.oldCount, h.newStart, h.newCount>>]>>
    \o FlattenSeq([i \in 1 .. Len(h.lines) |-> Written(h.lines[i])])

HeaderName(prefix, file, path) == IF file.exists THEN <<prefix, path>> ELSE <<"/dev/null">>

\* Nothing is written of a file without a hunk.
FileDiff(path, before, after, hunks) ==
    IF hunks = <<>> THEN <<>>
    ELSE <<Piece(OldHeader \o HeaderName("a/", before, path), "lf"),
           Piece(NewHeader \o HeaderName("b/", after, path), "lf")>>
         \o FlattenSeq([i \in 1 .. Len(hunks) |-> WrittenHunk(hunks[i])])

FileDiffs(path, before, after) ==
    IF before = after THEN {<<>>}
    ELSE {FileDiff(path, before, after, HunksOf(script)) :
             script \in Scripts(before.lines, after.lines)}

Joined(diffs, more) == {d \o e : d \in diffs, e \in more}

Diffs(before, after) ==
    LET Of(path) == FileDiffs(path, before[path], after[path])
        diffs[n \in 0 .. Len(PathOrder)] ==
            IF n = 0 THEN {<<>>} ELSE Joined(diffs[n - 1], Of(PathOrder[n]))
    IN  diffs[Len(PathOrder)]

-----------------------------------------------------------------------------
(* parse_unified_diff, line by l.  The mode is what the parser expects  *)
(* next: an old header, a new one, a hunk (or the next file), a line of a  *)
(* hunk, or the marker after one.                                          *)

Opening == [mode |-> "old", old |-> <<>>, file |-> [path |-> "none", operation |-> "update"],
            at |-> <<0, 0, 0, 0>>, lines |-> <<>>, hunks |-> <<>>, patches |-> <<>>]

Malformed(s) == [s EXCEPT !.mode = "error"]

HeaderOf(l) == SubSeq(l.text, 3, Len(l.text))

FeedOld(s, l) ==
    IF s.mode # "error" /\ IsPrefix(OldHeader, l.text) /\ l.end # "sep"
    THEN [s EXCEPT !.mode = "new", !.old = HeaderOf(l)]
    ELSE Malformed(s)

\* The file that two headers name, if they name one.
Named(old, new) ==
    {f \in [path : Paths, operation : {"create", "update", "delete"}] :
        /\ old = IF f.operation = "create" THEN <<"/dev/null">> ELSE <<"a/", f.path>>
        /\ new = IF f.operation = "delete" THEN <<"/dev/null">> ELSE <<"b/", f.path>>}

FeedNew(s, l) ==
    LET files == {f \in Named(s.old, HeaderOf(l)) :
                     \A i \in DOMAIN s.patches : s.patches[i].path # f.path}
    IN  IF IsPrefix(NewHeader, l.text) /\ l.end # "sep" /\ files # {}
        THEN [s EXCEPT !.mode = "hunks", !.file = CHOOSE f \in files : TRUE]
        ELSE Malformed(s)

\* A file is complete: it has hunks, and only an update has both sides.
CloseFile(s) ==
    IF /\ s.hunks # <<>>
       /\ s.file.operation = "create" => \A i \in DOMAIN s.hunks : s.hunks[i].oldCount = 0
       /\ s.file.operation = "delete" => \A i \in DOMAIN s.hunks : s.hunks[i].newCount = 0
    THEN [s EXCEPT !.mode = "old", !.hunks = <<>>, !.lines = <<>>,
                   !.patches = Append(@, [path |-> s.file.path,
                                          operation |-> s.file.operation,
                                          hunks |-> s.hunks])]
    ELSE Malformed(s)

CountsOf(lines) == <<CountOf({" ", "-"}, lines), CountOf({" ", "+"}, lines)>>

FeedHunks(s, l) ==
    CASE IsPrefix(OldHeader, l.text) -> FeedOld(CloseFile(s), l)
      [] l.text = <<"@@">> /\ l.at # <<>> /\ l.end # "sep" ->
             [s EXCEPT !.mode = IF l.at[2] = 0 /\ l.at[4] = 0 THEN "tail" ELSE "body",
                       !.at = l.at, !.lines = <<>>]
      [] OTHER -> Malformed(s)

\* str.removesuffix("\n") of the line before the marker
Unterminated(lines) ==
    [lines EXCEPT ![Len(lines)].content.end = IF @ = "lf" THEN "none" ELSE @]

FeedBody(s, l) ==
    LET lines == Append(s.lines, [operation |-> l.text[1],
                                  content |-> [text |-> Tail(l.text), end |-> l.end]])
        counts == CountsOf(lines)
    IN  CASE l.text = Marker.text /\ s.lines # <<>> ->
                 [s EXCEPT !.lines = Unterminated(@)]
          [] /\ l.text # <<>> /\ l.text[1] \in {" ", "+", "-"}
             /\ counts[1] <= s.at[2] /\ counts[2] <= s.at[4] ->
                 [s EXCEPT !.lines = lines,
                           !.mode = IF counts = <<s.at[2], s.at[4]>> THEN "tail" ELSE "body"]
          [] OTHER -> Malformed(s)

HunkClosed(s, lines) ==
    [s EXCEPT !.mode = "hunks",
              !.hunks = Append(@, [oldStart |-> s.at[1], oldCount |-> s.at[2],
                                   newStart |-> s.at[3], newCount |-> s.at[4],
                                   lines |-> lines])]

\* A marker after a hunk of no lines finds none: an IndexError.
FeedTail(s, l) ==
    IF l.text # Marker.text THEN FeedHunks(HunkClosed(s, s.lines), l)
    ELSE IF s.lines = <<>> THEN [s EXCEPT !.mode = "crash"]
    ELSE HunkClosed(s, Unterminated(s.lines))

Feed(s, l) ==
    CASE s.mode = "old" -> FeedOld(s, l)
      [] s.mode = "new" -> FeedNew(s, l)
      [] s.mode = "hunks" -> FeedHunks(s, l)
      [] s.mode = "body" -> FeedBody(s, l)
      [] s.mode = "tail" -> FeedTail(s, l)
      [] OTHER -> s

\* mode is "old" in the end exactly if the payload is a patch.
Parsed(payload) ==
    LET text == Text(payload)
        fed[n \in 0 .. Len(text)] ==
            IF n = 0 THEN Opening ELSE Feed(fed[n - 1], text[n])
        s == fed[Len(text)]
    IN  CASE s.mode = "tail" -> CloseFile(HunkClosed(s, s.lines))
          [] s.mode = "hunks" -> CloseFile(s)
          [] s.mode = "crash" -> s
          [] OTHER -> Malformed(s)
=============================================================================
