-------------------------- MODULE FilePatchesProofs --------------------------
(* Proofs about the application of a file patch, for every file and every  *)
(* patch.                                                                  *)
(*                                                                         *)
(* That no line is lost: the cursor only moves forward and the lines       *)
(* dropped lie behind it, so what a step copies has not been copied or     *)
(* dropped before.                                                         *)
(*                                                                         *)
(* That the patch is applied as it is written: the meaning of a patch is   *)
(* defined by recursion, and what a recursive function computes is proved  *)
(* by induction on sets of naturals, from the fact that every such set has *)
(* a least element.  The invariant relates what has been written so far to *)
(* what the hunks so far make of ANY text that begins like the file.       *)
EXTENDS FilePatches, SequenceTheorems, WellFoundedInduction, TLAPS

\* EveryLineAccounted of any state, with the lines dropped behind the cursor.
Accounted(lines, cur, out, org, rem) ==
    /\ Len(org) = Len(out) /\ cur <= Len(lines) /\ rem \subseteq 1 .. cur
    /\ \A i \in 1 .. Len(org) : org[i] # 0 =>
          /\ org[i] \in (1 .. cur) \ rem
          /\ out[i] = lines[org[i]]
          /\ \A j \in 1 .. (i - 1) : org[j] < org[i]
    /\ \A n \in (1 .. cur) \ rem : \E i \in 1 .. Len(org) : org[i] = n

Placed ==
    /\ hunk >= 1 /\ line >= 1
    /\ status = "lines" => hunk <= Len(patch.hunks)

IInv ==
    /\ PatchTypeOK /\ Placed
    /\ Accounted(source.lines, cursor, output, origin, removed)

LEMMA InitIInv == PatchInit => IInv
<1> SUFFICES ASSUME PatchInit PROVE IInv
    OBVIOUS
<1>1. source \in File /\ patch \in FilePatch
    <2>1. <<>> \in Seq(Line) /\ <<>> \in Seq(Hunk)
        BY EmptySeq
    <2>2. source = [exists |-> FALSE, lines |-> <<>>]
        BY DEF PatchInit, NoFile
    <2>3. source \in File
        BY <2>1, <2>2, Zenon DEF File
    <2>4. patch = [path |-> "none", operation |-> "update", hunks |-> <<>>]
        BY DEF PatchInit, NoPatch
    <2>5. "none" \in Paths \cup {"none"} /\ "update" \in {"create", "update", "delete"}
        OBVIOUS
    <2>6. patch \in FilePatch
        BY <2>1, <2>4, <2>5, Zenon DEF FilePatch
    <2> QED
        BY <2>3, <2>6
<1>2. output \in Seq(Line) /\ origin \in Seq(Nat) /\ removed \subseteq Nat
    BY EmptySeq DEF PatchInit
<1>3. PatchTypeOK
    BY <1>1, <1>2 DEF PatchInit, PatchTypeOK
<1>4. Placed
    BY DEF PatchInit, Placed
<1>5. Accounted(source.lines, cursor, output, origin, removed)
    BY SMT DEF PatchInit, NoFile, Accounted
<1> QED
    BY <1>3, <1>4, <1>5 DEF IInv

LEMMA BeginIInv ==
    ASSUME NEW file \in File, NEW p \in FilePatch, Begin(file, p)
    PROVE  IInv'
<1>1. PatchTypeOK'
    BY SMT DEF Begin, PatchTypeOK
<1>2. Placed'
    BY DEF Begin, Placed
<1>3. Accounted(source.lines, cursor, output, origin, removed)'
    BY SMT DEF Begin, File, Accounted
<1> QED
    BY <1>1, <1>2, <1>3 DEF IInv

-----------------------------------------------------------------------------
(* The three ways to move on in a file.                                    *)

\* Lines are copied up to line n.
LEMMA CopyAccounted ==
    ASSUME NEW lines \in Seq(Line), NEW cur \in Nat, NEW out \in Seq(Line),
           NEW org \in Seq(Nat), NEW rem, Accounted(lines, cur, out, org, rem),
           NEW n \in Nat, cur <= n, n <= Len(lines)
    PROVE  LET more == SubSeq(lines, cur + 1, n)
               from == [i \in 1 .. (n - cur) |-> cur + i]
           IN  /\ more \in Seq(Line) /\ from \in Seq(Nat)
               /\ Accounted(lines, n, out \o more, org \o from, rem)
<1> DEFINE more == SubSeq(lines, cur + 1, n)
           from == [i \in 1 .. (n - cur) |-> cur + i]
           out2 == out \o more
           org2 == org \o from
<1>0. PICK d \in Nat : d = n - cur
    BY SMT
<1>1. more \in Seq(Line) /\ Len(more) = d
      /\ \A i \in 1 .. d : more[i] = lines[cur + i]
    <2>1. \A i \in cur + 1 .. n : lines[i] \in Line
        BY ElementOfSeq, SMT
    <2>2. /\ more \in Seq(Line)
          /\ Len(more) = IF cur + 1 <= n THEN n - (cur + 1) + 1 ELSE 0
          /\ \A i \in 1 .. n - (cur + 1) + 1 : more[i] = lines[(cur + 1) + i - 1]
        BY <2>1, SubSeqProperties
    <2>3. Len(more) = d
        BY <1>0, <2>2, SMT
    <2>4. ASSUME NEW i \in 1 .. d PROVE more[i] = lines[cur + i]
        <3>1. i \in 1 .. n - (cur + 1) + 1 /\ (cur + 1) + i - 1 = cur + i
            BY <1>0, SMT
        <3> QED
            BY <2>2, <3>1
    <2> QED
        BY <2>2, <2>3, <2>4
<1>2. from \in Seq(Nat) /\ Len(from) = d
      /\ \A i \in 1 .. d : from[i] = cur + i
    <2>1. from = [i \in 1 .. d |-> cur + i]
        BY <1>0
    <2> QED
        BY <2>1, SMT
<1> HIDE DEF more, from
<1>3. /\ out2 \in Seq(Line) /\ Len(out2) = Len(out) + d
      /\ \A i \in 1 .. Len(out) : out2[i] = out[i]
      /\ \A i \in (Len(out) + 1) .. (Len(out) + d) : out2[i] = lines[cur + (i - Len(out))]
    <2>1. /\ out2 \in Seq(Line) /\ Len(out2) = Len(out) + d
          /\ \A i \in 1 .. Len(out) + d :
                out2[i] = IF i <= Len(out) THEN out[i] ELSE more[i - Len(out)]
        BY <1>1, ConcatProperties
    <2>2. ASSUME NEW i \in (Len(out) + 1) .. (Len(out) + d)
          PROVE  out2[i] = lines[cur + (i - Len(out))]
        <3>1. i \in 1 .. Len(out) + d /\ ~(i <= Len(out)) /\ i - Len(out) \in 1 .. d
            BY SMT
        <3> HIDE DEF out2
        <3>2. out2[i] = more[i - Len(out)]
            BY <2>1, <3>1
        <3> QED
            BY <1>1, <3>1, <3>2
    <2>3. ASSUME NEW i \in 1 .. Len(out) PROVE out2[i] = out[i]
        <3>1. i \in 1 .. Len(out) + d /\ i <= Len(out)
            BY SMT
        <3> HIDE DEF out2
        <3> QED
            BY <2>1, <3>1
    <2> QED
        BY <2>1, <2>2, <2>3
<1>4. /\ org2 \in Seq(Nat) /\ Len(org2) = Len(org) + d
      /\ \A i \in 1 .. Len(org) : org2[i] = org[i]
      /\ \A i \in (Len(org) + 1) .. (Len(org) + d) : org2[i] = cur + (i - Len(org))
    <2>1. /\ org2 \in Seq(Nat) /\ Len(org2) = Len(org) + d
          /\ \A i \in 1 .. Len(org) + d :
                org2[i] = IF i <= Len(org) THEN org[i] ELSE from[i - Len(org)]
        BY <1>2, ConcatProperties
    <2>2. ASSUME NEW i \in (Len(org) + 1) .. (Len(org) + d)
          PROVE  org2[i] = cur + (i - Len(org))
        <3>1. i \in 1 .. Len(org) + d /\ ~(i <= Len(org)) /\ i - Len(org) \in 1 .. d
            BY SMT
        <3> HIDE DEF org2
        <3>2. org2[i] = from[i - Len(org)]
            BY <2>1, <3>1
        <3> QED
            BY <1>2, <3>1, <3>2
    <2>3. ASSUME NEW i \in 1 .. Len(org) PROVE org2[i] = org[i]
        <3>1. i \in 1 .. Len(org) + d /\ i <= Len(org)
            BY SMT
        <3> HIDE DEF org2
        <3> QED
            BY <2>1, <3>1
    <2> QED
        BY <2>1, <2>2, <2>3
<1> HIDE DEF out2, org2
<1>5. /\ Len(org) = Len(out) /\ Len(org2) = Len(out2)
      /\ n <= Len(lines) /\ rem \subseteq 1 .. cur /\ rem \subseteq 1 .. n
    BY <1>3, <1>4, SMT DEF Accounted
\* The line that every old output line comes from lies behind the cursor.
<1>6. \A i \in 1 .. Len(org) : org[i] \in Nat /\ org[i] <= cur
    <2> SUFFICES ASSUME NEW i \in 1 .. Len(org) PROVE org[i] \in Nat /\ org[i] <= cur
        OBVIOUS
    <2>1. org[i] \in Nat
        BY ElementOfSeq
    <2>2. org[i] # 0 => org[i] \in 1 .. cur
        BY Zenon DEF Accounted
    <2> QED
        BY <2>1, <2>2, SMT
<1>7. ASSUME NEW i \in 1 .. Len(org2), org2[i] # 0
      PROVE  /\ org2[i] \in (1 .. n) \ rem
             /\ out2[i] = lines[org2[i]]
             /\ \A j \in 1 .. (i - 1) : org2[j] < org2[i]
    <2>1. CASE i \in 1 .. Len(org)
        <3>1. org2[i] = org[i] /\ out2[i] = out[i]
            BY <1>3, <1>4, <1>5, <2>1
        <3>2. /\ org[i] \in (1 .. cur) \ rem
              /\ out[i] = lines[org[i]]
              /\ \A j \in 1 .. (i - 1) : org[j] < org[i]
            BY <1>7, <2>1, <3>1, Zenon DEF Accounted
        <3>3. \A j \in 1 .. (i - 1) : org2[j] = org[j]
            BY <1>4, <2>1, SMT
        <3>4. \A j \in 1 .. (i - 1) : org2[j] < org2[i]
            BY <3>1, <3>2, <3>3
        <3>5. org2[i] \in (1 .. n) \ rem
            BY <3>1, <3>2, SMT
        <3> QED
            BY <3>1, <3>2, <3>4, <3>5
    <2>2. CASE i \in (Len(org) + 1) .. (Len(org) + d)
        <3>1. org2[i] = cur + (i - Len(org)) /\ out2[i] = lines[cur + (i - Len(org))]
            BY <1>3, <1>4, <1>5, <2>2, Zenon
        <3>2. cur + (i - Len(org)) \in (1 .. n) \ rem
            BY <1>0, <1>5, <2>2, SMT
        <3>3. ASSUME NEW j \in 1 .. (i - 1) PROVE org2[j] < org2[i]
            <4>1. CASE j \in 1 .. Len(org)
                <5>1. org2[j] = org[j] /\ org[j] \in Nat /\ org[j] <= cur
                    BY <1>4, <1>6, <4>1
                <5> QED
                    BY <2>2, <3>1, <5>1, SMT
            <4>2. CASE j \in (Len(org) + 1) .. (Len(org) + d)
                <5>1. org2[j] = cur + (j - Len(org))
                    BY <1>4, <4>2, Zenon
                <5> QED
                    BY <2>2, <3>1, <3>3, <5>1, SMT
            <4> QED
                BY <2>2, <3>3, <4>1, <4>2, SMT
        <3> QED
            BY <3>1, <3>2, <3>3
    <2> QED
        BY <1>4, <2>1, <2>2, SMT
<1>8. ASSUME NEW m \in (1 .. n) \ rem PROVE \E i \in 1 .. Len(org2) : org2[i] = m
    <2>1. CASE m \in 1 .. cur
        <3>1. PICK i \in 1 .. Len(org) : org[i] = m
            BY <2>1, <1>8, Zenon DEF Accounted
        <3>2. i \in 1 .. Len(org2)
            BY <1>4, SMT
        <3> QED
            BY <3>1, <3>2, <1>4
    <2>2. CASE m \in (cur + 1) .. n
        <3>1. PICK i \in (Len(org) + 1) .. (Len(org) + d) : m = cur + (i - Len(org))
            <4>1. Len(org) + (m - cur) \in (Len(org) + 1) .. (Len(org) + d)
                  /\ m = cur + ((Len(org) + (m - cur)) - Len(org))
                BY <1>0, <2>2, SMT
            <4> QED
                BY <4>1
        <3>2. org2[i] = m
            BY <1>4, <3>1, Zenon
        <3>3. i \in 1 .. Len(org2)
            BY <1>4, SMT
        <3> QED
            BY <3>2, <3>3
    <2> QED
        BY <2>1, <2>2, <1>8, SMT
<1>9. Accounted(lines, n, out2, org2, rem)
    BY <1>5, <1>7, <1>8, Zenon DEF Accounted
<1> QED
    BY <1>1, <1>2, <1>9 DEF out2, org2, more, from

\* A line of the patch is put in.
LEMMA AddAccounted ==
    ASSUME NEW lines \in Seq(Line), NEW cur \in Nat, NEW out \in Seq(Line),
           NEW org \in Seq(Nat), NEW rem, Accounted(lines, cur, out, org, rem),
           NEW content \in Line
    PROVE  Accounted(lines, cur, Append(out, content), Append(org, 0), rem)
BY SMT DEF Accounted

\* The next line is kept.
LEMMA KeepAccounted ==
    ASSUME NEW lines \in Seq(Line), NEW cur \in Nat, NEW out \in Seq(Line),
           NEW org \in Seq(Nat), NEW rem, Accounted(lines, cur, out, org, rem),
           cur < Len(lines)
    PROVE  Accounted(lines, cur + 1, Append(out, lines[cur + 1]),
                     Append(org, cur + 1), rem)
<1> DEFINE out2 == Append(out, lines[cur + 1])
           org2 == Append(org, cur + 1)
<1>1. /\ Len(org2) = Len(org) + 1 /\ Len(out2) = Len(out) + 1
      /\ org2[Len(org) + 1] = cur + 1 /\ out2[Len(out) + 1] = lines[cur + 1]
      /\ \A i \in 1 .. Len(org) : org2[i] = org[i]
      /\ \A i \in 1 .. Len(out) : out2[i] = out[i]
    BY ElementOfSeq, SMT
<1>2. Len(org) = Len(out)
    BY DEF Accounted
<1> HIDE DEF out2, org2
<1>3. ASSUME NEW i \in 1 .. Len(org2), org2[i] # 0
      PROVE  /\ org2[i] \in (1 .. cur + 1) \ rem
             /\ out2[i] = lines[org2[i]]
             /\ \A j \in 1 .. (i - 1) : org2[j] < org2[i]
    <2>1. CASE i \in 1 .. Len(org)
        <3>1. /\ org[i] \in (1 .. cur) \ rem
              /\ out[i] = lines[org[i]]
              /\ \A j \in 1 .. (i - 1) : org[j] < org[i]
            BY <1>1, <1>3, <2>1, Zenon DEF Accounted
        <3>2. \A j \in 1 .. (i - 1) : org2[j] = org[j]
            BY <1>1, <2>1, SMT
        <3>3. org2[i] = org[i] /\ out2[i] = out[i]
            BY <1>1, <1>2, <2>1
        <3>4. org[i] \in (1 .. cur + 1) \ rem
            BY <3>1, SMT
        <3> QED
            BY <3>1, <3>2, <3>3, <3>4
    <2>2. CASE i = Len(org) + 1
        <3>1. org2[i] = cur + 1 /\ out2[i] = lines[cur + 1]
            BY <1>1, <1>2, <2>2
        <3>2. cur + 1 \in (1 .. cur + 1) \ rem
            BY SMT DEF Accounted
        <3>3. ASSUME NEW j \in 1 .. (i - 1) PROVE org2[j] < cur + 1
            <4>1. j \in 1 .. Len(org)
                BY <2>2, <3>3, SMT
            <4>2. org2[j] = org[j] /\ org[j] \in Nat
                BY <1>1, <4>1, ElementOfSeq
            <4>3. org[j] # 0 => org[j] \in 1 .. cur
                BY <4>1, Zenon DEF Accounted
            <4> QED
                BY <4>2, <4>3, SMT
        <3> QED
            BY <3>1, <3>2, <3>3
    <2> QED
        BY <1>1, <2>1, <2>2, SMT
<1>4. ASSUME NEW m \in (1 .. cur + 1) \ rem
      PROVE  \E i \in 1 .. Len(org2) : org2[i] = m
    <2>1. CASE m \in 1 .. cur
        <3>1. PICK i \in 1 .. Len(org) : org[i] = m
            BY <2>1, <1>4, Zenon DEF Accounted
        <3> QED
            BY <3>1, <1>1, SMT
    <2>2. CASE m = cur + 1
        BY <2>2, <1>1, SMT
    <2> QED
        BY <2>1, <2>2, <1>4, SMT
<1>5. cur + 1 <= Len(lines) /\ rem \subseteq 1 .. cur + 1
    BY SMT DEF Accounted
<1>6. Accounted(lines, cur + 1, out2, org2, rem)
    BY <1>1, <1>2, <1>3, <1>4, <1>5, Zenon DEF Accounted
<1> QED
    BY <1>6 DEF out2, org2

\* The next line is dropped.
LEMMA DropAccounted ==
    ASSUME NEW lines \in Seq(Line), NEW cur \in Nat, NEW out \in Seq(Line),
           NEW org \in Seq(Nat), NEW rem, Accounted(lines, cur, out, org, rem),
           cur < Len(lines)
    PROVE  Accounted(lines, cur + 1, out, org, rem \cup {cur + 1})
BY SMT DEF Accounted

-----------------------------------------------------------------------------
LEMMA Typed ==
    ASSUME PatchTypeOK
    PROVE  /\ source.lines \in Seq(Line) /\ patch.hunks \in Seq(Hunk)
           /\ \A i \in 1 .. Len(patch.hunks) :
                 /\ patch.hunks[i] \in Hunk
                 /\ Start(patch.hunks[i]) \in Int
                 /\ patch.hunks[i].lines \in Seq(HunkLine)
<1>1. source.lines \in Seq(Line) /\ patch.hunks \in Seq(Hunk)
    BY DEF PatchTypeOK, File, FilePatch
<1>2. ASSUME NEW i \in 1 .. Len(patch.hunks)
      PROVE  /\ patch.hunks[i] \in Hunk
             /\ Start(patch.hunks[i]) \in Int
             /\ patch.hunks[i].lines \in Seq(HunkLine)
    <2>1. patch.hunks[i] \in Hunk
        BY <1>1, SMT
    <2> QED
        BY <2>1, SMT DEF Hunk, Start
<1> QED
    BY <1>1, <1>2

LEMMA CopyIInv ==
    ASSUME IInv, OpenHunk \/ Finish
    PROVE  IInv'
<1> DEFINE n == IF OpenHunk THEN Start(Current) ELSE Len(source.lines)
<1>1. source.lines \in Seq(Line) /\ cursor \in Nat /\ output \in Seq(Line)
      /\ origin \in Seq(Nat) /\ UNCHANGED <<source, patch, removed>>
    BY Typed DEF IInv, PatchTypeOK, OpenHunk, Finish
<1>2. n \in Nat /\ cursor <= n /\ n <= Len(source.lines)
    <2>1. CASE OpenHunk
        <3>1. hunk \in 1 .. Len(patch.hunks)
            BY <2>1, SMT DEF OpenHunk, IInv, Placed, PatchTypeOK
        <3>2. Start(Current) \in Int
            BY <3>1, Typed DEF IInv, Current
        <3> QED
            BY <1>1, <2>1, <3>2, SMT DEF OpenHunk, Reachable
    <2>2. CASE ~OpenHunk
        BY <1>1, <2>2, SMT DEF IInv, Accounted
    <2> QED
        BY <2>1, <2>2
<1>3. /\ output' = output \o SubSeq(source.lines, cursor + 1, n)
      /\ origin' = origin \o [i \in 1 .. (n - cursor) |-> cursor + i]
      /\ cursor' = n
    <2>1. CASE OpenHunk
        BY <2>1 DEF OpenHunk, Between, Copied
    <2>2. CASE ~OpenHunk /\ Finish
        BY <2>2 DEF Finish, Rest, Copied
    <2> QED
        BY <2>1, <2>2
<1> HIDE DEF n
<1>4. /\ SubSeq(source.lines, cursor + 1, n) \in Seq(Line)
      /\ [i \in 1 .. (n - cursor) |-> cursor + i] \in Seq(Nat)
      /\ Accounted(source.lines, n, output \o SubSeq(source.lines, cursor + 1, n),
                   origin \o [i \in 1 .. (n - cursor) |-> cursor + i], removed)
    BY <1>1, <1>2, CopyAccounted, Zenon DEF IInv
<1>5. Accounted(source.lines, cursor, output, origin, removed)'
    BY <1>1, <1>3, <1>4
<1>6. output' \in Seq(Line) /\ origin' \in Seq(Nat) /\ cursor' \in Nat
    BY <1>1, <1>2, <1>3, <1>4, SMT
<1>7. hunk' = hunk /\ line' \in Nat /\ line' >= 1
      /\ status' \in {"lines", "done", "refused"}
      /\ (status' = "lines" => hunk <= Len(patch.hunks))
    BY SMT DEF OpenHunk, Finish, IInv, Placed, PatchTypeOK
<1>8. PatchTypeOK'
    BY <1>1, <1>6, <1>7 DEF IInv, PatchTypeOK
<1>9. Placed'
    BY <1>1, <1>7 DEF IInv, Placed
<1> QED
    BY <1>5, <1>8, <1>9 DEF IInv

LEMMA AppendTyped ==
    ASSUME NEW out \in Seq(Line), NEW org \in Seq(Nat), NEW content \in Line,
           NEW n \in Nat
    PROVE  /\ Append(out, content) \in Seq(Line)
           /\ Append(org, n + 1) \in Seq(Nat) /\ n + 1 \in Nat
BY SMT

LEMMA LineIInv ==
    ASSUME IInv, AddLine \/ KeepLine \/ DropLine
    PROVE  IInv'
<1>1. source.lines \in Seq(Line) /\ cursor \in Nat /\ output \in Seq(Line)
      /\ origin \in Seq(Nat) /\ removed \subseteq Nat
      /\ UNCHANGED <<status, source, patch, hunk>>
    BY Typed DEF IInv, PatchTypeOK, AddLine, KeepLine, DropLine
<1>2. status = "lines" /\ line' = line + 1 /\ line <= Len(Current.lines)
    BY DEF AddLine, KeepLine, DropLine, Reading
<1>3. Current.lines[line].content \in Line
    <2>1. hunk \in 1 .. Len(patch.hunks) /\ line \in Nat /\ line >= 1
        BY <1>2, SMT DEF IInv, Placed, PatchTypeOK
    <2>2. Current.lines \in Seq(HunkLine)
        BY <2>1, Typed DEF IInv, Current
    <2>3. Current.lines[line] \in HunkLine
        BY <1>2, <2>1, <2>2, SMT
    <2> QED
        BY <2>3 DEF HunkLine
<1>4. Placed'
    BY <1>1, <1>2, SMT DEF IInv, Placed, PatchTypeOK
<1>5. CASE AddLine
    <2>1. Accounted(source.lines, cursor, output, origin, removed)'
        BY <1>1, <1>3, <1>5, AddAccounted DEF AddLine, IInv
    <2>2. output' \in Seq(Line) /\ origin' \in Seq(Nat)
        BY <1>1, <1>3, <1>5, SMT DEF AddLine
    <2>3. PatchTypeOK'
        BY <1>1, <1>2, <1>5, <2>2, SMT DEF AddLine, IInv, PatchTypeOK
    <2> QED
        BY <1>4, <2>1, <2>3 DEF IInv
<1>6. CASE KeepLine
    <2>1. cursor < Len(source.lines)
          /\ Current.lines[line].content = source.lines[cursor + 1]
        BY <1>6 DEF KeepLine, Matches
    <2>2. Accounted(source.lines, cursor, output, origin, removed)'
        BY <1>1, <1>6, <2>1, KeepAccounted DEF KeepLine, IInv
    <2>3. output' \in Seq(Line) /\ origin' \in Seq(Nat) /\ cursor' \in Nat
        BY <1>1, <1>3, <1>6, AppendTyped DEF KeepLine
    <2>4. PatchTypeOK'
        <3>1. line' \in Nat
            BY <1>2, SMT DEF IInv, PatchTypeOK
        <3>2. UNCHANGED <<status, source, patch, hunk, removed>>
            BY <1>6 DEF KeepLine
        <3> QED
            BY <2>3, <3>1, <3>2 DEF IInv, PatchTypeOK
    <2> QED
        BY <1>4, <2>2, <2>4 DEF IInv
<1>7. CASE DropLine
    <2>1. cursor < Len(source.lines)
        BY <1>7 DEF DropLine, Matches
    <2>2. Accounted(source.lines, cursor, output, origin, removed)'
        BY <1>1, <1>7, <2>1, DropAccounted DEF DropLine, IInv
    <2>3. PatchTypeOK'
        BY <1>1, <1>2, <1>7, SMT DEF DropLine, IInv, PatchTypeOK
    <2> QED
        BY <1>4, <2>2, <2>3 DEF IInv
<1> QED
    BY <1>5, <1>6, <1>7

LEMMA EndIInv ==
    ASSUME IInv, RefuseHunk \/ RefuseLine \/ CloseHunk \/ UNCHANGED patchVars
    PROVE  IInv'
<1>1. UNCHANGED <<source, patch, line, cursor, output, origin, removed>>
    BY DEF RefuseHunk, RefuseLine, CloseHunk, patchVars
<1>2. hunk' \in {hunk, hunk + 1} /\ status' \in {status, "refused", "hunks"}
      /\ (status' = "lines" => hunk' = hunk /\ status = "lines")
    BY DEF RefuseHunk, RefuseLine, CloseHunk, Reading, patchVars
<1>3. PatchTypeOK'
    BY <1>1, <1>2, SMT DEF IInv, PatchTypeOK
<1>4. Placed'
    BY <1>1, <1>2, SMT DEF IInv, Placed, PatchTypeOK
<1> QED
    BY <1>1, <1>3, <1>4 DEF IInv

LEMMA NextIInv == IInv /\ [PatchNext]_patchVars => IInv'
BY BeginIInv, CopyIInv, LineIInv, EndIInv DEF PatchNext, ApplyStep

LEMMA Invariance == PatchSpec => []IInv
BY InitIInv, NextIInv, PTL DEF PatchSpec

-----------------------------------------------------------------------------

\* The application of a patch stays within its types.
THEOREM PatchTypeCorrect == PatchSpec => []PatchTypeOK
<1>1. IInv => PatchTypeOK
    BY DEF IInv
<1> QED
    BY <1>1, Invariance, PTL

\* For every file and every patch, fitting or not, no line of the file is
\* lost, repeated, reordered or revived while the patch is applied.
THEOREM NoLineIsLost == PatchSpec => []EveryLineAccounted
<1>1. IInv => EveryLineAccounted
    BY Zenon DEF IInv, Accounted, EveryLineAccounted
<1> QED
    BY <1>1, Invariance, PTL

-----------------------------------------------------------------------------
(* Induction and recursion.                                                *)

LEMMA Least ==
    ASSUME NEW T, T \subseteq Nat, T # {}
    PROVE  \E x \in T : \A y \in T : x <= y
<1> DEFINE R == {ss \in Nat \X Nat : ss[1] < ss[2]}
<1>1. IsWellFoundedOn(R, Nat)
    BY NatLessThanWellFounded DEF OpToRel
<1> HIDE DEF R
<1>2. PICK x \in T : \A y \in T : ~ (<<y, x>> \in R)
    BY <1>1, WFMin
<1>3. ASSUME NEW y \in T PROVE x <= y
    <2>1. y \in Nat /\ x \in Nat /\ <<y, x>> \in Nat \X Nat
        OBVIOUS
    <2>2. y < x => <<y, x>> \in R
        BY <2>1 DEF R
    <2> QED
        BY <2>1, <2>2, <1>2
<1> QED
    BY <1>3

\* induction, on a set
LEMMA Induction ==
    ASSUME NEW n \in Nat, NEW T, 0 \in T,
           \A i \in 0 .. (n - 1) : i \in T => i + 1 \in T
    PROVE  0 .. n \subseteq T
<1>1. SUFFICES ASSUME (0 .. n) \ T # {} PROVE FALSE
    OBVIOUS
<1> DEFINE U == (0 .. n) \ T
<1>2. U \subseteq Nat /\ U # {}
    BY <1>1
<1> HIDE DEF U
<1>3. PICK x \in U : \A y \in U : x <= y
    BY <1>2, Least
<1>4. x # 0 /\ x - 1 \in 0 .. (n - 1) /\ x - 1 \in Int /\ ~(x <= x - 1)
    BY <1>3 DEF U
<1>5. x - 1 \in T
    BY <1>3, <1>4 DEF U
<1>6. (x - 1) + 1 = x
    BY <1>3 DEF U
<1> QED
    BY <1>3, <1>4, <1>5, <1>6 DEF U


\* There is a function on 0 .. k that starts with a and goes on by the step F.
Recursive(k, S, a, F) ==
    \E g \in [0 .. k -> S] : /\ g[0] = a
                            /\ \A n \in 1 .. k : g[n] = F[<<n, g[n - 1]>>]

\* A recursion that never leaves a set S defines a function.
LEMMA Recursion ==
    ASSUME NEW k \in Nat, NEW S, NEW a \in S, NEW F \in [(1 .. k) \X S -> S]
    PROVE  Recursive(k, S, a, F)
<1> DEFINE Is(g, m) == /\ g[0] = a
                       /\ \A n \in 1 .. m : g[n] = F[<<n, g[n - 1]>>]
           T == {m \in 0 .. k : \E g \in [0 .. m -> S] : Is(g, m)}
<1>1. 0 \in T
    <2> DEFINE g == [n \in 0 .. 0 |-> a]
    <2>1. g \in [0 .. 0 -> S] /\ g[0] = a
        OBVIOUS
    <2> HIDE DEF g
    <2>2. \E f \in [0 .. 0 -> S] : Is(f, 0)
        BY <2>1
    <2> HIDE DEF Is
    <2> QED
        BY <2>2
<1>2. ASSUME NEW m \in 0 .. (k - 1), m \in T PROVE m + 1 \in T
    <2>1. PICK g \in [0 .. m -> S] : Is(g, m)
        BY <1>2
    <2>2. m \in 0 .. m /\ m + 1 \in 1 .. k /\ g[m] \in S
        BY <2>1
    <2> DEFINE v == F[<<m + 1, g[m]>>]
               f == [n \in 0 .. m + 1 |-> IF n <= m THEN g[n] ELSE v]
    <2>3. v \in S
        BY <2>2
    <2> HIDE DEF v
    <2>4. f \in [0 .. m + 1 -> S]
        BY <2>1, <2>3
    <2>5. f[0] = a
        <3>1. 0 \in 0 .. m + 1 /\ 0 <= m
            OBVIOUS
        <3> QED
            BY <2>1, <3>1
    <2>6. ASSUME NEW n \in 1 .. m + 1 PROVE f[n] = F[<<n, f[n - 1]>>]
        <3>1. CASE n \in 1 .. m
            <4>1. n - 1 \in 0 .. m + 1 /\ n - 1 <= m /\ n <= m /\ n \in 0 .. m + 1
                BY <3>1
            <4>2. f[n] = g[n] /\ f[n - 1] = g[n - 1]
                BY <4>1
            <4> HIDE DEF f
            <4> QED
                BY <2>1, <3>1, <4>2
        <3>2. CASE n = m + 1
            <4>1. n - 1 = m /\ ~(n <= m) /\ m \in 0 .. m + 1 /\ n \in 0 .. m + 1
                BY <3>2
            <4>2. f[n] = v /\ f[m] = g[m]
                BY <3>2, <4>1
            <4> HIDE DEF f
            <4> QED
                BY <3>2, <4>1, <4>2 DEF v
        <3> QED
            BY <3>1, <3>2
    <2>7. m + 1 \in 0 .. k
        OBVIOUS
    <2> HIDE DEF f
    <2>8. \E g2 \in [0 .. m + 1 -> S] : Is(g2, m + 1)
        BY <2>4, <2>5, <2>6
    <2> HIDE DEF Is
    <2> QED
        BY <2>7, <2>8
<1>3. k \in T
    <2> HIDE DEF T
    <2> QED
        BY <1>1, <1>2, Induction
<1>4. PICK g \in [0 .. k -> S] : Is(g, k)
    BY <1>3
<1> QED
    BY <1>4 DEF Recursive

\* What a recursion starts with and every step of it keeps holds of it all.
LEMMA Stays ==
    ASSUME NEW k \in Nat, NEW S, NEW f, f[0] \in S,
           \A n \in 1 .. k : f[n - 1] \in S => f[n] \in S
    PROVE  \A n \in 0 .. k : f[n] \in S
<1> DEFINE T == {n \in 0 .. k : f[n] \in S}
<1>1. 0 \in T
    OBVIOUS
<1>2. ASSUME NEW n \in 0 .. (k - 1), n \in T PROVE n + 1 \in T
    <2>1. n + 1 \in 1 .. k /\ (n + 1) - 1 = n
        OBVIOUS
    <2> QED
        BY <1>2, <2>1
<1>3. 0 .. k \subseteq T
    <2> HIDE DEF T
    <2> QED
        BY <1>1, <1>2, Induction
<1> QED
    BY <1>3

-----------------------------------------------------------------------------
(* What a patch means.                                                     *)

LEMMA HunkTyped ==
    ASSUME NEW h \in Hunk
    PROVE  /\ Start(h) \in Int /\ NewStart(h) \in Int
           /\ h.lines \in Seq(HunkLine) /\ Len(h.lines) \in Nat
           /\ \A n \in 1 .. Len(h.lines) : h.lines[n].content \in Line
<1>1. h.lines \in Seq(HunkLine) /\ h.oldStart \in Nat /\ h.newStart \in Nat
    BY DEF Hunk
<1>2. \A n \in 1 .. Len(h.lines) : h.lines[n] \in HunkLine
    BY <1>1
<1>3. \A n \in 1 .. Len(h.lines) : h.lines[n].content \in Line
    BY <1>2 DEF HunkLine
<1>4. Start(h) \in Int /\ NewStart(h) \in Int
    BY <1>1 DEF Start, NewStart
<1> QED
    BY <1>1, <1>3, <1>4

LEMMA LinesTyped ==
    ASSUME NEW lines \in Seq(HunkLine)
    PROVE  /\ Len(lines) \in Nat
           /\ \A n \in 1 .. Len(lines) : lines[n] \in HunkLine /\ lines[n].content \in Line
<1>1. Len(lines) \in Nat /\ \A n \in 1 .. Len(lines) : lines[n] \in HunkLine
    OBVIOUS
<1> QED
    BY <1>1 DEF HunkLine

\* What the recursion of LinesTo goes through.
Collected(to, lines, ops) ==
    /\ to[0] = <<>>
    /\ \A n \in 1 .. Len(lines) :
          to[n] = IF lines[n].operation \in ops
                  THEN Append(to[n - 1], lines[n].content) ELSE to[n - 1]
    /\ \A n \in 0 .. Len(lines) : to[n] \in Seq(Line)

LEMMA LinesToIs ==
    ASSUME NEW lines \in Seq(HunkLine), NEW ops
    PROVE  Collected(LinesTo(lines, ops), lines, ops)
<1> DEFINE L == Len(lines)
           Next1(s, n) == IF lines[n].operation \in ops THEN Append(s, lines[n].content)
                          ELSE s
           Is(g) == g = [n \in 0 .. L |-> IF n = 0 THEN <<>> ELSE Next1(g[n - 1], n)]
           F == [p \in (1 .. L) \X Seq(Line) |-> Next1(p[2], p[1])]
           to == LinesTo(lines, ops)
<1>1. to = CHOOSE g : Is(g)
    BY Zenon DEF LinesTo
<1>2. L \in Nat /\ \A n \in 1 .. L : lines[n].content \in Line
    BY LinesTyped
<1>3. ASSUME NEW n \in 1 .. L, NEW s \in Seq(Line) PROVE Next1(s, n) \in Seq(Line)
    BY <1>2, <1>3
<1> HIDE DEF L, Next1
<1>4. <<>> \in Seq(Line) /\ F \in [(1 .. L) \X Seq(Line) -> Seq(Line)]
    BY <1>3
<1>5. PICK g \in [0 .. L -> Seq(Line)] :
          /\ g[0] = <<>>
          /\ \A n \in 1 .. L : g[n] = F[<<n, g[n - 1]>>]
    <2> HIDE DEF F
    <2>1. Recursive(L, Seq(Line), <<>>, F)
        BY <1>2, <1>4, Recursion
    <2> QED
        BY <2>1 DEF Recursive
<1>6. Is(g)
    <2>1. ASSUME NEW n \in 1 .. L PROVE F[<<n, g[n - 1]>>] = Next1(g[n - 1], n)
        <3>1. n - 1 \in 0 .. L
            BY <1>2
        <3>2. g[n - 1] \in Seq(Line)
            BY <3>1
        <3> QED
            BY <3>2
    <2>2. \A n \in 0 .. L : n = 0 \/ n \in 1 .. L
        BY <1>2
    <2>3. \A n \in 0 .. L : g[n] = IF n = 0 THEN <<>> ELSE Next1(g[n - 1], n)
        <3> HIDE DEF F
        <3> QED
            BY <1>5, <2>1, <2>2
    <2>4. DOMAIN g = 0 .. L /\ g = [n \in DOMAIN g |-> g[n]]
        BY <1>5
    <2> QED
        BY <2>3, <2>4
<1>7. Is(to)
    BY <1>1, <1>6
<1>8. /\ to[0] = <<>>
      /\ \A n \in 1 .. L : to[n] = Next1(to[n - 1], n)
    <2>1. 0 \in 0 .. L /\ \A n \in 1 .. L : n \in 0 .. L /\ n # 0
        BY <1>2
    <2> HIDE DEF to
    <2> QED
        BY <1>7, <2>1
<1>9. \A n \in 0 .. L : to[n] \in Seq(Line)
    <2> HIDE DEF to
    <2>1. /\ to[0] \in Seq(Line)
          /\ \A n \in 1 .. L : to[n - 1] \in Seq(Line) => to[n] \in Seq(Line)
        BY <1>3, <1>4, <1>8
    <2> QED
        BY <1>2, <2>1, Stays
<1> QED
    BY <1>8, <1>9, Zenon DEF L, Next1, Collected

LEMMA LinesOfTyped ==
    ASSUME NEW lines \in Seq(HunkLine), NEW ops
    PROVE  LinesOf(lines, ops) \in Seq(Line) /\ Len(LinesOf(lines, ops)) \in Nat
<1>1. Len(lines) \in 0 .. Len(lines)
    BY LinesTyped
<1>2. LinesOf(lines, ops) \in Seq(Line)
    BY <1>1, LinesToIs DEF LinesOf, Collected
<1> QED
    BY <1>2, LenProperties

LEMMA OldTyped ==
    ASSUME NEW h \in Hunk
    PROVE  /\ Old(h) \in Seq(Line) /\ Len(Old(h)) \in Nat
           /\ New(h) \in Seq(Line) /\ Len(New(h)) \in Nat
<1>1. h.lines \in Seq(HunkLine)
    BY HunkTyped
<1> QED
    BY <1>1, LinesOfTyped DEF Old, New

BeginsWith(text, start) ==
    /\ Len(start) <= Len(text)
    /\ \A j \in 1 .. Len(start) : text[j] = start[j]

\* What was found of a hunk before a line is a beginning of all of it.
LEMMA LinesToGrow ==
    ASSUME NEW lines \in Seq(HunkLine), NEW ops, NEW m \in 0 .. Len(lines),
           NEW n \in m .. Len(lines)
    PROVE  BeginsWith(LinesTo(lines, ops)[n], LinesTo(lines, ops)[m])
<1> DEFINE L == Len(lines)
           to == LinesTo(lines, ops)
           Begins(i) == /\ Len(to[m]) <= Len(to[m + i])
                        /\ \A j \in 1 .. Len(to[m]) : to[m + i][j] = to[m][j]
           T == {i \in 0 .. (L - m) : Begins(i)}
<1>1. L \in Nat /\ m \in Nat /\ m <= L
    BY LinesTyped
<1>2. /\ \A i \in 1 .. L : to[i] = IF lines[i].operation \in ops
                         THEN Append(to[i - 1], lines[i].content) ELSE to[i - 1]
      /\ \A i \in 0 .. L : to[i] \in Seq(Line)
      /\ \A i \in 1 .. L : lines[i].content \in Line
    BY LinesToIs, LinesTyped DEF Collected
<1> HIDE DEF to, L
<1>3. 0 \in T
    <2>1. Len(to[m]) \in Nat
        BY <1>1, <1>2
    <2> QED
        BY <1>1, <2>1
<1>4. ASSUME NEW i \in 0 .. ((L - m) - 1), i \in T PROVE i + 1 \in T
    <2>1. m + i \in 0 .. L /\ m + (i + 1) \in 1 .. L /\ (m + (i + 1)) - 1 = m + i
          /\ i + 1 \in 0 .. (L - m)
        BY <1>1
    <2>2. to[m + i] \in Seq(Line) /\ lines[m + (i + 1)].content \in Line
          /\ to[m] \in Seq(Line) /\ Begins(i)
        BY <1>1, <1>2, <1>4, <2>1
    <2>3. \/ to[m + (i + 1)] = to[m + i]
          \/ to[m + (i + 1)] = Append(to[m + i], lines[m + (i + 1)].content)
        BY <1>2, <2>1
    <2>4. /\ Len(to[m + i]) <= Len(to[m + (i + 1)])
          /\ \A j \in 1 .. Len(to[m + i]) : to[m + (i + 1)][j] = to[m + i][j]
        <3>1. CASE to[m + (i + 1)] = to[m + i]
            BY <2>2, <3>1
        <3> DEFINE s == to[m + i]
                   e == lines[m + (i + 1)].content
        <3>2. CASE to[m + (i + 1)] = Append(s, e)
            <4>1. /\ Len(Append(s, e)) = Len(s) + 1 /\ Len(s) \in Nat
                  /\ \A j \in 1 .. Len(s) : Append(s, e)[j] = s[j]
                BY <2>2, AppendProperties
            <4> HIDE DEF s, e
            <4>2. Len(s) <= Len(to[m + (i + 1)])
                BY <3>2, <4>1
            <4> QED
                BY <3>2, <4>1, <4>2 DEF s
        <3> QED
            BY <2>3, <3>1, <3>2
    <2>5. Len(to[m]) \in Nat /\ Len(to[m + i]) \in Nat /\ Len(to[m + (i + 1)]) \in Nat
        BY <1>2, <2>1, <2>2
    <2>6. Begins(i + 1)
        <3>1. /\ Len(to[m]) <= Len(to[m + i])
              /\ \A j \in 1 .. Len(to[m]) : to[m + i][j] = to[m][j]
            BY <2>2
        <3>2. \A j \in 1 .. Len(to[m]) : j \in 1 .. Len(to[m + i])
            BY <2>5, <3>1
        <3>3. Len(to[m]) <= Len(to[m + (i + 1)])
            BY <2>4, <2>5, <3>1
        <3> QED
            BY <2>4, <3>1, <3>2, <3>3
    <2> QED
        BY <2>1, <2>6
<1>5. n - m \in T
    <2>1. n - m \in 0 .. (L - m) /\ L - m \in Nat
        BY <1>1 DEF L
    <2> HIDE DEF T
    <2> QED
        BY <1>3, <1>4, <2>1, Induction
<1>6. m + (n - m) = n
    BY <1>1
<1> QED
    BY <1>5, <1>6 DEF to, L, BeginsWith

Grown(growth, hunks) ==
    /\ growth[0] = 0
    /\ \A n \in 1 .. Len(hunks) :
          growth[n] = growth[n - 1] + Len(New(hunks[n])) - Len(Old(hunks[n]))
    /\ \A n \in 0 .. Len(hunks) : growth[n] \in Int

LEMMA GrowthIs ==
    ASSUME NEW hunks \in Seq(Hunk)
    PROVE  Grown(Growth(hunks), hunks)
<1> DEFINE L == Len(hunks)
           Next1(s, n) == s + Len(New(hunks[n])) - Len(Old(hunks[n]))
           Is(g) == g = [n \in 0 .. L |-> IF n = 0 THEN 0 ELSE Next1(g[n - 1], n)]
           F == [p \in (1 .. L) \X Int |-> Next1(p[2], p[1])]
           gr == Growth(hunks)
<1>1. gr = CHOOSE g : Is(g)
    BY Zenon DEF Growth
<1>2. L \in Nat /\ \A n \in 1 .. L : hunks[n] \in Hunk
    BY ElementOfSeq
<1>3. ASSUME NEW n \in 1 .. L, NEW s \in Int PROVE Next1(s, n) \in Int
    BY <1>2, <1>3, OldTyped
<1> HIDE DEF L, Next1
<1>4. F \in [(1 .. L) \X Int -> Int]
    BY <1>3
<1>5. PICK g \in [0 .. L -> Int] :
          /\ g[0] = 0
          /\ \A n \in 1 .. L : g[n] = F[<<n, g[n - 1]>>]
    <2> HIDE DEF F
    <2>1. 0 \in Int
        OBVIOUS
    <2>2. Recursive(L, Int, 0, F)
        BY <1>2, <1>4, <2>1, Recursion
    <2> QED
        BY <2>2 DEF Recursive
<1>6. Is(g)
    <2>1. ASSUME NEW n \in 1 .. L PROVE F[<<n, g[n - 1]>>] = Next1(g[n - 1], n)
        <3>1. n - 1 \in 0 .. L
            BY <1>2
        <3>2. g[n - 1] \in Int
            BY <3>1
        <3> QED
            BY <3>2
    <2>2. \A n \in 0 .. L : n = 0 \/ n \in 1 .. L
        BY <1>2
    <2>3. \A n \in 0 .. L : g[n] = IF n = 0 THEN 0 ELSE Next1(g[n - 1], n)
        <3> HIDE DEF F
        <3> QED
            BY <1>5, <2>1, <2>2
    <2>4. DOMAIN g = 0 .. L /\ g = [n \in DOMAIN g |-> g[n]]
        BY <1>5
    <2> QED
        BY <2>3, <2>4
<1>7. Is(gr)
    BY <1>1, <1>6
<1>8. /\ gr[0] = 0
      /\ \A n \in 1 .. L : gr[n] = Next1(gr[n - 1], n)
    <2>1. 0 \in 0 .. L /\ \A n \in 1 .. L : n \in 0 .. L /\ n # 0
        BY <1>2
    <2> HIDE DEF gr
    <2> QED
        BY <1>7, <2>1
<1>9. \A n \in 0 .. L : gr[n] \in Int
    <2> HIDE DEF gr
    <2>1. gr[0] \in Int
        BY <1>8
    <2>2. ASSUME NEW n \in 1 .. L, gr[n - 1] \in Int PROVE gr[n] \in Int
        <3>1. Next1(gr[n - 1], n) \in Int
            BY <1>3, <2>2
        <3> QED
            BY <1>8, <3>1
    <2> QED
        BY <1>2, <2>1, <2>2, Stays
<1> QED
    BY <1>8, <1>9, Zenon DEF L, Next1, Grown

\* What the recursion of PatchedBy goes through.
Backwards(after, k, hunks, text) ==
    /\ PatchedBy(k, hunks, text) = after[k]
    /\ after[0] = text
    /\ \A n \in 1 .. k : after[n] = Replaced(hunks[k + 1 - n], after[n - 1])

LEMMA AfterIs ==
    ASSUME NEW k \in Nat, NEW hunks, NEW text
    PROVE  \E after : Backwards(after, k, hunks, text)
<1> DEFINE Step(s, n) == Replaced(hunks[k + 1 - n], s)
           Is(g, m) == g = [n \in 0 .. m |-> IF n = 0 THEN text ELSE Step(g[n - 1], n)]
           T == {m \in 0 .. k : \E g : Is(g, m)}
           after == CHOOSE g : Is(g, k)
<1>1. PatchedBy(k, hunks, text) = after[k]
    BY Zenon DEF PatchedBy
<1> HIDE DEF Step
<1>2. 0 \in T
    <2>1. Is([n \in 0 .. 0 |-> text], 0)
        OBVIOUS
    <2>2. \E g : Is(g, 0)
        BY <2>1
    <2> HIDE DEF Is
    <2> QED
        BY <2>2
<1>3. ASSUME NEW m \in 0 .. (k - 1), m \in T PROVE m + 1 \in T
    <2>1. PICK g : Is(g, m)
        BY <1>3
    <2> DEFINE f == [n \in 0 .. m + 1 |-> IF n <= m THEN g[n] ELSE Step(g[m], m + 1)]
    <2>2. ASSUME NEW n \in 0 .. m + 1
          PROVE  f[n] = IF n = 0 THEN text ELSE Step(f[n - 1], n)
        <3>1. CASE n = 0
            BY <2>1, <3>1
        <3>2. CASE n \in 1 .. m
            <4>1. n - 1 \in 0 .. m + 1 /\ n - 1 <= m /\ n <= m /\ n \in 0 .. m
                BY <3>2
            <4>2. f[n] = g[n] /\ f[n - 1] = g[n - 1]
                BY <4>1
            <4> HIDE DEF f
            <4> QED
                BY <2>1, <3>2, <4>1, <4>2
        <3>3. CASE n = m + 1
            <4>1. n - 1 = m /\ ~(n <= m) /\ m \in 0 .. m + 1 /\ n # 0
                BY <3>3
            <4>2. f[n] = Step(g[m], n) /\ f[m] = g[m]
                BY <3>3, <4>1
            <4> HIDE DEF f
            <4> QED
                BY <4>1, <4>2
        <3> QED
            BY <3>1, <3>2, <3>3
    <2>3. Is(f, m + 1)
        BY <2>2, Zenon
    <2>4. \E h : Is(h, m + 1)
        BY <2>3, Zenon
    <2>5. m + 1 \in 0 .. k
        OBVIOUS
    <2> HIDE DEF Is
    <2> QED
        BY <2>4, <2>5
<1>4. k \in T
    <2> HIDE DEF T
    <2> QED
        BY <1>2, <1>3, Induction
<1>5. Is(after, k)
    BY <1>4
<1>6. after[0] = text /\ \A n \in 1 .. k : after[n] = Step(after[n - 1], n)
    <2>1. 0 \in 0 .. k /\ \A n \in 1 .. k : n \in 0 .. k /\ n # 0
        OBVIOUS
    <2> HIDE DEF after
    <2> QED
        BY <1>5, <2>1
<1> QED
    BY <1>1, <1>6, Zenon DEF Step, Backwards

\* The last hunk is put in first.
LastFirst(k, hunks, text) ==
    /\ PatchedBy(0, hunks, text) = text
    /\ PatchedBy(k + 1, hunks, text) = PatchedBy(k, hunks, Replaced(hunks[k + 1], text))

LEMMA PatchedByStep ==
    ASSUME NEW k \in Nat, NEW hunks, NEW text
    PROVE  LastFirst(k, hunks, text)
<1> DEFINE Step(s, n) == Replaced(hunks[n], s)
<1>1. PatchedBy(0, hunks, text) = text
    <2>1. PICK after : Backwards(after, 0, hunks, text)
        BY AfterIs
    <2> QED
        BY <2>1 DEF Backwards
<1>2. k + 1 \in Nat
    OBVIOUS
<1>3. PICK after : /\ PatchedBy(k + 1, hunks, text) = after[k + 1]
                   /\ after[0] = text
                   /\ \A n \in 1 .. k + 1 : after[n] = Step(after[n - 1], k + 1 + 1 - n)
    <2>1. PICK after : Backwards(after, k + 1, hunks, text)
        BY <1>2, AfterIs
    <2> QED
        BY <2>1, Zenon DEF Backwards
<1>4. PICK less : /\ PatchedBy(k, hunks, Step(text, k + 1)) = less[k]
                  /\ less[0] = Step(text, k + 1)
                  /\ \A n \in 1 .. k : less[n] = Step(less[n - 1], k + 1 - n)
    <2>1. PICK less : Backwards(less, k, hunks, Step(text, k + 1))
        BY AfterIs
    <2> QED
        BY <2>1, Zenon DEF Backwards
<1> HIDE DEF Step
<1> DEFINE T == {n \in 0 .. k : after[n + 1] = less[n]}
<1>5. 0 \in T
    <2>1. /\ 0 + 1 \in 1 .. k + 1 /\ k + 1 + 1 - (0 + 1) = k + 1
          /\ (0 + 1) - 1 = 0 /\ 0 \in 0 .. k
        OBVIOUS
    <2>2. after[0 + 1] = Step(after[0], k + 1)
        BY <1>3, <2>1
    <2> QED
        BY <1>3, <1>4, <2>1, <2>2
<1>6. ASSUME NEW n \in 0 .. (k - 1), n \in T PROVE n + 1 \in T
    <2>1. /\ n + 1 \in 1 .. k /\ (n + 1) + 1 \in 1 .. k + 1 /\ n + 1 \in 0 .. k
          /\ k + 1 + 1 - ((n + 1) + 1) = k + 1 - (n + 1)
          /\ ((n + 1) + 1) - 1 = n + 1 /\ (n + 1) - 1 = n
        OBVIOUS
    <2>2. after[(n + 1) + 1] = Step(after[n + 1], k + 1 - (n + 1))
        BY <1>3, <2>1
    <2>3. less[n + 1] = Step(less[n], k + 1 - (n + 1))
        BY <1>4, <2>1
    <2>4. after[n + 1] = less[n]
        BY <1>6
    <2>5. after[(n + 1) + 1] = less[n + 1]
        BY <2>2, <2>3, <2>4
    <2> QED
        BY <2>1, <2>5
<1>7. k \in T
    <2> HIDE DEF T
    <2> QED
        BY <1>5, <1>6, Induction
<1>8. PatchedBy(k + 1, hunks, text) = PatchedBy(k, hunks, Step(text, k + 1))
    BY <1>3, <1>4, <1>7
<1> QED
    BY <1>1, <1>8, Zenon DEF Step, LastFirst

-----------------------------------------------------------------------------
(* Texts.                                                                  *)

\* The two texts begin with the same n lines.
Agree(text, other, n) ==
    /\ n <= Len(text) /\ n <= Len(other)
    /\ \A i \in 1 .. n : text[i] = other[i]

LEMMA Slice ==
    ASSUME NEW S, NEW text \in Seq(S), NEW m \in Nat, NEW n \in Nat, n <= Len(text), m <= n
    PROVE  LET slice == SubSeq(text, m + 1, n) IN
           /\ slice \in Seq(S) /\ Len(slice) = n - m
           /\ \A i \in 1 .. (n - m) : slice[i] = text[m + i]
<1>1. \A i \in m + 1 .. n : text[i] \in S
    BY ElementOfSeq, SMT
<1>2. /\ SubSeq(text, m + 1, n) \in Seq(S)
      /\ Len(SubSeq(text, m + 1, n)) = IF m + 1 <= n THEN n - (m + 1) + 1 ELSE 0
      /\ \A i \in 1 .. n - (m + 1) + 1 : SubSeq(text, m + 1, n)[i] = text[(m + 1) + i - 1]
    BY <1>1, SubSeqProperties
<1>3. \A i \in 1 .. (n - m) : i \in 1 .. n - (m + 1) + 1 /\ (m + 1) + i - 1 = m + i
    BY SMT
<1>4. Len(SubSeq(text, m + 1, n)) = n - m
    BY <1>2, SMT
<1> QED
    BY <1>2, <1>3, <1>4

LEMMA SameSlice ==
    ASSUME NEW text \in Seq(Line), NEW other \in Seq(Line), NEW n \in Nat,
           Agree(text, other, n), NEW m \in 0 .. n
    PROVE  SubSeq(text, m + 1, n) = SubSeq(other, m + 1, n)
<1> DEFINE a == SubSeq(text, m + 1, n)
           b == SubSeq(other, m + 1, n)
<1>1. /\ a \in Seq(Line) /\ Len(a) = n - m
      /\ \A i \in 1 .. (n - m) : a[i] = text[m + i]
    BY Slice DEF Agree
<1>2. /\ b \in Seq(Line) /\ Len(b) = n - m
      /\ \A i \in 1 .. (n - m) : b[i] = other[m + i]
    BY Slice DEF Agree
<1>3. \A i \in 1 .. (n - m) : m + i \in 1 .. n
    OBVIOUS
<1>4. \A i \in 1 .. (n - m) : a[i] = b[i]
    BY <1>1, <1>2, <1>3 DEF Agree
<1> HIDE DEF a, b
<1>5. a = b
    BY <1>1, <1>2, <1>4, SeqEqual
<1> QED
    BY <1>5 DEF a, b

LEMMA TailOfConcat ==
    ASSUME NEW S, NEW a \in Seq(S), NEW z \in Seq(S)
    PROVE  SubSeq(a \o z, Len(a) + 1, Len(a \o z)) = z
<1> DEFINE w == a \o z
           s == SubSeq(w, Len(a) + 1, Len(w))
<1>1. /\ w \in Seq(S) /\ Len(w) = Len(a) + Len(z) /\ Len(a) \in Nat /\ Len(z) \in Nat
      /\ \A i \in 1 .. Len(a) + Len(z) : w[i] = IF i <= Len(a) THEN a[i] ELSE z[i - Len(a)]
    BY ConcatProperties
<1> HIDE DEF w
<1>2. Len(w) \in Nat /\ Len(a) <= Len(w) /\ Len(w) - Len(a) = Len(z)
    BY <1>1
<1>3. /\ s \in Seq(S) /\ Len(s) = Len(z)
      /\ \A i \in 1 .. Len(z) : s[i] = w[Len(a) + i]
    BY <1>1, <1>2, Slice
<1>4. ASSUME NEW i \in 1 .. Len(z) PROVE w[Len(a) + i] = z[i]
    <2>1. /\ Len(a) + i \in 1 .. Len(a) + Len(z) /\ ~(Len(a) + i <= Len(a))
          /\ (Len(a) + i) - Len(a) = i
        BY <1>1
    <2> QED
        BY <1>1, <2>1
<1> HIDE DEF s
<1>5. s = z
    BY <1>3, <1>4, SeqEqual
<1> QED
    BY <1>5 DEF s, w

Regrouped(a, b, n, r) ==
    /\ (b \o n) \o r \in Seq(Line)
    /\ ((a \o b) \o n) \o r = a \o ((b \o n) \o r)

LEMMA Regroup ==
    ASSUME NEW a \in Seq(Line), NEW b \in Seq(Line), NEW n \in Seq(Line),
           NEW r \in Seq(Line)
    PROVE  Regrouped(a, b, n, r)
<1> DEFINE m == b \o n
<1>1. m \in Seq(Line)
    BY ConcatProperties
<1>2. (a \o b) \o n = a \o m
    BY ConcatAssociative
<1> HIDE DEF m
<1>3. (a \o m) \o r = a \o (m \o r) /\ m \o r \in Seq(Line)
    BY <1>1, ConcatAssociative, ConcatProperties
<1> QED
    BY <1>2, <1>3 DEF Regrouped, m

\* Replacing lines behind the first s leaves those as they are.
LEMMA ReplacedFrom ==
    ASSUME NEW text \in Seq(Line), NEW t \in Seq(Line), NEW h \in Hunk,
           NEW c \in Nat, c <= Start(h), Agree(t, text, Start(h)),
           Start(h) + Len(Old(h)) <= Len(t)
    PROVE  /\ Replaced(h, t) \in Seq(Line) /\ Agree(Replaced(h, t), text, c)
           /\ SubSeq(Replaced(h, t), c + 1, Len(Replaced(h, t))) =
                  (SubSeq(text, c + 1, Start(h)) \o New(h))
                      \o SubSeq(t, Start(h) + Len(Old(h)) + 1, Len(t))
<1> DEFINE s == Start(h)
           d == Len(Old(h))
           b == SubSeq(text, c + 1, s)
           a == SubSeq(text, 1, c)
           n == New(h)
           r == SubSeq(t, s + d + 1, Len(t))
           z == (b \o n) \o r
<1>1. s \in Nat /\ d \in Nat /\ n \in Seq(Line) /\ Len(t) \in Nat /\ Len(text) \in Nat
      /\ s + d \in Nat
    BY HunkTyped, OldTyped
<1>2. r \in Seq(Line)
    BY <1>1, Slice
<1>3. s <= Len(text) /\ s <= Len(t)
    BY DEF Agree
<1>4. b \in Seq(Line)
    BY <1>1, <1>3, Slice
<1>5. a \in Seq(Line) /\ Len(a) = c /\ \A i \in 1 .. c : a[i] = text[i]
    <2>1. c \in Nat /\ c <= Len(text) /\ 0 \in Nat /\ 0 <= c /\ 0 + 1 = 1 /\ c - 0 = c
          /\ \A i \in 1 .. c : 0 + i = i
        BY <1>1, <1>3
    <2>2. LET slice == SubSeq(text, 0 + 1, c) IN
           /\ slice \in Seq(Line) /\ Len(slice) = c - 0
           /\ \A i \in 1 .. (c - 0) : slice[i] = text[0 + i]
        BY <2>1, Slice
    <2> QED
        BY <2>1, <2>2
<1>6. SubSeq(t, 1, s) = a \o b
    <2>1. SubSeq(t, 0 + 1, s) = SubSeq(text, 0 + 1, s)
        <3>1. 0 \in 0 .. s
            BY <1>1
        <3> QED
            BY <1>1, <3>1, SameSlice
    <2>2. 0 + 1 = 1
        OBVIOUS
    <2>3. 1 \in 1 .. Len(text) + 1 /\ c \in 1 - 1 .. Len(text) /\ s \in c .. Len(text)
        BY <1>1, <1>3
    <2>4. a \o b = SubSeq(text, 1, s)
        BY <2>3, ConcatAdjacentSubSeq
    <2> QED
        BY <2>1, <2>2, <2>4
<1>7. Replaced(h, t) = ((a \o b) \o n) \o r
    BY <1>6 DEF Replaced
<1> HIDE DEF a, b, n, r
<1>8. a \in Seq(Line) /\ b \in Seq(Line) /\ n \in Seq(Line) /\ r \in Seq(Line)
    BY <1>1, <1>2, <1>4, <1>5
<1>9. z \in Seq(Line) /\ ((a \o b) \o n) \o r = a \o z
    <2>1. Regrouped(a, b, n, r)
        BY <1>8, Regroup
    <2> QED
        BY <2>1 DEF Regrouped
<1> HIDE DEF z
<1>10. /\ a \o z \in Seq(Line) /\ Len(a \o z) = c + Len(z) /\ Len(z) \in Nat
       /\ \A i \in 1 .. c + Len(z) : (a \o z)[i] = IF i <= c THEN a[i] ELSE z[i - c]
    <2>1. /\ a \o z \in Seq(Line) /\ Len(a \o z) = Len(a) + Len(z) /\ Len(z) \in Nat
          /\ \A i \in 1 .. Len(a) + Len(z) :
                (a \o z)[i] = IF i <= Len(a) THEN a[i] ELSE z[i - Len(a)]
        BY <1>5, <1>9, ConcatProperties, LenProperties
    <2> QED
        BY <1>5, <2>1
<1>11. Agree(a \o z, text, c)
    <2>1. c <= Len(a \o z) /\ c <= Len(text)
        BY <1>1, <1>3, <1>10
    <2>2. \A i \in 1 .. c : i \in 1 .. c + Len(z) /\ i <= c
        BY <1>10
    <2>3. \A i \in 1 .. c : (a \o z)[i] = text[i]
        BY <1>5, <1>10, <2>2
    <2> QED
        BY <2>1, <2>3 DEF Agree
<1>12. SubSeq(a \o z, c + 1, Len(a \o z)) = z
    BY <1>5, <1>9, TailOfConcat
<1>13. Replaced(h, t) = a \o z
    BY <1>7, <1>9
<1> QED
    BY <1>10, <1>11, <1>12, <1>13 DEF z, b, n, r, s, d

LEMMA AppendToConcat ==
    ASSUME NEW a \in Seq(Line), NEW b \in Seq(Line), NEW e \in Line
    PROVE  Append(a \o b, e) = a \o Append(b, e)
<1>1. a \o b \in Seq(Line) /\ <<e>> \in Seq(Line)
    BY ConcatProperties
<1>2. Append(a \o b, e) = (a \o b) \o <<e>>
    BY <1>1, AppendIsConcat
<1>3. Append(b, e) = b \o <<e>>
    BY AppendIsConcat
<1>4. (a \o b) \o <<e>> = a \o (b \o <<e>>)
    BY <1>1, ConcatAssociative
<1> QED
    BY <1>2, <1>3, <1>4

-----------------------------------------------------------------------------
(* The first k hunks have been applied: cur lines of the text are behind,  *)
(* out has been written.  Whatever follows those lines in a text, they are *)
(* patched to out; that is what makes the order of the hunks irrelevant.   *)

PatchedSoFar(text, hs, k, cur, out) ==
    \A t \in Seq(Line) : Agree(t, text, cur) =>
        PatchedBy(k, hs, t) = out \o SubSeq(t, cur + 1, Len(t))

DoneTo(text, hs, k, cur, out) ==
    /\ k \in 0 .. Len(hs) /\ cur \in 0 .. Len(text) /\ out \in Seq(Line)
    /\ cur = IF k = 0 THEN 0 ELSE Start(hs[k]) + Len(Old(hs[k]))
    /\ Len(out) = cur + Growth(hs)[k]
    /\ \A i \in 1 .. k : Found(text, hs, i)
    /\ \A i \in 2 .. k : Start(hs[i - 1]) + Len(Old(hs[i - 1])) <= Start(hs[i])
    /\ PatchedSoFar(text, hs, k, cur, out)

\* Where hunk k + 1 begins, after c lines of the text that gave o.
Opened(text, hs, k, c, o) ==
    /\ DoneTo(text, hs, k, c, o)
    /\ k + 1 \in 1 .. Len(hs)
    /\ c <= Start(hs[k + 1]) /\ Start(hs[k + 1]) <= Len(text)
    /\ Len(o) + (Start(hs[k + 1]) - c) = NewStart(hs[k + 1])

\* Its first n lines have been applied.
Through(text, h, n, cur, out, before) ==
    LET old == LinesTo(h.lines, {" ", "-"})[n] IN
    /\ n \in 0 .. Len(h.lines)
    /\ cur = Start(h) + Len(old) /\ cur <= Len(text)
    /\ \A j \in 1 .. Len(old) : text[Start(h) + j] = old[j]
    /\ out = before \o LinesTo(h.lines, {" ", "+"})[n]

InHunk(text, hs, k, n, cur, out) ==
    \E c \in Nat, o \in Seq(Line) :
        /\ Opened(text, hs, k, c, o)
        /\ Through(text, hs[k + 1], n, cur, out,
                   o \o SubSeq(text, c + 1, Start(hs[k + 1])))

LEMMA NoneDone ==
    ASSUME NEW text \in Seq(Line), NEW hs \in Seq(Hunk)
    PROVE  DoneTo(text, hs, 0, 0, <<>>)
<1>1. Len(text) \in Nat /\ Len(hs) \in Nat /\ <<>> \in Seq(Line) /\ Len(<<>>) = 0
    BY EmptySeq, LenProperties
<1>2. Growth(hs)[0] = 0
    BY GrowthIs DEF Grown
<1>3. PatchedSoFar(text, hs, 0, 0, <<>>)
    <2> SUFFICES ASSUME NEW t \in Seq(Line)
                 PROVE  PatchedBy(0, hs, t) = <<>> \o SubSeq(t, 0 + 1, Len(t))
        BY DEF PatchedSoFar
    <2>1. PatchedBy(0, hs, t) = t
        <3>1. 0 \in Nat
            OBVIOUS
        <3> QED
            BY <3>1, PatchedByStep DEF LastFirst
    <2>2. SubSeq(t, 1, Len(t)) = t
        BY SubSeqFull
    <2>3. <<>> \o t = t
        BY ConcatEmptySeq
    <2>4. 0 + 1 = 1
        OBVIOUS
    <2> QED
        BY <2>1, <2>2, <2>3, <2>4
<1> QED
    BY <1>1, <1>2, <1>3 DEF DoneTo

LEMMA HunkOpens ==
    ASSUME NEW text \in Seq(Line), NEW hs \in Seq(Hunk), NEW k \in Nat,
           NEW c \in Nat, NEW o, DoneTo(text, hs, k, c, o), k + 1 <= Len(hs),
           c <= Start(hs[k + 1]), Start(hs[k + 1]) <= Len(text),
           Len(o) + Len(SubSeq(text, c + 1, Start(hs[k + 1]))) = NewStart(hs[k + 1])
    PROVE  InHunk(text, hs, k, 0, Start(hs[k + 1]),
                  o \o SubSeq(text, c + 1, Start(hs[k + 1])))
<1> DEFINE h == hs[k + 1]
           b == SubSeq(text, c + 1, Start(h))
<1>1. k + 1 \in 1 .. Len(hs) /\ h \in Hunk /\ o \in Seq(Line)
    BY ElementOfSeq DEF DoneTo
<1>2. Start(h) \in Int /\ Len(h.lines) \in Nat /\ c <= Start(h)
    BY <1>1, HunkTyped
<1>3. Start(h) \in Nat
    BY <1>2
<1>4. b \in Seq(Line) /\ Len(b) = Start(h) - c
    BY <1>3, Slice
<1>5. Opened(text, hs, k, c, o)
    BY <1>1, <1>4 DEF Opened
<1>6. LinesTo(h.lines, {" ", "-"})[0] = <<>> /\ LinesTo(h.lines, {" ", "+"})[0] = <<>>
    <2>1. Collected(LinesTo(h.lines, {" ", "-"}), h.lines, {" ", "-"})
        BY <1>1, HunkTyped, LinesToIs
    <2>2. Collected(LinesTo(h.lines, {" ", "+"}), h.lines, {" ", "+"})
        BY <1>1, HunkTyped, LinesToIs
    <2> QED
        BY <2>1, <2>2 DEF Collected
<1>7. o \o b \in Seq(Line) /\ (o \o b) \o <<>> = o \o b
    BY <1>1, <1>4, ConcatProperties, ConcatEmptySeq
<1> HIDE DEF h, b
<1>8. Through(text, h, 0, Start(h), o \o b, o \o b)
    <2>1. Len(<<>>) = 0 /\ 0 \in 0 .. Len(h.lines) /\ Start(h) = Start(h) + 0
          /\ Start(h) <= Len(text)
        BY <1>2, <1>3, LenProperties, EmptySeq DEF h
    <2>2. \A j \in 1 .. 0 : FALSE
        OBVIOUS
    <2> QED
        BY <1>6, <1>7, <2>1, <2>2 DEF Through
<1> QED
    BY <1>1, <1>5, <1>8 DEF InHunk, h, b

\* A line of the hunk that is not one of the text's.
LEMMA ThroughAdded ==
    ASSUME NEW text \in Seq(Line), NEW h \in Hunk, NEW n \in Nat, NEW cur, NEW out,
           NEW before \in Seq(Line), Through(text, h, n, cur, out, before),
           n + 1 <= Len(h.lines), h.lines[n + 1].operation = "+"
    PROVE  Through(text, h, n + 1, cur, Append(out, h.lines[n + 1].content), before)
<1> DEFINE old == LinesTo(h.lines, {" ", "-"})
           new == LinesTo(h.lines, {" ", "+"})
           e == h.lines[n + 1].content
<1>1. n + 1 \in 1 .. Len(h.lines) /\ n \in 0 .. Len(h.lines) /\ (n + 1) - 1 = n
    BY HunkTyped
<1>2. Collected(old, h.lines, {" ", "-"}) /\ Collected(new, h.lines, {" ", "+"})
    BY HunkTyped, LinesToIs
<1> HIDE DEF old, new
<1>3. old[n + 1] = old[n]
    BY <1>1, <1>2 DEF Collected
<1>5. new[n + 1] = Append(new[n], e) /\ new[n] \in Seq(Line) /\ e \in Line
    BY <1>1, <1>2, HunkTyped DEF Collected
<1> HIDE DEF e
<1>4. Append(before \o new[n], e) = before \o Append(new[n], e)
    BY <1>5, AppendToConcat
<1>6. /\ cur = Start(h) + Len(old[n]) /\ cur <= Len(text) /\ out = before \o new[n]
      /\ \A j \in 1 .. Len(old[n]) : text[Start(h) + j] = old[n][j]
    BY DEF Through, old, new
<1>7. n + 1 \in 0 .. Len(h.lines)
    BY <1>1
<1> QED
    BY <1>3, <1>4, <1>5, <1>6, <1>7 DEF Through, old, new, e

\* A line of the text's.
LEMMA ThroughOld ==
    ASSUME NEW text \in Seq(Line), NEW h \in Hunk, NEW n \in Nat, NEW cur \in Nat, NEW out,
           NEW before \in Seq(Line), Through(text, h, n, cur, out, before),
           n + 1 <= Len(h.lines), cur < Len(text),
           text[cur + 1] = h.lines[n + 1].content
    PROVE  /\ h.lines[n + 1].operation = " " =>
                 Through(text, h, n + 1, cur + 1, Append(out, h.lines[n + 1].content), before)
           /\ h.lines[n + 1].operation = "-" =>
                 Through(text, h, n + 1, cur + 1, out, before)
<1> DEFINE old == LinesTo(h.lines, {" ", "-"})
           new == LinesTo(h.lines, {" ", "+"})
           e == h.lines[n + 1].content
<1>1. n + 1 \in 1 .. Len(h.lines) /\ n \in 0 .. Len(h.lines) /\ (n + 1) - 1 = n
      /\ n + 1 \in 0 .. Len(h.lines)
    BY HunkTyped
<1>11. Collected(old, h.lines, {" ", "-"}) /\ Collected(new, h.lines, {" ", "+"})
    BY HunkTyped, LinesToIs
<1> HIDE DEF old, new
<1>2. new[n] \in Seq(Line) /\ old[n] \in Seq(Line) /\ e \in Line /\ Start(h) \in Int
    BY <1>1, <1>11, HunkTyped DEF Collected
<1>3. h.lines[n + 1].operation \in {" ", "-"} => old[n + 1] = Append(old[n], e)
    BY <1>1, <1>11 DEF Collected
<1>4. /\ h.lines[n + 1].operation = " " => new[n + 1] = Append(new[n], e)
      /\ h.lines[n + 1].operation = "-" => new[n + 1] = new[n]
    BY <1>1, <1>11 DEF Collected
<1> HIDE DEF e
<1>5. Append(before \o new[n], e) = before \o Append(new[n], e)
    BY <1>2, AppendToConcat
<1>6. /\ cur = Start(h) + Len(old[n]) /\ out = before \o new[n]
      /\ \A j \in 1 .. Len(old[n]) : text[Start(h) + j] = old[n][j]
    BY DEF Through, old, new
<1>7. /\ Len(Append(old[n], e)) = Len(old[n]) + 1 /\ Len(old[n]) \in Nat
      /\ \A j \in 1 .. Len(old[n]) : Append(old[n], e)[j] = old[n][j]
      /\ Append(old[n], e)[Len(old[n]) + 1] = e
    BY <1>2, AppendProperties, LenProperties
<1>8. ASSUME old[n + 1] = Append(old[n], e)
      PROVE  /\ cur + 1 = Start(h) + Len(old[n + 1]) /\ cur + 1 <= Len(text)
             /\ \A j \in 1 .. Len(old[n + 1]) : text[Start(h) + j] = old[n + 1][j]
    <2>1. cur + 1 = Start(h) + Len(old[n + 1]) /\ cur + 1 <= Len(text)
        BY <1>2, <1>6, <1>7, <1>8, LenProperties
    <2>2. ASSUME NEW j \in 1 .. Len(old[n + 1]) PROVE text[Start(h) + j] = old[n + 1][j]
        <3>1. CASE j \in 1 .. Len(old[n])
            BY <1>6, <1>7, <1>8, <3>1
        <3>2. CASE j = Len(old[n]) + 1
            <4>1. Start(h) + j = cur + 1
                BY <1>2, <1>6, <1>7, <3>2
            <4>2. text[cur + 1] = e
                BY DEF e
            <4> QED
                BY <1>7, <1>8, <3>2, <4>1, <4>2
        <3> QED
            BY <1>7, <1>8, <3>1, <3>2
    <2> QED
        BY <2>1, <2>2
<1>9. h.lines[n + 1].operation = " " =>
          Through(text, h, n + 1, cur + 1, Append(out, e), before)
    BY <1>1, <1>3, <1>4, <1>5, <1>6, <1>8 DEF Through, old, new
<1>10. h.lines[n + 1].operation = "-" =>
          Through(text, h, n + 1, cur + 1, out, before)
    BY <1>1, <1>3, <1>4, <1>6, <1>8 DEF Through, old, new
<1> QED
    BY <1>9, <1>10 DEF e

LEMMA HunkCloses ==
    ASSUME NEW text \in Seq(Line), NEW hs \in Seq(Hunk), NEW k \in Nat, NEW cur, NEW out,
           InHunk(text, hs, k, Len(hs[k + 1].lines), cur, out)
    PROVE  DoneTo(text, hs, k + 1, cur, out)
<1> DEFINE h == hs[k + 1]
           s == Start(h)
           old == Old(h)
<1>1. PICK c \in Nat, o \in Seq(Line) :
        /\ Opened(text, hs, k, c, o)
        /\ Through(text, h, Len(h.lines), cur, out, o \o SubSeq(text, c + 1, s))
    BY DEF InHunk
<1> DEFINE b == SubSeq(text, c + 1, s)
<1>2. DoneTo(text, hs, k, c, o) /\ k + 1 \in 1 .. Len(hs) /\ h \in Hunk
      /\ c <= s /\ s <= Len(text) /\ Len(o) + (s - c) = NewStart(h)
    BY <1>1, ElementOfSeq DEF Opened
<1>3. /\ s \in Nat /\ old \in Seq(Line) /\ Len(old) \in Nat /\ New(h) \in Seq(Line)
      /\ Len(New(h)) \in Nat /\ Len(text) \in Nat /\ Len(o) \in Nat /\ Len(hs) \in Nat
    <2>1. s \in Int /\ c \in Nat /\ c <= s
        BY <1>1, <1>2, HunkTyped
    <2>2. s \in Nat
        BY <2>1
    <2>3. /\ old \in Seq(Line) /\ Len(old) \in Nat /\ New(h) \in Seq(Line)
          /\ Len(New(h)) \in Nat
        BY <1>2, OldTyped
    <2>4. Len(text) \in Nat /\ Len(o) \in Nat /\ Len(hs) \in Nat
        BY <1>1, LenProperties
    <2> QED
        BY <2>2, <2>3, <2>4
<1>4. /\ cur = s + Len(old) /\ cur <= Len(text)
      /\ \A j \in 1 .. Len(old) : text[s + j] = old[j]
      /\ out = (o \o b) \o New(h)
    BY <1>1 DEF Through, Old, New, LinesOf
<1>5. b \in Seq(Line) /\ Len(b) = s - c
    BY <1>2, <1>3, Slice
<1> HIDE DEF s, old, b, h
<1>6. /\ o \o b \in Seq(Line) /\ Len(o \o b) = Len(o) + Len(b)
      /\ out \in Seq(Line) /\ Len(out) = Len(o \o b) + Len(New(h))
    <2>1. o \o b \in Seq(Line) /\ Len(o \o b) = Len(o) + Len(b)
        BY <1>5, ConcatProperties
    <2>2. /\ (o \o b) \o New(h) \in Seq(Line)
          /\ Len((o \o b) \o New(h)) = Len(o \o b) + Len(New(h))
        BY <1>3, <2>1, ConcatProperties
    <2> QED
        BY <1>4, <2>1, <2>2
<1>7. /\ Growth(hs)[k] \in Int
      /\ Growth(hs)[k + 1] = Growth(hs)[k] + Len(New(h)) - Len(old)
      /\ Len(o) = c + Growth(hs)[k] /\ k \in 0 .. Len(hs) /\ (k + 1) - 1 = k
    <2>1. k \in 0 .. Len(hs) /\ (k + 1) - 1 = k
        BY <1>2, <1>3
    <2>2. Growth(hs)[k] \in Int
        BY <2>1, GrowthIs DEF Grown
    <2>3. Growth(hs)[k + 1] = Growth(hs)[k] + Len(New(h)) - Len(old)
        BY <1>2, <2>1, GrowthIs DEF Grown, h, old
    <2> QED
        BY <1>2, <2>1, <2>2, <2>3 DEF DoneTo
<1>8. Len(out) = cur + Growth(hs)[k + 1]
    <2>1. Len(out) = ((c + Growth(hs)[k]) + (s - c)) + Len(New(h)) /\ c \in Int
        BY <1>1, <1>5, <1>6, <1>7
    <2> DEFINE g == Growth(hs)[k]
               more == Len(New(h))
               less == Len(old)
    <2>2. /\ s \in Int /\ less \in Int /\ more \in Int /\ g \in Int /\ c \in Int
          /\ Len(out) = ((c + g) + (s - c)) + more /\ cur = s + less
          /\ Growth(hs)[k + 1] = g + more - less
        BY <1>3, <1>4, <1>7, <2>1
    <2> HIDE DEF g, more, less
    <2>3. ((c + g) + (s - c)) + more = (s + less) + (g + more - less)
        BY <2>2
    <2> QED
        BY <2>2, <2>3
<1>9. \A i \in 1 .. k + 1 : Found(text, hs, i)
    <2>1. \A i \in 1 .. k : Found(text, hs, i)
        BY <1>2 DEF DoneTo
    <2>2. SubSeq(text, s + 1, s + Len(old)) = old
        <3>1. s + Len(old) \in Nat /\ s + Len(old) <= Len(text) /\ s <= s + Len(old)
              /\ (s + Len(old)) - s = Len(old)
            BY <1>3, <1>4
        <3> DEFINE found == SubSeq(text, s + 1, s + Len(old))
        <3>2. /\ found \in Seq(Line) /\ Len(found) = (s + Len(old)) - s
              /\ \A i \in 1 .. ((s + Len(old)) - s) : found[i] = text[s + i]
            BY <1>3, <3>1, Slice
        <3> HIDE DEF found
        <3>3. found = old
            BY <1>3, <1>4, <3>1, <3>2, SeqEqual
        <3> QED
            BY <3>3 DEF found
    <2>3. NewStart(h) = s + Growth(hs)[(k + 1) - 1]
        BY <1>2, <1>3, <1>7
    <2>4. Found(text, hs, k + 1)
        BY <1>3, <1>4, <2>2, <2>3 DEF Found, h, s, old
    <2> QED
        BY <2>1, <2>4
<1>10. \A i \in 2 .. k + 1 : Start(hs[i - 1]) + Len(Old(hs[i - 1])) <= Start(hs[i])
    <2>1. \A i \in 2 .. k : Start(hs[i - 1]) + Len(Old(hs[i - 1])) <= Start(hs[i])
        BY <1>2 DEF DoneTo
    <2>2. k # 0 => Start(hs[(k + 1) - 1]) + Len(Old(hs[(k + 1) - 1])) <= Start(hs[k + 1])
        BY <1>2, <1>7 DEF DoneTo, s, h
    <2>3. \A i \in 2 .. k + 1 : i \in 2 .. k \/ (i = k + 1 /\ k # 0)
        OBVIOUS
    <2> QED
        BY <2>1, <2>2, <2>3
<1>11. PatchedSoFar(text, hs, k + 1, cur, out)
    <2> SUFFICES ASSUME NEW t \in Seq(Line), Agree(t, text, cur)
                 PROVE  PatchedBy(k + 1, hs, t) = out \o SubSeq(t, cur + 1, Len(t))
        BY DEF PatchedSoFar
    <2> DEFINE t2 == Replaced(h, t)
               r == SubSeq(t, cur + 1, Len(t))
    <2>1. Agree(t, text, s) /\ s + Len(old) <= Len(t)
        <3>1. \A i \in 1 .. s : i \in 1 .. cur
            BY <1>3, <1>4
        <3> QED
            BY <1>2, <1>3, <1>4, <3>1 DEF Agree
    <2>2. /\ t2 \in Seq(Line) /\ Agree(t2, text, c)
          /\ SubSeq(t2, c + 1, Len(t2)) = (b \o New(h)) \o r
        <3>1. h \in Hunk /\ c <= Start(h) /\ Agree(t, text, Start(h))
              /\ Start(h) + Len(Old(h)) <= Len(t)
            BY <1>2, <2>1 DEF s, old
        <3>2. /\ Replaced(h, t) \in Seq(Line) /\ Agree(Replaced(h, t), text, c)
              /\ SubSeq(Replaced(h, t), c + 1, Len(Replaced(h, t))) =
                  (SubSeq(text, c + 1, Start(h)) \o New(h))
                      \o SubSeq(t, Start(h) + Len(Old(h)) + 1, Len(t))
            BY <3>1, ReplacedFrom
        <3> QED
            BY <1>4, <3>2 DEF s, b, old
    <2>3. PatchedBy(k + 1, hs, t) = PatchedBy(k, hs, t2)
            <3>1. LastFirst(k, hs, t)
            BY PatchedByStep
        <3> QED
            BY <3>1, Zenon DEF LastFirst, h, t2
    <2>4. PatchedBy(k, hs, t2) = o \o SubSeq(t2, c + 1, Len(t2))
        BY <1>2, <2>2 DEF DoneTo, PatchedSoFar
    <2>5. r \in Seq(Line)
        <3>1. cur \in Nat /\ Len(t) \in Nat /\ cur <= Len(t)
            BY <1>3, <1>4, LenProperties DEF Agree
        <3> QED
            BY <3>1, Slice
    <2> HIDE DEF t2, r
    <2>6. Regrouped(o, b, New(h), r)
        BY <1>3, <1>5, <2>5, Regroup
    <2>7. PatchedBy(k + 1, hs, t) = ((o \o b) \o New(h)) \o r
        BY <2>2, <2>3, <2>4, <2>6 DEF Regrouped
    <2> QED
        BY <1>4, <2>7 DEF r
<1>12. k + 1 \in 0 .. Len(hs) /\ cur \in 0 .. Len(text) /\ k + 1 # 0
    BY <1>2, <1>3, <1>4
<1>13. cur = Start(hs[k + 1]) + Len(Old(hs[k + 1]))
    BY <1>4 DEF s, old, h
<1> QED
    BY <1>6, <1>8, <1>9, <1>10, <1>11, <1>12, <1>13 DEF DoneTo

LEMMA AllDone ==
    ASSUME NEW text \in Seq(Line), NEW hs \in Seq(Hunk), NEW cur, NEW out,
           DoneTo(text, hs, Len(hs), cur, out)
    PROVE  /\ Fits(text, hs)
           /\ Patched(text, hs) = out \o SubSeq(text, cur + 1, Len(text))
<1>1. Fits(text, hs)
    BY DEF DoneTo, Fits
<1>2. Agree(text, text, cur)
    BY LenProperties DEF DoneTo, Agree
<1> QED
    BY <1>1, <1>2 DEF DoneTo, PatchedSoFar, Patched

Follows(text, hs, k, c, o) ==
    /\ c <= Start(hs[k + 1]) /\ Start(hs[k + 1]) <= Len(text)
    /\ Len(o) + Len(SubSeq(text, c + 1, Start(hs[k + 1]))) = NewStart(hs[k + 1])

\* A hunk that fits is found behind the hunks before it.
LEMMA FittingOpens ==
    ASSUME NEW text \in Seq(Line), NEW hs \in Seq(Hunk), NEW k \in Nat, NEW c, NEW o,
           DoneTo(text, hs, k, c, o), k + 1 <= Len(hs), Fits(text, hs)
    PROVE  Follows(text, hs, k, c, o)
<1> DEFINE h == hs[k + 1]
<1>1. k + 1 \in 1 .. Len(hs) /\ h \in Hunk /\ (k + 1) - 1 = k /\ k \in 0 .. Len(hs)
    BY ElementOfSeq, LenProperties
<1>2. Start(h) \in Int /\ NewStart(h) \in Int /\ Len(Old(h)) \in Nat
    BY <1>1, HunkTyped, OldTyped
<1>3. /\ Start(h) >= 0 /\ Start(h) + Len(Old(h)) <= Len(text)
      /\ NewStart(h) = Start(h) + Growth(hs)[k]
    BY <1>1 DEF Fits, Found
<1>4. k # 0 => Start(hs[k]) + Len(Old(hs[k])) <= Start(h)
    <2>1. k # 0 => k + 1 \in 2 .. Len(hs)
        BY <1>1
    <2> QED
        BY <1>1, <2>1 DEF Fits
<1> HIDE DEF h
<1>5. c \in Nat /\ Len(text) \in Nat /\ c <= Start(h) /\ Start(h) <= Len(text)
    BY <1>2, <1>3, <1>4, LenProperties DEF DoneTo
<1>6. Len(SubSeq(text, c + 1, Start(h))) = Start(h) - c
    BY <1>2, <1>5, Slice
<1>7. Growth(hs)[k] \in Int /\ Len(o) = c + Growth(hs)[k]
    BY <1>1, GrowthIs DEF Grown, DoneTo
<1> QED
    BY <1>2, <1>3, <1>5, <1>6, <1>7 DEF h, Follows

\* The text holds the old lines of a hunk where the hunk says.
LEMMA LineFound ==
    ASSUME NEW text \in Seq(Line), NEW s \in Nat, NEW whole \in Seq(Line),
           NEW start \in Seq(Line), NEW e \in Line,
           BeginsWith(whole, Append(start, e)), s + Len(whole) <= Len(text),
           SubSeq(text, s + 1, s + Len(whole)) = whole
    PROVE  s + Len(start) < Len(text) /\ text[(s + Len(start)) + 1] = e
<1> DEFINE w == Len(whole)
           n == Len(start)
<1>1. w \in Nat /\ n \in Nat /\ Len(text) \in Nat /\ s + w <= Len(text)
    BY LenProperties
<1>2. Len(Append(start, e)) = n + 1 /\ Append(start, e)[n + 1] = e
    BY AppendProperties
<1>3. n + 1 <= w /\ whole[n + 1] = e
    <2>1. n + 1 \in 1 .. n + 1
        BY <1>1
    <2> QED
        BY <1>2, <2>1 DEF BeginsWith
<1> HIDE DEF n
<1>4. s + w \in Nat /\ s <= s + w /\ (s + w) - s = w
    BY <1>1
<1>5. \A i \in 1 .. w : SubSeq(text, s + 1, s + w)[i] = text[s + i]
    BY <1>1, <1>4, Slice
<1>6. whole[n + 1] = text[s + (n + 1)]
    <2>1. n + 1 \in 1 .. w
        BY <1>1, <1>3
    <2> QED
        BY <1>5, <2>1
<1> HIDE DEF w
<1>7. s + (n + 1) = (s + n) + 1 /\ s + n < Len(text)
    BY <1>1, <1>3
<1> QED
    BY <1>3, <1>6, <1>7 DEF n

IsOld(l) == l.operation \in {" ", "-"}

LEMMA OldLine ==
    ASSUME NEW text \in Seq(Line), NEW h \in Hunk, NEW n \in Nat,
           n + 1 <= Len(h.lines), IsOld(h.lines[n + 1]),
           Start(h) >= 0, Start(h) + Len(Old(h)) <= Len(text),
           SubSeq(text, Start(h) + 1, Start(h) + Len(Old(h))) = Old(h)
    PROVE  LET cur == Start(h) + Len(LinesTo(h.lines, {" ", "-"})[n])
           IN  cur < Len(text) /\ text[cur + 1] = h.lines[n + 1].content
<1> DEFINE old == LinesTo(h.lines, {" ", "-"})
           L == Len(h.lines)
           e == h.lines[n + 1].content
<1>1. Start(h) \in Int /\ L \in Nat /\ \A i \in 1 .. L : h.lines[i].content \in Line
    BY HunkTyped
<1>2. n + 1 \in 1 .. L /\ n \in 0 .. L /\ (n + 1) - 1 = n /\ n + 1 \in 0 .. L
      /\ L \in n + 1 .. L
    BY <1>1
<1>3. Collected(old, h.lines, {" ", "-"})
    BY HunkTyped, LinesToIs
<1>4. BeginsWith(old[L], old[n + 1])
    BY <1>2, HunkTyped, LinesToGrow
<1> HIDE DEF old, L
<1>5. old[n + 1] = Append(old[n], e) /\ old[n] \in Seq(Line) /\ e \in Line
    BY <1>1, <1>2, <1>3 DEF Collected, L, IsOld
<1> HIDE DEF e
<1>6. old[L] = Old(h) /\ Old(h) \in Seq(Line)
    BY OldTyped DEF Old, LinesOf, old, L
<1>7. BeginsWith(Old(h), Append(old[n], e))
    BY <1>4, <1>5, <1>6
<1>8. Start(h) \in Nat
    BY <1>1
<1>9. Start(h) + Len(old[n]) < Len(text) /\ text[(Start(h) + Len(old[n])) + 1] = e
    <2> DEFINE s == Start(h)
               whole == Old(h)
               start == old[n]
    <2>1. /\ s \in Nat /\ whole \in Seq(Line) /\ start \in Seq(Line) /\ e \in Line
          /\ BeginsWith(whole, Append(start, e)) /\ s + Len(whole) <= Len(text)
          /\ SubSeq(text, s + 1, s + Len(whole)) = whole
        BY <1>5, <1>6, <1>7, <1>8
    <2> HIDE DEF s, whole, start
    <2>2. s + Len(start) < Len(text) /\ text[(s + Len(start)) + 1] = e
        BY <2>1, LineFound
    <2> QED
        BY <2>2 DEF s, start
<1> QED
    BY <1>9 DEF old, e

Holds(text, cur, content) == cur < Len(text) /\ text[cur + 1] = content

\* Its lines are the text's.
LEMMA FittingMatches ==
    ASSUME NEW text \in Seq(Line), NEW hs \in Seq(Hunk), NEW k \in Nat,
           NEW n \in Nat, NEW cur, NEW out, InHunk(text, hs, k, n, cur, out),
           n + 1 <= Len(hs[k + 1].lines), IsOld(hs[k + 1].lines[n + 1]), Fits(text, hs)
    PROVE  Holds(text, cur, hs[k + 1].lines[n + 1].content)
<1> DEFINE h == hs[k + 1]
<1>1. k + 1 \in 1 .. Len(hs) /\ h \in Hunk
      /\ cur = Start(h) + Len(LinesTo(h.lines, {" ", "-"})[n])
    BY ElementOfSeq DEF InHunk, Opened, Through
<1>2. /\ Start(h) >= 0 /\ Start(h) + Len(Old(h)) <= Len(text)
      /\ SubSeq(text, Start(h) + 1, Start(h) + Len(Old(h))) = Old(h)
    BY <1>1 DEF Fits, Found
<1>3. n + 1 <= Len(h.lines) /\ IsOld(h.lines[n + 1])
    OBVIOUS
<1> HIDE DEF h
<1>4. cur < Len(text) /\ text[cur + 1] = h.lines[n + 1].content
    BY <1>1, <1>2, <1>3, OldLine
<1> QED
    BY <1>4 DEF h, Holds

-----------------------------------------------------------------------------
(* The application works the hunks off in their order.                     *)

WorkedOff ==
    /\ status \in {"hunks", "lines", "done"} => source.exists = (patch.operation # "create")
    /\ status = "hunks" => DoneTo(source.lines, patch.hunks, hunk - 1, cursor, output)
    /\ status = "lines" =>
          InHunk(source.lines, patch.hunks, hunk - 1, line - 1, cursor, output)
    /\ AppliesAsWritten

LEMMA BeginWritten ==
    ASSUME NEW file \in File, NEW p \in FilePatch, Begin(file, p)
    PROVE  WorkedOff'
<1>1. file.exists \in BOOLEAN /\ file.lines \in Seq(Line) /\ p.hunks \in Seq(Hunk)
    BY DEF File, FilePatch
<1>2. source' = file /\ patch' = p /\ hunk' = 1 /\ cursor' = 0 /\ output' = <<>>
      /\ status' = IF (p.operation = "create") = file.exists THEN "refused" ELSE "hunks"
    BY DEF Begin
<1>3. DoneTo(file.lines, p.hunks, 0, 0, <<>>)
    BY <1>1, NoneDone
<1>4. hunk' - 1 = 0
    BY <1>2
<1>5. CASE (p.operation = "create") = file.exists
    <2>1. status' = "refused" /\ file.exists # (p.operation # "create")
        BY <1>1, <1>2, <1>5
    <2>2. ~Applies(file, p)
        BY <2>1 DEF Applies
    <2> QED
        BY <1>2, <2>1, <2>2 DEF WorkedOff, AppliesAsWritten
<1>6. CASE (p.operation = "create") # file.exists
    <2>1. status' = "hunks" /\ file.exists = (p.operation # "create")
        BY <1>1, <1>2, <1>6
    <2>2. DoneTo(source', patch', hunk' - 1, cursor', output')
          \/ DoneTo(source'.lines, patch'.hunks, hunk' - 1, cursor', output')
        BY <1>2, <1>3, <1>4
    <2>3. DoneTo(source.lines, patch.hunks, hunk - 1, cursor, output)'
        BY <1>2, <1>3, <1>4
    <2> QED
        BY <1>2, <2>1, <2>3 DEF WorkedOff, AppliesAsWritten
<1> QED
    BY <1>5, <1>6

\* What the lemmas about texts and hunks are applied to.
LEMMA Applied ==
    ASSUME IInv, WorkedOff
    PROVE  /\ source.lines \in Seq(Line) /\ patch.hunks \in Seq(Hunk)
           /\ Len(patch.hunks) \in Nat /\ hunk - 1 \in Nat /\ line - 1 \in Nat
           /\ (hunk - 1) + 1 = hunk /\ (line - 1) + 1 = line
           /\ (hunk + 1) - 1 = hunk /\ (line + 1) - 1 = line
           /\ cursor \in Nat /\ output \in Seq(Line) /\ Current = patch.hunks[hunk]
           /\ hunk \in Nat /\ line \in Nat
<1>1. hunk \in Nat /\ line \in Nat /\ hunk >= 1 /\ line >= 1 /\ cursor \in Nat
      /\ output \in Seq(Line) /\ source \in File /\ patch \in FilePatch
    BY DEF IInv, PatchTypeOK, Placed
<1>2. source.lines \in Seq(Line) /\ patch.hunks \in Seq(Hunk)
    BY <1>1 DEF File, FilePatch
<1>3. Len(patch.hunks) \in Nat
    BY <1>2, LenProperties
<1>4. hunk - 1 \in Nat /\ line - 1 \in Nat /\ (hunk - 1) + 1 = hunk /\ (line - 1) + 1 = line
      /\ (hunk + 1) - 1 = hunk /\ (line + 1) - 1 = line
    BY <1>1
<1> QED
    BY <1>1, <1>2, <1>3, <1>4 DEF Current

LEMMA OpenWritten ==
    ASSUME IInv, WorkedOff, OpenHunk
    PROVE  WorkedOff'
<1> DEFINE text == source.lines
           hs == patch.hunks
           k == hunk - 1
           b == SubSeq(text, cursor + 1, Start(hs[k + 1]))
<1>1. text \in Seq(Line) /\ hs \in Seq(Hunk) /\ k \in Nat /\ k + 1 = hunk
      /\ cursor \in Nat /\ Current = hs[k + 1] /\ k + 1 <= Len(hs)
    BY Applied DEF OpenHunk
<1>2. DoneTo(text, hs, k, cursor, output)
    BY DEF WorkedOff, OpenHunk
<1>3. /\ cursor <= Start(hs[k + 1]) /\ Start(hs[k + 1]) <= Len(text)
      /\ Len(output) + Len(b) = NewStart(hs[k + 1])
    BY <1>1 DEF OpenHunk, Reachable, InPosition, Between
<1>4. InHunk(text, hs, k, 0, Start(hs[k + 1]), output \o b)
    BY <1>1, <1>2, <1>3, HunkOpens
<1>5. /\ UNCHANGED <<source, patch, hunk>> /\ status' = "lines" /\ line' = 1
      /\ cursor' = Start(hs[k + 1]) /\ output' = output \o b
    BY <1>1 DEF OpenHunk, Between
<1>6. InHunk(source.lines, patch.hunks, hunk - 1, line - 1, cursor, output)'
    <2>1. line' - 1 = 0
        BY <1>5
    <2> HIDE DEF b
    <2> QED
        BY <1>4, <1>5, <2>1
<1>7. source.exists = (patch.operation # "create")
    BY DEF WorkedOff, OpenHunk
<1> QED
    BY <1>5, <1>6, <1>7 DEF WorkedOff, AppliesAsWritten

LEMMA LineWritten ==
    ASSUME IInv, WorkedOff, AddLine \/ KeepLine \/ DropLine
    PROVE  WorkedOff'
<1> DEFINE text == source.lines
           hs == patch.hunks
           k == hunk - 1
           n == line - 1
           h == hs[k + 1]
<1>1. text \in Seq(Line) /\ hs \in Seq(Hunk) /\ k \in Nat /\ k + 1 = hunk
      /\ cursor \in Nat /\ Current = h /\ n \in Nat /\ n + 1 = line /\ (line + 1) - 1 = n + 1
      /\ output \in Seq(Line)
    BY Applied
<1>2. /\ status = "lines" /\ status' = "lines" /\ UNCHANGED <<source, patch, hunk>>
      /\ line' = line + 1 /\ n + 1 <= Len(h.lines) /\ line' - 1 = n + 1
    BY <1>1 DEF AddLine, KeepLine, DropLine, Reading
<1>3. InHunk(text, hs, k, n, cursor, output)
    BY <1>2 DEF WorkedOff
<1>4. PICK c \in Nat, o \in Seq(Line) :
        /\ Opened(text, hs, k, c, o)
        /\ Through(text, h, n, cursor, output, o \o SubSeq(text, c + 1, Start(h)))
    BY <1>3 DEF InHunk
<1> DEFINE before == o \o SubSeq(text, c + 1, Start(h))
<1>5. h \in Hunk /\ before \in Seq(Line)
    <2>1. h \in Hunk /\ c <= Start(h) /\ Start(h) <= Len(text)
        BY <1>1, <1>4, ElementOfSeq DEF Opened
    <2>2. Start(h) \in Nat
        BY <1>4, <2>1, HunkTyped
    <2>3. SubSeq(text, c + 1, Start(h)) \in Seq(Line)
        BY <1>1, <1>4, <2>1, <2>2, Slice
    <2> QED
        BY <1>4, <2>1, <2>3, ConcatProperties
<1> HIDE DEF h, before
<1>6. Through(text, h, n + 1, cursor', output', before)
    <2>1. Through(text, h, n, cursor, output, before)
        BY <1>4 DEF before, h
    <2>2. CASE AddLine
        <3>1. /\ h.lines[n + 1].operation = "+" /\ cursor' = cursor
              /\ output' = Append(output, h.lines[n + 1].content)
            BY <1>1, <2>2 DEF AddLine, Reading
        <3> QED
            BY <1>1, <1>2, <1>5, <2>1, <3>1, ThroughAdded
    <2>3. CASE KeepLine
        <3>1. /\ h.lines[n + 1].operation = " " /\ cursor' = cursor + 1
              /\ output' = Append(output, h.lines[n + 1].content)
              /\ cursor < Len(text) /\ text[cursor + 1] = h.lines[n + 1].content
            BY <1>1, <2>3 DEF KeepLine, Reading, Matches
        <3> QED
            BY <1>1, <1>2, <1>5, <2>1, <3>1, ThroughOld
    <2>4. CASE DropLine
        <3>1. /\ h.lines[n + 1].operation = "-" /\ cursor' = cursor + 1
              /\ output' = output
              /\ cursor < Len(text) /\ text[cursor + 1] = h.lines[n + 1].content
            BY <1>1, <2>4 DEF DropLine, Reading, Matches
        <3> QED
            BY <1>1, <1>2, <1>5, <2>1, <3>1, ThroughOld
    <2> QED
        BY <2>2, <2>3, <2>4
<1>7. InHunk(text, hs, k, n + 1, cursor', output')
    BY <1>4, <1>6 DEF InHunk, before, h
<1>8. InHunk(source.lines, patch.hunks, hunk - 1, line - 1, cursor, output)'
    BY <1>2, <1>7
<1> QED
    BY <1>2, <1>8 DEF WorkedOff, AppliesAsWritten

LEMMA CloseWritten ==
    ASSUME IInv, WorkedOff, CloseHunk
    PROVE  WorkedOff'
<1> DEFINE text == source.lines
           hs == patch.hunks
           k == hunk - 1
<1>1. text \in Seq(Line) /\ hs \in Seq(Hunk) /\ k \in Nat /\ k + 1 = hunk
      /\ Current = hs[k + 1] /\ (hunk + 1) - 1 = k + 1 /\ line - 1 \in Nat /\ line \in Nat
    BY Applied
<1>2. /\ status = "lines" /\ status' = "hunks" /\ hunk' = hunk + 1
      /\ UNCHANGED <<source, patch, line, cursor, output>> /\ line > Len(hs[k + 1].lines)
    BY <1>1 DEF CloseHunk
<1>3. InHunk(text, hs, k, line - 1, cursor, output)
    BY <1>2 DEF WorkedOff
<1>4. line - 1 = Len(hs[k + 1].lines)
    <2>1. line - 1 <= Len(hs[k + 1].lines) /\ hs[k + 1] \in Hunk
        <3>1. k + 1 \in 1 .. Len(hs) /\ line - 1 \in 0 .. Len(hs[k + 1].lines)
            BY <1>3 DEF InHunk, Opened, Through
        <3>2. hs[k + 1] \in Hunk
            BY <1>1, <3>1, ElementOfSeq
        <3> QED
            BY <3>1, <3>2
    <2>2. Len(hs[k + 1].lines) \in Nat
        BY <2>1, HunkTyped
    <2> DEFINE L == Len(hs[k + 1].lines)
    <2>3. line > L /\ line - 1 <= L /\ L \in Nat /\ line \in Nat
        BY <1>1, <1>2, <2>1, <2>2
    <2> HIDE DEF L
    <2>4. line - 1 = L
        BY <2>3
    <2> QED
        BY <2>4 DEF L
<1>5. DoneTo(text, hs, k + 1, cursor, output)
    BY <1>1, <1>3, <1>4, HunkCloses
<1>6. DoneTo(source.lines, patch.hunks, hunk - 1, cursor, output)'
    BY <1>1, <1>2, <1>5
<1> QED
    BY <1>2, <1>6 DEF WorkedOff, AppliesAsWritten

LEMMA FinishWritten ==
    ASSUME IInv, WorkedOff, Finish
    PROVE  WorkedOff'
<1> DEFINE text == source.lines
           hs == patch.hunks
           k == hunk - 1
<1>1. text \in Seq(Line) /\ hs \in Seq(Hunk) /\ k \in Nat /\ k + 1 = hunk
      /\ Len(hs) \in Nat /\ cursor \in Nat
    BY Applied
<1>2. status = "hunks" /\ hunk > Len(hs) /\ UNCHANGED <<source, patch>>
      /\ output' = output \o SubSeq(text, cursor + 1, Len(text))
      /\ status' = IF patch.operation = "delete" /\ Text(output') # <<>>
                   THEN "refused" ELSE "done"
    BY DEF Finish, Rest
<1>3. DoneTo(text, hs, k, cursor, output) /\ source.exists = (patch.operation # "create")
    BY <1>2 DEF WorkedOff
<1>4. k = Len(hs)
    <2>1. k \in 0 .. Len(hs)
        BY <1>3 DEF DoneTo
    <2> QED
        BY <1>1, <1>2, <2>1
<1>5. Fits(text, hs) /\ Patched(text, hs) = output'
    <2>1. DoneTo(text, hs, Len(hs), cursor, output)
        BY <1>3, <1>4
    <2>2. /\ Fits(text, hs)
          /\ Patched(text, hs) = output \o SubSeq(text, cursor + 1, Len(text))
        BY <1>1, <2>1, AllDone
    <2> QED
        BY <1>2, <2>2
<1>6. CASE patch.operation = "delete" /\ Text(output') # <<>>
    <2>1. ~Applies(source, patch) /\ status' = "refused"
        BY <1>2, <1>5, <1>6 DEF Applies
    <2> QED
        BY <1>2, <2>1 DEF WorkedOff, AppliesAsWritten
<1>7. CASE ~(patch.operation = "delete" /\ Text(output') # <<>>)
    <2>1. Applies(source, patch) /\ status' = "done"
        BY <1>2, <1>3, <1>5, <1>7 DEF Applies
    <2> QED
        BY <1>2, <1>3, <1>5, <2>1 DEF WorkedOff, AppliesAsWritten
<1> QED
    BY <1>6, <1>7

\* A refusal has a reason.
LEMMA RefuseWritten ==
    ASSUME IInv, WorkedOff, RefuseHunk \/ RefuseLine
    PROVE  WorkedOff'
<1> DEFINE text == source.lines
           hs == patch.hunks
           k == hunk - 1
           n == line - 1
<1>1. text \in Seq(Line) /\ hs \in Seq(Hunk) /\ k \in Nat /\ k + 1 = hunk
      /\ n \in Nat /\ n + 1 = line /\ Current = hs[k + 1] /\ cursor \in Nat
    BY Applied
<1>2. status' = "refused" /\ UNCHANGED <<source, patch>>
    BY DEF RefuseHunk, RefuseLine
<1>3. ASSUME RefuseHunk PROVE ~Fits(text, hs)
    <2>1. DoneTo(text, hs, k, cursor, output) /\ k + 1 <= Len(hs)
        BY <1>1, <1>3 DEF RefuseHunk, WorkedOff
    <2>2. ~Follows(text, hs, k, cursor, output)
        BY <1>1, <1>3 DEF RefuseHunk, Reachable, InPosition, Between, Follows
    <2> HIDE DEF text, hs, k
    <2> QED
        BY <1>1, <2>1, <2>2, FittingOpens
<1>4. ASSUME RefuseLine PROVE ~Fits(text, hs)
    <2>1. InHunk(text, hs, k, n, cursor, output)
        BY <1>4 DEF RefuseLine, Reading, WorkedOff
    <2>2. n + 1 <= Len(hs[k + 1].lines)
          /\ IsOld(hs[k + 1].lines[n + 1])
          /\ ~Holds(text, cursor, hs[k + 1].lines[n + 1].content)
        BY <1>1, <1>4 DEF RefuseLine, Reading, Matches, IsOld, Holds
    <2> HIDE DEF text, hs, k, n
    <2> QED
        BY <1>1, <2>1, <2>2, FittingMatches
<1>5. ~Applies(source, patch)
    BY <1>3, <1>4 DEF Applies
<1> QED
    BY <1>2, <1>5 DEF WorkedOff, AppliesAsWritten

LEMMA NextWritten == IInv /\ WorkedOff /\ [PatchNext]_patchVars => WorkedOff'
<1> SUFFICES ASSUME IInv, WorkedOff, [PatchNext]_patchVars PROVE WorkedOff'
    OBVIOUS
<1>1. CASE UNCHANGED patchVars
    BY <1>1 DEF patchVars, WorkedOff, AppliesAsWritten
<1> QED
    BY <1>1, BeginWritten, OpenWritten, LineWritten, CloseWritten, FinishWritten,
       RefuseWritten DEF PatchNext, ApplyStep

\* For every file and every patch of it: the patch is accepted exactly if all
\* of its hunks are found where they say, none overlapping another, and what
\* comes out is the file with each hunk's old lines replaced by its new ones;
\* working the hunks off one after the other, line by line, moves nothing.
THEOREM PatchedAsWritten == PatchSpec => []AppliesAsWritten
<1>1. PatchInit => WorkedOff
    BY DEF PatchInit, WorkedOff, AppliesAsWritten
<1>2. IInv /\ IInv' /\ WorkedOff /\ [PatchNext]_patchVars => WorkedOff'
    BY NextWritten
<1>3. WorkedOff => AppliesAsWritten
    BY DEF WorkedOff
<1> QED
    BY <1>1, <1>2, <1>3, Invariance, PTL DEF PatchSpec

=============================================================================
