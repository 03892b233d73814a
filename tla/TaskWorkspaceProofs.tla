-------------------------- MODULE TaskWorkspaceProofs --------------------------
(***************************************************************************)
(* Proofs about the texts of a task, for every directory, every .gitignore *)
(* language, every set of files and of proposals and every number of       *)
(* edits: of SourceSnapshot, of the operators of Texts and UnifiedDiff,    *)
(* and of TaskWorkspace, which composes the copy and the patches.          *)
(*                                                                         *)
(* The copy.  CopiedWhole needs to know what the comparison at the end of  *)
(* a file establishes: while an inode's time is the one seen when it was   *)
(* opened, its contents are those of the path at that moment, and what was *)
(* read so far is their beginning (ReadSoFar).  That an edit changes the   *)
(* time of no other path's inode (Linked) and always to a later one        *)
(* (Timed) makes this inductive.  IgnoredStaysOut needs that nothing is    *)
(* copied before the rules are known (Early) and that a file being read is *)
(* not left out.                                                           *)
(*                                                                         *)
(* Texts, scripts and hunks.  What a line does is shown for one line and   *)
(* then for all of them by Induction (FilePatchesProofs): the parser       *)
(* yields file patches or fails; every line of both files is in a script;  *)
(* the hunks of a script, applied to the one file, give the other          *)
(* (HunksReproduce).                                                       *)
(*                                                                         *)
(* Reading what was written (DiffRoundTrip).  A payload is read while it   *)
(* is written: Reads(d, s) says that d ends with a line and that the       *)
(* parser, having read it, is in state s.  A line, a marker, a hunk, a     *)
(* file and the files in their order each lead from one such pair to the   *)
(* next; what the parser has got is compared with what was written in      *)
(* InBody, BetweenHunks and AllRead.                                       *)
(*                                                                         *)
(* The composition.  A snapshot step leaves the patches alone and the      *)
(* other way round; HandOver needs that the copy is one file at most of    *)
(* each name, and that the application rests until somebody applies        *)
(* (Resting).  For the way back (ReturnInv) every workspace is cut into    *)
(* lines (AllCut), nothing is handed over while somebody applies           *)
(* (HandedOver), and what the user has applied so far is the task's last   *)
(* workspace in every path that is not left to be patched (ToGo).          *)
(*                                                                         *)
(* What a proposal does (AllOrNothing) needs that staging is what its      *)
(* first patches made of the last workspace, and that the others are the   *)
(* ones pending (AsProposed).                                              *)
(***************************************************************************)
EXTENDS TaskWorkspace, FilePatchesProofs, FiniteSetTheorems


Handling == {"open", "read", "verify"}

Linked == \A m, n \in Names : m # n /\ dir[m] = dir[n] => dir[m] = 0

Holding == \A n \in Names : dir[n] # 0 => inode[dir[n]].parts \in held[n]

Timed == \A i \in Inodes : inode[i].time <= edits

ReadSoFar ==
    step \in {"read", "verify"} =>
        /\ fd \in Inodes /\ opened <= inode[fd].time
        /\ opened = inode[fd].time =>
              /\ inode[fd].parts \in held[name]
              /\ Len(got) <= Len(inode[fd].parts)
              /\ \A k \in 1 .. Len(got) : got[k] = inode[fd].parts[k]
              /\ step = "verify" => Len(got) = Len(inode[fd].parts)

Copying == rules \subseteq held[Ignore] /\ CopiedWhole

Early ==
    /\ step \in {"rules", "list"} \/ (step \in Handling /\ name = Ignore) =>
          copied = Nothing
    /\ step = "rules" => name = Ignore

Excluding ==
    /\ copied[Ignore] \subseteq rules
    /\ \A n \in Names : copied[n] # {} => ~LeftOut(n)
    /\ step \in Handling /\ name # Ignore => ~LeftOut(name)

SnapshotInv == /\ SnapshotTypeOK /\ Linked /\ Holding /\ Timed
        /\ ReadSoFar /\ Copying /\ Early /\ Excluding

-----------------------------------------------------------------------------
LEMMA InitHolds == SnapshotInit => SnapshotInv
<1> SUFFICES ASSUME SnapshotInit PROVE SnapshotInv
  OBVIOUS
<1> USE SnapshotAssumption DEF SnapshotInit
<1>1. inode \in [Inodes -> Inode]
  <2>1. \A n \in Names : Contents[n] \subseteq Seq(Seq(Line))
    OBVIOUS
  <2>2. <<>> \in Seq(Seq(Line))
    OBVIOUS
  <2>3. UNION {Contents[n] : n \in Names} \subseteq Seq(Seq(Line))
    BY <2>1
  <2>4. \A i \in Inodes : inode[i] \in Inode
    <3> SUFFICES ASSUME NEW i \in Inodes PROVE inode[i] \in Inode
      OBVIOUS
    <3>1. inode[i].parts \in Seq(Seq(Line)) /\ inode[i].time = 0
      BY <2>2, <2>3
    <3>2. inode[i] = [parts |-> inode[i].parts, time |-> inode[i].time]
      OBVIOUS
    <3> QED BY <3>1, <3>2 DEF Inode
  <2> QED BY <2>4
<1>2. held \in [Names -> SUBSET Seq(Seq(Line))]
  <2>1. \A n \in Names : dir[n] # 0 => ContentsOf(n) \in Seq(Seq(Line))
    OBVIOUS
  <2> QED BY <2>1
<1>3. copied \in [Names -> SUBSET Seq(Seq(Line))] /\ copied = Nothing
  BY DEF Nothing
<1>4. SnapshotTypeOK
  BY <1>1, <1>2, <1>3 DEF SnapshotTypeOK, Running
<1>5. Linked /\ Holding /\ Timed
  <2>1. \A i \in Inodes : inode[i].time = 0
    OBVIOUS
  <2>2. Linked
    BY DEF Linked
  <2>3. Holding
    BY DEF Holding, ContentsOf
  <2> QED BY <2>1, <2>2, <2>3 DEF Timed
<1>6. ReadSoFar /\ Early
  BY <1>3 DEF ReadSoFar, Early
<1>7. Copying /\ Excluding
  BY <1>3 DEF Copying, CopiedWhole, Excluding, Nothing, Handling
<1> QED BY <1>4, <1>5, <1>6, <1>7 DEF SnapshotInv

\* An edit of the user's: its inode is of no other path and gets a time later
\* than every earlier one.
LEMMA EditKeeps ==
    ASSUME NEW n \in Names, NEW i \in Inodes, NEW contents \in Contents[n], SnapshotInv,
           Edit(n, i, contents), \A m \in Names \ {n} : dir[m] # i
    PROVE SnapshotInv'
<1> USE SnapshotAssumption DEF SnapshotInv, Edit, userVars, fileVars
<1>0. contents \in Seq(Seq(Line)) /\ edits \in Nat /\ edits + 1 \in Nat
  <2>1. Contents[n] \in SUBSET Seq(Seq(Line))
    OBVIOUS
  <2>2. edits \in Nat
    BY DEF SnapshotTypeOK
  <2>3. edits + 1 \in Nat
    BY <2>2
  <2> QED BY <2>1, <2>2, <2>3
<1>1. inode' \in [Inodes -> Inode]
  BY <1>0 DEF SnapshotTypeOK, Inode
<1>2. held' \in [Names -> SUBSET Seq(Seq(Line))]
  BY <1>0 DEF SnapshotTypeOK
<1>3. SnapshotTypeOK'
  BY <1>0, <1>1, <1>2 DEF SnapshotTypeOK
<1>4. \A m \in Names : held[m] \subseteq held'[m]
  <2> SUFFICES ASSUME NEW m \in Names PROVE held[m] \subseteq held'[m]
    OBVIOUS
  <2>1. held' = [held EXCEPT ![n] = held[n] \cup {contents}] /\ DOMAIN held = Names
    BY DEF SnapshotTypeOK
  <2>2. CASE m = n
    BY <2>1, <2>2
  <2>3. CASE m # n
    BY <2>1, <2>3
  <2> QED BY <2>2, <2>3
<1>5. Linked'
  BY DEF Linked, SnapshotTypeOK
<1>6. Holding'
  BY <1>4 DEF Holding, SnapshotTypeOK
<1>7. Timed'
  <2> SUFFICES ASSUME NEW j \in Inodes PROVE inode'[j].time <= edits + 1
    BY DEF Timed
  <2>1. inode[j].time \in Nat /\ inode[j].time <= edits
    BY DEF Timed, SnapshotTypeOK, Inode
  <2>2. j # i => inode'[j] = inode[j]
    BY DEF SnapshotTypeOK
  <2>3. j = i => inode'[j].time = edits + 1
    BY DEF SnapshotTypeOK
  <2> QED BY <1>0, <2>1, <2>2, <2>3
<1>8. ReadSoFar'
  <2> SUFFICES ASSUME step' \in {"read", "verify"}
               PROVE  ReadSoFar'
    BY DEF ReadSoFar
  <2>1. fd \in Inodes /\ opened <= inode[fd].time /\ name \in Names /\ opened \in Nat
    BY DEF ReadSoFar, SnapshotTypeOK
  <2>2. CASE fd = i
    <3>1. inode'[fd].time = edits + 1
      BY <2>1, <2>2 DEF SnapshotTypeOK
    <3>2. inode[fd].time <= edits /\ inode[fd].time \in Nat
      BY <2>1 DEF Timed, SnapshotTypeOK, Inode
    <3> QED BY <2>1, <3>1, <3>2, <1>0 DEF ReadSoFar
  <2>3. CASE fd # i
    <3>1. inode'[fd] = inode[fd]
      BY <2>1, <2>3 DEF SnapshotTypeOK
    <3> QED BY <2>1, <3>1, <1>4 DEF ReadSoFar
  <2> QED BY <2>2, <2>3
<1>9. Copying'
  BY <1>4 DEF Copying, CopiedWhole
<1>10. Early' /\ Excluding'
  BY DEF Early, Excluding, LeftOut
<1> QED BY <1>3, <1>5, <1>6, <1>7, <1>8, <1>9, <1>10

LEMMA DeleteKeeps ==
    ASSUME NEW n \in Names, SnapshotInv, Delete(n)
    PROVE SnapshotInv'
<1> USE SnapshotAssumption DEF SnapshotInv, Delete, userVars, fileVars
<1>0. edits \in Nat /\ edits + 1 \in Nat /\ dir' \in [Names -> Inodes \cup {0}]
  <2>1. edits \in Nat /\ dir \in [Names -> Inodes \cup {0}]
    BY DEF SnapshotTypeOK
  <2>2. edits + 1 \in Nat
    BY <2>1
  <2>3. dir' = [dir EXCEPT ![n] = 0]
    OBVIOUS
  <2> QED BY <2>1, <2>2, <2>3
<1>1. SnapshotTypeOK'
  BY <1>0 DEF SnapshotTypeOK
<1>2. Linked' /\ Holding'
  BY DEF Linked, Holding, SnapshotTypeOK
<1>3. Timed'
  <2>1. \A i \in Inodes : inode[i].time \in Nat /\ inode[i].time <= edits
    BY DEF Timed, SnapshotTypeOK, Inode
  <2> QED BY <1>0, <2>1 DEF Timed
<1>4. ReadSoFar'
  BY DEF ReadSoFar
<1>5. Copying'
  BY DEF Copying, CopiedWhole
<1>6. Early' /\ Excluding'
  BY DEF Early, Excluding, LeftOut
<1> QED BY <1>1, <1>2, <1>3, <1>4, <1>5, <1>6

LEMMA UserKeeps == ASSUME SnapshotInv, UserStep PROVE SnapshotInv'
<1>1. ASSUME NEW n \in Names, Delete(n) PROVE SnapshotInv'
  BY <1>1, DeleteKeeps
<1>2. ASSUME NEW n \in Names, NEW contents \in Contents[n], Rewrite(n, contents)
      PROVE SnapshotInv'
  <2>1. dir[n] \in Inodes /\ \A m \in Names \ {n} : dir[m] # dir[n]
    BY <1>2 DEF Rewrite, SnapshotInv, SnapshotTypeOK, Linked
  <2> QED BY <1>2, <2>1, EditKeeps DEF Rewrite
<1>3. ASSUME NEW n \in Names, NEW contents \in Contents[n], NEW i \in Inodes,
             Replace(n, i, contents)
      PROVE SnapshotInv'
  BY <1>3, EditKeeps DEF Replace
<1> QED BY <1>1, <1>2, <1>3 DEF UserStep

-----------------------------------------------------------------------------
(* Steps of the copy leave the user's files and what they held alone.      *)

LEMMA UserUntouched ==
    ASSUME SnapshotInv, UNCHANGED userVars
    PROVE Linked' /\ Holding' /\ Timed'
BY DEF SnapshotInv, userVars, Linked, Holding, Timed

LEMMA FailedKeeps == ASSUME SnapshotInv, Failed PROVE SnapshotInv'
<1> USE SnapshotAssumption DEF SnapshotInv, Failed, Closed
<1>1. Linked' /\ Holding' /\ Timed'
  BY UserUntouched
<1>2. SnapshotTypeOK'
  <2>1. Nothing \in [Names -> SUBSET Seq(Seq(Line))] /\ <<>> \in Seq(Seq(Line))
    BY DEF Nothing
  <2> QED BY <2>1 DEF SnapshotTypeOK, userVars
<1>3. ReadSoFar' /\ Early'
  BY DEF ReadSoFar, Early, Handling, Nothing
<1>4. Copying' /\ Excluding'
  BY DEF Copying, CopiedWhole, Excluding, Nothing, Handling, userVars
<1> QED BY <1>1, <1>2, <1>3, <1>4

LEMMA KeepType ==
    ASSUME SnapshotTypeOK, NEW n \in Names, NEW contents \in Seq(Seq(Line)),
           Keep(n, contents)
    PROVE /\ step' \in {"entries", "failed"}
          /\ copied' \in [Names -> SUBSET Seq(Seq(Line))]
          /\ \A m \in Names : copied'[m] \subseteq copied[m] \cup {c \in {contents} : m = n}
<1>1. \/ copied' = [copied EXCEPT ![n] = {contents}] /\ step' = "entries"
      \/ copied' = Nothing /\ step' = "failed"
  BY DEF Keep
<1>2. CASE copied' = [copied EXCEPT ![n] = {contents}] /\ step' = "entries"
  BY <1>2 DEF SnapshotTypeOK
<1>3. CASE copied' = Nothing /\ step' = "failed"
  BY <1>3 DEF Nothing
<1> QED BY <1>1, <1>2, <1>3

LEMMA FileKeeps ==
    ASSUME SnapshotInv, FileCopied
    PROVE SnapshotInv'
<1> USE SnapshotAssumption DEF SnapshotInv, FileCopied
<1>1. Linked' /\ Holding' /\ Timed'
  BY UserUntouched
<1>2. name \in Names /\ got \in Seq(Seq(Line)) /\ SnapshotTypeOK
  BY DEF SnapshotTypeOK
<1>3. /\ step' \in {"entries", "failed"}
      /\ copied' \in [Names -> SUBSET Seq(Seq(Line))]
      /\ \A m \in Names : copied'[m] \subseteq copied[m] \cup {c \in {got} : m = name}
  BY <1>2, KeepType
<1>4. got \in held[name]
  <2>1. fd \in Inodes /\ inode[fd].parts \in held[name]
        /\ Len(got) = Len(inode[fd].parts)
        /\ \A k \in 1 .. Len(got) : got[k] = inode[fd].parts[k]
    BY DEF ReadSoFar, SameVersion
  <2>2. inode[fd].parts \in Seq(Seq(Line))
    BY <2>1 DEF SnapshotTypeOK, Inode
  <2>3. got = inode[fd].parts
    BY <1>2, <2>1, <2>2, SeqEqual
  <2> QED BY <2>1, <2>3
<1>5. SnapshotTypeOK'
  <2>1. <<>> \in Seq(Seq(Line))
    OBVIOUS
  <2>2. seen' = 0 /\ fd' = 0 /\ opened' = 0 /\ got' = <<>>
    BY DEF Closed
  <2> QED BY <1>3, <2>1, <2>2 DEF SnapshotTypeOK, userVars, Running
<1>6. ReadSoFar' /\ Early'
  BY <1>3 DEF ReadSoFar, Early, Handling
<1>7. Copying'
  BY <1>2, <1>3, <1>4 DEF Copying, CopiedWhole, userVars
<1>8. Excluding'
  BY <1>2, <1>3 DEF Excluding, LeftOut, Handling
<1> QED BY <1>1, <1>5, <1>6, <1>7, <1>8

LEMMA RulesKeep == ASSUME SnapshotInv, CopyRules PROVE SnapshotInv'
<1> USE SnapshotAssumption DEF SnapshotInv, CopyRules
<1>1. Linked' /\ Holding' /\ Timed'
  BY UserUntouched
<1>2. SnapshotTypeOK /\ Ignore \in Names /\ rules \subseteq Seq(Seq(Line))
  BY DEF SnapshotTypeOK
<1>3. CASE LeftOut(Ignore)
  <2>1. SnapshotTypeOK'
    BY <1>3 DEF SnapshotTypeOK, fileVars, userVars
  <2>2. ReadSoFar' /\ Early'
    BY <1>3 DEF ReadSoFar, Early, Handling
  <2>3. Copying'
    BY <1>3 DEF Copying, CopiedWhole, userVars
  <2>4. Excluding'
    BY <1>3 DEF Excluding, LeftOut, Handling
  <2> QED BY <1>1, <2>1, <2>2, <2>3, <2>4
<1>4. CASE ~LeftOut(Ignore)
  <2>1. PICK contents \in rules : Keep(Ignore, contents)
    BY <1>4 DEF Payload
  <2>2. /\ step' \in {"entries", "failed"}
        /\ copied' \in [Names -> SUBSET Seq(Seq(Line))]
        /\ \A m \in Names :
              copied'[m] \subseteq copied[m] \cup {c \in {contents} : m = Ignore}
    BY <1>2, <2>1, KeepType
  <2>3. SnapshotTypeOK'
    BY <2>2 DEF SnapshotTypeOK, fileVars, userVars, Running
  <2>4. ReadSoFar' /\ Early'
    BY <2>2 DEF ReadSoFar, Early, Handling
  <2>5. Copying'
    BY <1>2, <2>1, <2>2 DEF Copying, CopiedWhole, userVars
  <2>6. Excluding'
    BY <1>2, <1>4, <2>1, <2>2 DEF Excluding, LeftOut, Handling
  <2> QED BY <1>1, <2>3, <2>4, <2>5, <2>6
<1> QED BY <1>3, <1>4

LEMMA OpenKeeps == ASSUME SnapshotInv, Open PROVE SnapshotInv'
<1> USE SnapshotAssumption DEF SnapshotInv, Open
<1>1. Linked' /\ Holding' /\ Timed'
  BY UserUntouched
<1>2. dir[name] \in Inodes /\ inode[dir[name]] \in Inode /\ name \in Names
  BY DEF SnapshotTypeOK
<1>3. SnapshotTypeOK'
  BY <1>2 DEF SnapshotTypeOK, userVars, Running, Inode
<1>4. ReadSoFar'
  <2>1. Len(got') = 0 /\ Len(inode[fd'].parts) \in Nat
    BY <1>2 DEF Inode
  <2> QED BY <1>2, <2>1 DEF ReadSoFar, userVars, Holding, Inode
<1>5. Early' /\ Excluding'
  BY DEF Early, Excluding, LeftOut, Handling, Nothing
<1>6. Copying'
  BY DEF Copying, CopiedWhole, userVars
<1> QED BY <1>1, <1>3, <1>4, <1>5, <1>6

LEMMA ReadKeeps == ASSUME SnapshotInv, Read PROVE SnapshotInv'
<1> USE SnapshotAssumption DEF SnapshotInv, Read
<1>1. Linked' /\ Holding' /\ Timed'
  BY UserUntouched
<1>2. fd \in Inodes /\ inode[fd].parts \in Seq(Seq(Line)) /\ got \in Seq(Seq(Line))
  BY DEF ReadSoFar, SnapshotTypeOK, Inode
<1>3. Len(got) + 1 \in 1 .. Len(inode[fd].parts)
  BY <1>2 DEF MorePieces
<1>4. inode[fd].parts[Len(got) + 1] \in Seq(Line)
  BY <1>2, <1>3
<1>5. SnapshotTypeOK'
  BY <1>2, <1>4 DEF SnapshotTypeOK, userVars
<1>6. ReadSoFar'
  <2>1. Len(got') = Len(got) + 1 /\ got'[Len(got) + 1] = inode[fd].parts[Len(got) + 1]
        /\ \A k \in 1 .. Len(got) : got'[k] = got[k]
    BY <1>2, <1>4
  <2>2. fd' = fd /\ opened' = opened /\ inode' = inode /\ held' = held
        /\ name' = name /\ step' = "read"
    BY DEF userVars
  <2>3. /\ opened <= inode[fd].time
        /\ opened = inode[fd].time =>
              /\ inode[fd].parts \in held[name]
              /\ \A k \in 1 .. Len(got) : got[k] = inode[fd].parts[k]
    BY DEF ReadSoFar
  <2>4. Len(got) \in Nat /\ Len(got') <= Len(inode[fd].parts)
    BY <1>2, <1>3, <2>1
  <2>5. opened = inode[fd].time =>
            \A k \in 1 .. Len(got') : got'[k] = inode[fd].parts[k]
    BY <2>1, <2>3, <2>4
  <2> QED BY <1>2, <2>2, <2>3, <2>4, <2>5 DEF ReadSoFar
<1>7. Early' /\ Excluding'
  BY DEF Early, Excluding, LeftOut, Handling, Nothing
<1>8. Copying'
  BY DEF Copying, CopiedWhole, userVars
<1> QED BY <1>1, <1>5, <1>6, <1>7, <1>8

LEMMA EndOfFileKeeps == ASSUME SnapshotInv, EndOfFile PROVE SnapshotInv'
<1> USE SnapshotAssumption DEF SnapshotInv, EndOfFile, fileVars
<1>1. Linked' /\ Holding' /\ Timed'
  BY UserUntouched
<1>2. SnapshotTypeOK'
  BY DEF SnapshotTypeOK, userVars, Running
<1>3. ReadSoFar'
  <2>1. fd \in Inodes /\ inode[fd].parts \in Seq(Seq(Line)) /\ got \in Seq(Seq(Line))
    BY DEF ReadSoFar, SnapshotTypeOK, Inode
  <2>2. Len(got) \in Nat /\ Len(inode[fd].parts) \in Nat /\ Len(got) >= Len(inode[fd].parts)
    BY <2>1 DEF MorePieces
  <2>3. fd' = fd /\ opened' = opened /\ got' = got /\ inode' = inode /\ held' = held
        /\ name' = name
    BY DEF userVars
  <2>4. /\ opened <= inode[fd].time
        /\ opened = inode[fd].time =>
              /\ inode[fd].parts \in held[name]
              /\ Len(got) <= Len(inode[fd].parts)
              /\ \A k \in 1 .. Len(got) : got[k] = inode[fd].parts[k]
    BY DEF ReadSoFar
  <2>5. opened = inode[fd].time => Len(got) = Len(inode[fd].parts)
    BY <2>2, <2>4
  <2> QED BY <2>1, <2>3, <2>4, <2>5 DEF ReadSoFar
<1>4. Early' /\ Excluding'
  BY DEF Early, Excluding, LeftOut, Handling, Nothing
<1>5. Copying'
  BY DEF Copying, CopiedWhole, userVars
<1> QED BY <1>1, <1>2, <1>3, <1>4, <1>5

LEMMA RulesReadKeeps == ASSUME SnapshotInv, RulesRead PROVE SnapshotInv'
<1> USE SnapshotAssumption DEF SnapshotInv, RulesRead, Closed
<1>1. Linked' /\ Holding' /\ Timed'
  BY UserUntouched
<1>2. SnapshotTypeOK'
  BY DEF SnapshotTypeOK, userVars, Running
<1>3. got \in held[Ignore]
  <2>1. fd \in Inodes /\ inode[fd].parts \in held[Ignore]
        /\ Len(got) = Len(inode[fd].parts)
        /\ \A k \in 1 .. Len(got) : got[k] = inode[fd].parts[k]
    BY DEF ReadSoFar, SameVersion
  <2>2. inode[fd].parts \in Seq(Seq(Line)) /\ got \in Seq(Seq(Line))
    BY <2>1 DEF SnapshotTypeOK, Inode
  <2>3. got = inode[fd].parts
    BY <2>1, <2>2, SeqEqual
  <2> QED BY <2>1, <2>3
<1>4. copied = Nothing
  BY DEF Early, Handling
<1>5. ReadSoFar' /\ Early'
  BY <1>4 DEF ReadSoFar, Early, Handling, Nothing
<1>6. Copying'
  BY <1>3 DEF Copying, CopiedWhole, userVars
<1>7. Excluding'
  BY <1>4 DEF Excluding, Nothing, Handling
<1> QED BY <1>1, <1>2, <1>5, <1>6, <1>7

\* The steps between two files.
LEMMA BetweenKeeps ==
    ASSUME SnapshotInv, NEW n \in Names,
           InspectRules \/ List \/ Inspect(n) \/ Complete \/ Interrupt
    PROVE SnapshotInv'
<1> USE SnapshotAssumption DEF SnapshotInv
<1>0. UNCHANGED userVars
  BY DEF InspectRules, List, Inspect, Complete, Interrupt
<1>1. Linked' /\ Holding' /\ Timed'
  BY <1>0, UserUntouched
<1>2. CASE InspectRules
  <2> USE <1>2 DEF InspectRules
  <2>1. SnapshotTypeOK'
    BY DEF SnapshotTypeOK, userVars, Running
  <2>2. ReadSoFar' /\ Copying'
    BY DEF ReadSoFar, Copying, CopiedWhole, userVars
  <2>3. name = Ignore /\ copied = Nothing
    BY DEF Early
  <2>4. Early' /\ Excluding'
    BY <2>3 DEF Early, Excluding, LeftOut, Handling, Nothing
  <2> QED BY <1>1, <2>1, <2>2, <2>4
<1>3. CASE List
  <2> USE <1>3 DEF List
  <2>1. SnapshotTypeOK'
    BY DEF SnapshotTypeOK, userVars, fileVars, Running
  <2>2. ReadSoFar' /\ Copying'
    BY DEF ReadSoFar, Copying, CopiedWhole, userVars
  <2>3. Early' /\ Excluding'
    BY DEF Early, Excluding, LeftOut, Handling
  <2> QED BY <1>1, <2>1, <2>2, <2>3
<1>4. CASE Inspect(n)
  <2> USE <1>4 DEF Inspect
  <2>1. SnapshotTypeOK'
    BY DEF SnapshotTypeOK, userVars, Running
  <2>2. ReadSoFar' /\ Copying'
    BY DEF ReadSoFar, Copying, CopiedWhole, userVars
  <2>3. Early' /\ Excluding'
    BY DEF Early, Excluding, LeftOut, Handling
  <2> QED BY <1>1, <2>1, <2>2, <2>3
<1>5. CASE Complete \/ Interrupt
  <2> USE <1>5 DEF Complete, Interrupt, Closed
  <2>1. SnapshotTypeOK'
    <3>1. <<>> \in Seq(Seq(Line))
      OBVIOUS
    <3>2. CASE Complete
      BY <3>2 DEF SnapshotTypeOK, userVars, fileVars
    <3>3. CASE Interrupt
      BY <3>1, <3>3 DEF SnapshotTypeOK, userVars
    <3> QED BY <3>2, <3>3
  <2>2. ReadSoFar' /\ Copying'
    BY DEF ReadSoFar, Copying, CopiedWhole, userVars
  <2>3. Early' /\ Excluding'
    BY DEF Early, Excluding, LeftOut, Handling
  <2> QED BY <1>1, <2>1, <2>2, <2>3
<1> QED BY <1>2, <1>3, <1>4, <1>5

LEMMA CopyKeeps == ASSUME SnapshotInv, CopyStep PROVE SnapshotInv'
<1>1. CASE OpenFails \/ Changed \/ LateRules \/ \E n \in Names : InspectFails(n)
  BY <1>1, FailedKeeps DEF OpenFails, Changed, LateRules, InspectFails
<1>2. CASE InspectRules \/ List \/ Complete \/ Interrupt \/ \E n \in Names : Inspect(n)
  BY <1>2, BetweenKeeps, SnapshotAssumption
<1>3. CASE Open \/ Read \/ EndOfFile
  BY <1>3, OpenKeeps, ReadKeeps, EndOfFileKeeps
<1>4. CASE RulesRead \/ FileCopied \/ CopyRules
  BY <1>4, RulesReadKeeps, FileKeeps, RulesKeep
<1> QED BY <1>1, <1>2, <1>3, <1>4 DEF CopyStep

LEMMA StepKeeps == SnapshotInv /\ [SnapshotNext]_snapshotVars => SnapshotInv'
<1>1. ASSUME SnapshotInv, UNCHANGED snapshotVars PROVE SnapshotInv'
  <2> USE <1>1 DEF SnapshotInv, snapshotVars, userVars, fileVars
  <2>1. SnapshotTypeOK'
    BY DEF SnapshotTypeOK
  <2>2. Linked' /\ Holding' /\ Timed'
    BY UserUntouched
  <2>3. ReadSoFar' /\ Copying'
    BY DEF ReadSoFar, Copying, CopiedWhole
  <2>4. Early' /\ Excluding'
    BY DEF Early, Excluding, LeftOut
  <2> QED BY <2>1, <2>2, <2>3, <2>4
<1> QED BY <1>1, UserKeeps, CopyKeeps DEF SnapshotNext

LEMMA SnapshotInvHolds == SnapshotSpec => []SnapshotInv
BY InitHolds, StepKeeps, PTL DEF SnapshotSpec

-----------------------------------------------------------------------------
\* The copy's variables keep their types: in particular at most one step is
\* being taken, and a file is kept only with lines that were read.
THEOREM SnapshotTypeCorrect == SnapshotSpec => []SnapshotTypeOK
BY SnapshotInvHolds, PTL DEF SnapshotInv

\* _copy_regular_file never keeps a text that the file did not have at some
\* moment, however the user edits meanwhile.
THEOREM NothingTorn == SnapshotSpec => []CopiedWhole
<1>1. SnapshotInv => CopiedWhole
  BY DEF SnapshotInv, Copying
<1> QED BY <1>1, SnapshotInvHolds, PTL

\* _copy_directory copies no file that the .gitignore in the copy leaves out.
THEOREM CopyObeysItself == SnapshotSpec => []IgnoredStaysOut
<1>1. SnapshotInv => IgnoredStaysOut
  BY DEF SnapshotInv, Excluding, IgnoredStaysOut, LeftOut
<1> QED BY <1>1, SnapshotInvHolds, PTL
-----------------------------------------------------------------------------
(* Texts and what they are put together from.                              *)

Glues(S) == \A text \in Seq(S), piece \in S : Glued(text, piece) \in Seq(S)

\* What the recursion of Text goes through.
Joining(text, pieces, S) ==
    /\ text[0] = <<>>
    /\ \A n \in 1 .. Len(pieces) : text[n] = Glued(text[n - 1], pieces[n])
    /\ \A n \in 0 .. Len(pieces) : text[n] \in Seq(S)
    /\ Text(pieces) = text[Len(pieces)]

LEMMA TextIs ==
    ASSUME NEW S, Glues(S), NEW pieces \in Seq(S)
    PROVE  \E text : Joining(text, pieces, S)
<1> DEFINE L == Len(pieces)
           Is(g) == g = [n \in 0 .. L |-> IF n = 0 THEN <<>> ELSE Glued(g[n - 1], pieces[n])]
           F == [p \in (1 .. L) \X Seq(S) |-> Glued(p[2], pieces[p[1]])]
           text == CHOOSE g : Is(g)
<1>1. Text(pieces) = text[L]
    BY Zenon DEF Text
<1>2. L \in Nat /\ \A n \in 1 .. L : pieces[n] \in S
    BY ElementOfSeq, LenProperties
<1> HIDE DEF L
<1>3. ASSUME NEW n \in 1 .. L, NEW t \in Seq(S) PROVE Glued(t, pieces[n]) \in Seq(S)
    BY <1>2, <1>3 DEF Glues
<1>4. <<>> \in Seq(S) /\ F \in [(1 .. L) \X Seq(S) -> Seq(S)]
    BY <1>3, EmptySeq
<1>5. PICK g \in [0 .. L -> Seq(S)] :
          /\ g[0] = <<>>
          /\ \A n \in 1 .. L : g[n] = F[<<n, g[n - 1]>>]
    <2> HIDE DEF F
    <2>1. Recursive(L, Seq(S), <<>>, F)
        BY <1>2, <1>4, Recursion
    <2> QED
        BY <2>1 DEF Recursive
<1>6. Is(g)
    <2>1. ASSUME NEW n \in 1 .. L PROVE F[<<n, g[n - 1]>>] = Glued(g[n - 1], pieces[n])
        <3>1. n - 1 \in 0 .. L
            BY <1>2
        <3>2. g[n - 1] \in Seq(S)
            BY <3>1
        <3> QED
            BY <3>2
    <2>2. \A n \in 0 .. L : n = 0 \/ n \in 1 .. L
        BY <1>2
    <2>3. \A n \in 0 .. L : g[n] = IF n = 0 THEN <<>> ELSE Glued(g[n - 1], pieces[n])
        <3> HIDE DEF F
        <3> QED
            BY <1>5, <2>1, <2>2
    <2>4. DOMAIN g = 0 .. L /\ g = [n \in DOMAIN g |-> g[n]]
        BY <1>5
    <2> QED
        BY <2>3, <2>4
<1>7. Is(text)
    BY <1>6
<1>8. /\ text[0] = <<>>
      /\ \A n \in 1 .. L : text[n] = Glued(text[n - 1], pieces[n])
    <2>1. 0 \in 0 .. L /\ \A n \in 1 .. L : n \in 0 .. L /\ n # 0
        BY <1>2
    <2> HIDE DEF text
    <2> QED
        BY <1>7, <2>1
<1>9. \A n \in 0 .. L : text[n] \in Seq(S)
    <2> HIDE DEF text
    <2>1. text[0] \in Seq(S) /\ \A n \in 1 .. L : text[n - 1] \in Seq(S) => text[n] \in Seq(S)
        BY <1>3, <1>4, <1>8
    <2> QED
        BY <1>2, <2>1, Stays
<1> HIDE DEF text
<1>10. Joining(text, pieces, S)
    BY <1>1, <1>8, <1>9 DEF Joining, L
<1> QED
    BY <1>10

LEMMA TextTyped ==
    ASSUME NEW S, Glues(S), NEW pieces \in Seq(S)
    PROVE  Text(pieces) \in Seq(S)
<1>1. Len(pieces) \in 0 .. Len(pieces)
    BY LenProperties
<1> QED
    BY <1>1, TextIs DEF Joining

LEMMA GluesLine == Glues(Line)
<1> SUFFICES ASSUME NEW text \in Seq(Line), NEW piece \in Line
             PROVE  Glued(text, piece) \in Seq(Line)
    BY DEF Glues
<1>1. CASE text # <<>>
    <2>1. Last(text) \in Line /\ Front(text) \in Seq(Line)
        BY <1>1 DEF Last, Front
    <2> DEFINE l == [Last(text) EXCEPT !.text = @ \o piece.text, !.end = piece.end]
    <2>2. Last(text).text \o piece.text \in Seq(Atoms) /\ piece.end \in {"lf", "none", "sep"}
        <3>1. Last(text).text \in Seq(Atoms) /\ piece.text \in Seq(Atoms)
            BY <2>1 DEF Line
        <3> QED
            BY <3>1, ConcatProperties DEF Line
    <2>3. l \in Line
        BY <2>1, <2>2 DEF Line
    <2> HIDE DEF l
    <2>4. Append(Front(text), l) \in Seq(Line) /\ Append(text, piece) \in Seq(Line)
        BY <2>1, <2>3, AppendProperties
    <2> QED
        BY <2>4 DEF Glued, l
<1>2. CASE text = <<>>
    BY <1>2, AppendProperties DEF Glued
<1> QED
    BY <1>1, <1>2

LEMMA GluesDiffPiece == Glues(DiffPiece)
<1> SUFFICES ASSUME NEW text \in Seq(DiffPiece), NEW piece \in DiffPiece
             PROVE  Glued(text, piece) \in Seq(DiffPiece)
    BY DEF Glues
<1>1. CASE text # <<>>
    <2>1. Last(text) \in DiffPiece /\ Front(text) \in Seq(DiffPiece)
        BY <1>1 DEF Last, Front
    <2> DEFINE l == [Last(text) EXCEPT !.text = @ \o piece.text, !.end = piece.end]
    <2>2. Last(text).text \o piece.text \in Seq(Atoms) /\ piece.end \in {"lf", "none", "sep"}
        <3>1. Last(text).text \in Seq(Atoms) /\ piece.text \in Seq(Atoms)
            BY <2>1 DEF DiffPiece
        <3> QED
            BY <3>1, ConcatProperties DEF DiffPiece
    <2>3. l \in DiffPiece
        BY <2>1, <2>2 DEF DiffPiece
    <2> HIDE DEF l
    <2>4. Append(Front(text), l) \in Seq(DiffPiece) /\ Append(text, piece) \in Seq(DiffPiece)
        BY <2>1, <2>3, AppendProperties
    <2> QED
        BY <2>4 DEF Glued, l
<1>2. CASE text = <<>>
    BY <1>2, AppendProperties DEF Glued
<1> QED
    BY <1>1, <1>2

\* What the recursion of FlattenSeq goes through.
Flattens(flat, seqs, S) ==
    /\ flat \in [0 .. Len(seqs) -> Seq(S)]
    /\ flat[0] = <<>>
    /\ \A n \in 1 .. Len(seqs) : flat[n] = flat[n - 1] \o seqs[n]
    /\ FlattenSeq(seqs) = flat[Len(seqs)]

LEMMA FlattenIs ==
    ASSUME NEW S, NEW seqs \in Seq(Seq(S))
    PROVE  \E flat : Flattens(flat, seqs, S)
<1> DEFINE L == Len(seqs)
           Is(g) == g = [i \in 1 .. L |-> IF i = 1 THEN seqs[i] ELSE g[i - 1] \o seqs[i]]
           F == [p \in (1 .. L) \X Seq(S) |-> p[2] \o seqs[p[1]]]
           flatten == CHOOSE g : Is(g)
<1>1. FlattenSeq(seqs) = IF L = 0 THEN seqs ELSE flatten[L]
    BY Zenon DEF FlattenSeq
<1>2. L \in Nat /\ \A n \in 1 .. L : seqs[n] \in Seq(S)
    BY ElementOfSeq, LenProperties
<1>0. L = 0 => seqs = <<>>
    BY EmptySeq
<1> HIDE DEF L
<1>3. <<>> \in Seq(S) /\ F \in [(1 .. L) \X Seq(S) -> Seq(S)]
    BY <1>2, EmptySeq, ConcatProperties
<1>4. PICK g \in [0 .. L -> Seq(S)] :
          /\ g[0] = <<>>
          /\ \A n \in 1 .. L : g[n] = F[<<n, g[n - 1]>>]
    <2> HIDE DEF F
    <2>1. Recursive(L, Seq(S), <<>>, F)
        BY <1>2, <1>3, Recursion
    <2> QED
        BY <2>1 DEF Recursive
<1>5. \A n \in 1 .. L : g[n] = g[n - 1] \o seqs[n]
    <2> SUFFICES ASSUME NEW n \in 1 .. L PROVE g[n] = g[n - 1] \o seqs[n]
        OBVIOUS
    <2>1. n - 1 \in 0 .. L
        BY <1>2
    <2>2. g[n - 1] \in Seq(S)
        BY <2>1
    <2> QED
        BY <1>4, <2>2
<1> HIDE DEF F
<1>6. Is([i \in 1 .. L |-> g[i]])
    <2> DEFINE f == [i \in 1 .. L |-> g[i]]
    <2>1. ASSUME NEW i \in 1 .. L
          PROVE  f[i] = IF i = 1 THEN seqs[i] ELSE f[i - 1] \o seqs[i]
        <3>1. CASE i = 1
            <4>1. 1 \in 1 .. L /\ 1 - 1 = 0
                BY <3>1
            <4>2. g[1] = g[0] \o seqs[1] /\ seqs[1] \in Seq(S)
                BY <1>2, <1>5, <4>1
            <4>3. <<>> \o seqs[1] = seqs[1]
                BY <4>2, ConcatEmptySeq
            <4> QED
                BY <1>4, <3>1, <4>2, <4>3
        <3>2. CASE i # 1
            <4>1. i - 1 \in 1 .. L
                BY <1>2, <3>2
            <4> QED
                BY <1>5, <3>2, <4>1
        <3> QED
            BY <3>1, <3>2
    <2> QED
        BY <2>1
<1>7. Is(flatten)
    <2>1. \E f : Is(f)
        BY <1>6
    <2> HIDE DEF Is
    <2> QED
        BY <2>1
<1>8. \A i \in 1 .. L : flatten[i] = IF i = 1 THEN seqs[i] ELSE flatten[i - 1] \o seqs[i]
    <2> HIDE DEF flatten
    <2> QED
        BY <1>7
<1>9. FlattenSeq(seqs) = g[L]
    <2>1. CASE L = 0
        BY <1>0, <1>1, <1>4, <2>1
    <2>2. CASE L # 0
        <3> DEFINE T == {n \in 0 .. L - 1 : flatten[n + 1] = g[n + 1]}
        <3> HIDE DEF flatten
        <3>1. 0 \in T
            <4>1. 1 \in 1 .. L /\ 0 \in 0 .. L - 1 /\ 0 + 1 = 1 /\ 1 - 1 = 0
                BY <1>2, <2>2
            <4>2. seqs[1] \in Seq(S) /\ g[1] = <<>> \o seqs[1] /\ flatten[1] = seqs[1]
                BY <1>2, <1>4, <1>5, <1>8, <4>1
            <4> QED
                BY <4>1, <4>2, ConcatEmptySeq
        <3>2. ASSUME NEW n \in 0 .. (L - 1) - 1, n \in T PROVE n + 1 \in T
            <4>1. (n + 1) + 1 \in 1 .. L /\ ((n + 1) + 1) - 1 = n + 1 /\ n + 1 \in 0 .. L - 1
                  /\ (n + 1) + 1 # 1
                BY <1>2
            <4>2. flatten[(n + 1) + 1] = flatten[n + 1] \o seqs[(n + 1) + 1]
                BY <1>8, <4>1
            <4>3. g[(n + 1) + 1] = g[n + 1] \o seqs[(n + 1) + 1]
                BY <1>5, <4>1
            <4> QED
                BY <3>2, <4>1, <4>2, <4>3
        <3>3. L - 1 \in Nat /\ L - 1 \in 0 .. L - 1 /\ (L - 1) + 1 = L
            BY <1>2, <2>2
        <3>4. L - 1 \in T
            <4> HIDE DEF T
            <4> QED
                BY <3>1, <3>2, <3>3, Induction
        <3>5. flatten[L] = g[L]
            BY <3>3, <3>4
        <3> QED
            BY <1>1, <2>2, <3>5
    <2> QED
        BY <2>1, <2>2
<1>10. Flattens(g, seqs, S)
    BY <1>4, <1>5, <1>9 DEF L, Flattens
<1> QED
    BY <1>10

LEMMA FlattenTyped ==
    ASSUME NEW S, NEW seqs \in Seq(Seq(S))
    PROVE  FlattenSeq(seqs) \in Seq(S)
<1>1. PICK flat : Flattens(flat, seqs, S)
    BY FlattenIs
<1>2. Len(seqs) \in 0 .. Len(seqs)
    BY LenProperties
<1> QED
    BY <1>1, <1>2 DEF Flattens

-----------------------------------------------------------------------------
(* parse_unified_diff: whatever is fed to it, a patch comes out or none.   *)

NamedPatch == {p \in FilePatch : p.path \in Paths}

Modes == {"old", "new", "hunks", "body", "tail", "error", "crash"}

ParserState ==
    [mode : Modes, old : Seq(Atoms),
     file : [path : Paths \cup {"none"}, operation : {"create", "update", "delete"}],
     at : Nat \X Nat \X Nat \X Nat, lines : Seq(HunkLine), hunks : Seq(Hunk),
     patches : Seq(NamedPatch)]

Parsing == {s \in ParserState : s.mode \in {"hunks", "body", "tail"} => s.file.path \in Paths}

LEMMA OpeningTyped == Opening \in Parsing
<1>1. <<>> \in Seq(Atoms) /\ <<>> \in Seq(HunkLine) /\ <<>> \in Seq(Hunk)
      /\ <<>> \in Seq(NamedPatch) /\ <<0, 0, 0, 0>> \in Nat \X Nat \X Nat \X Nat
    BY EmptySeq
<1> QED
    BY <1>1 DEF Opening, Parsing, ParserState, Modes

LEMMA MalformedTyped ==
    ASSUME NEW s \in Parsing
    PROVE  Malformed(s) \in Parsing
BY DEF Malformed, Parsing, ParserState, Modes

LEMMA FeedOldTyped ==
    ASSUME NEW s \in Parsing, NEW l \in DiffPiece
    PROVE  FeedOld(s, l) \in Parsing
<1>1. HeaderOf(l) \in Seq(Atoms)
    <2>1. l.text \in Seq(Atoms)
        BY DEF DiffPiece
    <2> DEFINE t == l.text
    <2> HIDE DEF t
    <2>2. t \in Seq(Atoms)
        BY <2>1 DEF t
    <2>3. \A i \in 3 .. Len(t) : t[i] \in Atoms
        BY <2>2
    <2>4. SubSeq(t, 3, Len(t)) \in Seq(Atoms)
        BY <2>2, <2>3, SubSeqProperties, LenProperties
    <2> QED
        BY <2>4 DEF HeaderOf, t
<1>2. [s EXCEPT !.mode = "new", !.old = HeaderOf(l)] \in Parsing
    BY <1>1 DEF Parsing, ParserState, Modes
<1> QED
    BY <1>2, MalformedTyped DEF FeedOld

LEMMA FeedNewTyped ==
    ASSUME NEW s \in Parsing, NEW l \in DiffPiece
    PROVE  FeedNew(s, l) \in Parsing
<1> DEFINE files == {f \in Named(s.old, HeaderOf(l)) :
                        \A i \in DOMAIN s.patches : s.patches[i].path # f.path}
           file == CHOOSE f \in files : TRUE
<1>1. files \subseteq [path : Paths, operation : {"create", "update", "delete"}]
    BY DEF Named
<1>2. CASE files # {}
    <2> HIDE DEF files
    <2>1. file \in files
        BY <1>2
    <2>2. file \in [path : Paths, operation : {"create", "update", "delete"}]
        BY <1>1, <2>1
    <2> HIDE DEF file
    <2>3. file.path \in Paths
          /\ file \in [path : Paths \cup {"none"}, operation : {"create", "update", "delete"}]
        BY <2>2
    <2>4. [s EXCEPT !.mode = "hunks", !.file = file] \in Parsing
        BY <2>3 DEF Parsing, ParserState, Modes
    <2> QED
        BY <2>4, MalformedTyped DEF FeedNew, files, file
<1>3. CASE files = {}
    BY <1>3, MalformedTyped DEF FeedNew
<1> QED
    BY <1>2, <1>3

LEMMA CloseFileTyped ==
    ASSUME NEW s \in Parsing, s.file.path \in Paths
    PROVE  CloseFile(s) \in Parsing
<1> DEFINE p == [path |-> s.file.path, operation |-> s.file.operation, hunks |-> s.hunks]
<1>1. s.file.operation \in {"create", "update", "delete"} /\ s.hunks \in Seq(Hunk)
      /\ s.patches \in Seq(NamedPatch)
    BY DEF Parsing, ParserState
<1>2. p \in NamedPatch
    BY <1>1 DEF NamedPatch, FilePatch
<1> HIDE DEF p
<1>3. Append(s.patches, p) \in Seq(NamedPatch) /\ <<>> \in Seq(HunkLine) /\ <<>> \in Seq(Hunk)
    BY <1>1, <1>2, AppendProperties, EmptySeq
<1>4. [s EXCEPT !.mode = "old", !.hunks = <<>>, !.lines = <<>>,
                !.patches = Append(@, p)] \in Parsing
    BY <1>3 DEF Parsing, ParserState, Modes
<1> QED
    BY <1>4, MalformedTyped DEF CloseFile, p

LEMMA FeedHunksTyped ==
    ASSUME NEW s \in Parsing, s.mode = "hunks", NEW l \in DiffPiece
    PROVE  FeedHunks(s, l) \in Parsing
<1>1. s.file.path \in Paths
    BY DEF Parsing
<1>2. FeedOld(CloseFile(s), l) \in Parsing
    BY <1>1, CloseFileTyped, FeedOldTyped
<1>3. ASSUME l.at # <<>>, NEW m \in {"tail", "body"}
      PROVE  [s EXCEPT !.mode = m, !.at = l.at, !.lines = <<>>] \in Parsing
    <2>1. l.at \in Nat \X Nat \X Nat \X Nat
        BY <1>3 DEF DiffPiece
    <2>2. <<>> \in Seq(HunkLine)
        BY EmptySeq
    <2> QED
        BY <1>1, <2>1, <2>2 DEF Parsing, ParserState, Modes
<1>4. Malformed(s) \in Parsing
    BY MalformedTyped
<1> QED
    BY <1>2, <1>3, <1>4 DEF FeedHunks

LEMMA UnterminatedTyped ==
    ASSUME NEW lines \in Seq(HunkLine), lines # <<>>
    PROVE  Unterminated(lines) \in Seq(HunkLine)
<1> DEFINE n == Len(lines)
           e == IF lines[n].content.end = "lf" THEN "none" ELSE lines[n].content.end
           c == [lines[n].content EXCEPT !.end = e]
           l == [lines[n] EXCEPT !.content = c]
<1>1. n \in 1 .. Len(lines) /\ lines[n] \in HunkLine
    BY ElementOfSeq, LenProperties, EmptySeq
<1>2. lines[n].content \in Line
    BY <1>1 DEF HunkLine
<1>3. e \in {"lf", "none", "sep"}
    BY <1>2 DEF Line
<1> HIDE DEF e
<1>4. c \in Line
    BY <1>2, <1>3 DEF Line
<1> HIDE DEF c
<1>5. l \in HunkLine
    BY <1>1, <1>4 DEF HunkLine
<1> HIDE DEF l
<1>6. [lines EXCEPT ![n] = l] \in Seq(HunkLine)
    BY <1>1, <1>5
<1> QED
    BY <1>6 DEF Unterminated, n, e, c, l

LEMMA FirstOf == ASSUME NEW x, NEW t, t = <<x>> PROVE t[1] = x
OBVIOUS

LEMMA NoMarkIsALine ==
    ASSUME NEW t, t = Marker.text
    PROVE  t[1] \notin {" ", "+", "-"}
<1>1. Marker.text = <<"\\ No newline at end of file">>
    BY DEF Marker, Piece
<1>2. t = <<"\\ No newline at end of file">>
    BY <1>1
<1>3. t[1] = "\\ No newline at end of file"
    BY <1>2, FirstOf
<1> QED
    BY <1>3

LEMMA FeedBodyTyped ==
    ASSUME NEW s \in Parsing, s.mode = "body", NEW l \in DiffPiece
    PROVE  FeedBody(s, l) \in Parsing
<1> DEFINE e == [operation |-> l.text[1], content |-> [text |-> Tail(l.text), end |-> l.end]]
           lines == Append(s.lines, e)
<1>1. s.file.path \in Paths /\ s.lines \in Seq(HunkLine)
    BY DEF Parsing, ParserState
<1>3. ASSUME l.text # <<>>, l.text[1] \in {" ", "+", "-"}, NEW m \in {"tail", "body"}
      PROVE  [s EXCEPT !.lines = lines, !.mode = m] \in Parsing
    <2>1. l.text \in Seq(Atoms) /\ l.end \in {"lf", "none", "sep"}
        BY DEF DiffPiece
    <2>2. Tail(l.text) \in Seq(Atoms)
        BY <1>3, <2>1, HeadTailProperties
    <2>3. e \in HunkLine
        BY <1>3, <2>1, <2>2 DEF HunkLine, Line
    <2> HIDE DEF e
    <2>4. lines \in Seq(HunkLine)
        BY <1>1, <2>3, AppendProperties
    <2> HIDE DEF lines
    <2> QED
        BY <1>1, <2>4 DEF Parsing, ParserState, Modes
<1>4. Malformed(s) \in Parsing
    BY MalformedTyped
<1>5. CASE l.text = Marker.text /\ s.lines # <<>>
    <2> DEFINE new == [s EXCEPT !.lines = Unterminated(@)]
    <2>1. Unterminated(s.lines) \in Seq(HunkLine)
        BY <1>1, <1>5, UnterminatedTyped
    <2>2. new \in Parsing
        BY <1>1, <2>1 DEF Parsing, ParserState
    <2>3. l.text[1] \notin {" ", "+", "-"}
        BY <1>5, NoMarkIsALine
    <2> HIDE DEF new
    <2>4. FeedBody(s, l) = new
        BY <1>5, <2>3 DEF FeedBody, new
    <2> QED
        BY <2>2, <2>4
<1>6. CASE ~(l.text = Marker.text /\ s.lines # <<>>)
    <2> DEFINE counts == CountsOf(lines)
               m == IF counts = <<s.at[2], s.at[4]>> THEN "tail" ELSE "body"
               new == [s EXCEPT !.lines = lines, !.mode = m]
               fits == /\ l.text # <<>> /\ l.text[1] \in {" ", "+", "-"}
                       /\ counts[1] <= s.at[2] /\ counts[2] <= s.at[4]
    <2>1. FeedBody(s, l) = IF fits THEN new ELSE Malformed(s)
        <3> HIDE DEF counts
        <3> QED
            BY <1>6 DEF FeedBody, counts
    <2>2. m \in {"tail", "body"}
        OBVIOUS
    <2>3. fits => new \in Parsing
        <3> HIDE DEF m, lines
        <3> QED
            BY <1>3, <2>2 DEF lines
    <2> HIDE DEF fits, new
    <2> QED
        BY <1>4, <2>1, <2>3
<1> QED
    BY <1>5, <1>6

LEMMA HunkClosedTyped ==
    ASSUME NEW s \in Parsing, s.file.path \in Paths, NEW lines \in Seq(HunkLine)
    PROVE  HunkClosed(s, lines) \in Parsing /\ HunkClosed(s, lines).file = s.file
           /\ HunkClosed(s, lines).mode = "hunks"
<1> DEFINE h == [oldStart |-> s.at[1], oldCount |-> s.at[2],
                 newStart |-> s.at[3], newCount |-> s.at[4], lines |-> lines]
<1>1. s.at \in Nat \X Nat \X Nat \X Nat /\ s.hunks \in Seq(Hunk)
    BY DEF Parsing, ParserState
<1>2. h \in Hunk
    BY <1>1 DEF Hunk
<1> HIDE DEF h
<1>3. Append(s.hunks, h) \in Seq(Hunk)
    BY <1>1, <1>2, AppendProperties
<1> DEFINE new == [s EXCEPT !.mode = "hunks", !.hunks = Append(@, h)]
<1>4. new \in Parsing /\ new.file = s.file /\ new.mode = "hunks"
    BY <1>3 DEF Parsing, ParserState, Modes
<1> HIDE DEF new
<1>5. HunkClosed(s, lines) = new
    BY DEF HunkClosed, new, h
<1> QED
    BY <1>4, <1>5

LEMMA FeedTailTyped ==
    ASSUME NEW s \in Parsing, s.mode = "tail", NEW l \in DiffPiece
    PROVE  FeedTail(s, l) \in Parsing
<1>1. s.file.path \in Paths /\ s.lines \in Seq(HunkLine)
    BY DEF Parsing, ParserState
<1>2. FeedHunks(HunkClosed(s, s.lines), l) \in Parsing
    BY <1>1, HunkClosedTyped, FeedHunksTyped
<1>3. [s EXCEPT !.mode = "crash"] \in Parsing
    BY DEF Parsing, ParserState, Modes
<1>4. s.lines # <<>> => HunkClosed(s, Unterminated(s.lines)) \in Parsing
    BY <1>1, UnterminatedTyped, HunkClosedTyped
<1> QED
    BY <1>2, <1>3, <1>4 DEF FeedTail

LEMMA FeedTyped ==
    ASSUME NEW s \in Parsing, NEW l \in DiffPiece
    PROVE  Feed(s, l) \in Parsing
BY FeedOldTyped, FeedNewTyped, FeedHunksTyped, FeedBodyTyped, FeedTailTyped DEF Feed

\* What the recursion of Parsed goes through.
Feeds(fed, payload) ==
    LET text == Text(payload) IN
    /\ fed[0] = Opening
    /\ \A n \in 1 .. Len(text) : fed[n] = Feed(fed[n - 1], text[n])
    /\ \A n \in 0 .. Len(text) : fed[n] \in Parsing
    /\ LET s == fed[Len(text)]
       IN  Parsed(payload) = CASE s.mode = "tail" -> CloseFile(HunkClosed(s, s.lines))
                               [] s.mode = "hunks" -> CloseFile(s)
                               [] s.mode = "crash" -> s
                               [] OTHER -> Malformed(s)

LEMMA ParsedIs ==
    ASSUME NEW payload \in Seq(DiffPiece)
    PROVE  \E fed : Feeds(fed, payload)
<1> DEFINE text == Text(payload)
           L == Len(text)
           Is(g) == g = [n \in 0 .. L |-> IF n = 0 THEN Opening ELSE Feed(g[n - 1], text[n])]
           F == [p \in (1 .. L) \X Parsing |-> Feed(p[2], text[p[1]])]
           fed == CHOOSE g : Is(g)
           Ended(s) == CASE s.mode = "tail" -> CloseFile(HunkClosed(s, s.lines))
                          [] s.mode = "hunks" -> CloseFile(s)
                          [] s.mode = "crash" -> s
                          [] OTHER -> Malformed(s)
<1>1. Parsed(payload) = Ended(fed[L])
    BY Zenon DEF Parsed
<1>2. text \in Seq(DiffPiece)
    BY TextTyped, GluesDiffPiece
<1> HIDE DEF text
<1>3. L \in Nat /\ \A n \in 1 .. L : text[n] \in DiffPiece
    BY <1>2, ElementOfSeq, LenProperties
<1> HIDE DEF L, Ended
<1>4. ASSUME NEW n \in 1 .. L, NEW s \in Parsing PROVE Feed(s, text[n]) \in Parsing
    BY <1>3, <1>4, FeedTyped
<1>5. Opening \in Parsing /\ F \in [(1 .. L) \X Parsing -> Parsing]
    BY <1>4, OpeningTyped
<1>6. PICK g \in [0 .. L -> Parsing] :
          /\ g[0] = Opening
          /\ \A n \in 1 .. L : g[n] = F[<<n, g[n - 1]>>]
    <2> HIDE DEF F
    <2>1. Recursive(L, Parsing, Opening, F)
        BY <1>3, <1>5, Recursion
    <2> QED
        BY <2>1 DEF Recursive
<1>7. Is(g)
    <2>1. ASSUME NEW n \in 1 .. L PROVE F[<<n, g[n - 1]>>] = Feed(g[n - 1], text[n])
        <3>1. n - 1 \in 0 .. L
            BY <1>3
        <3>2. g[n - 1] \in Parsing
            BY <3>1
        <3> QED
            BY <3>2
    <2>2. \A n \in 0 .. L : n = 0 \/ n \in 1 .. L
        BY <1>3
    <2>3. \A n \in 0 .. L : g[n] = IF n = 0 THEN Opening ELSE Feed(g[n - 1], text[n])
        <3> HIDE DEF F
        <3> QED
            BY <1>6, <2>1, <2>2
    <2>4. DOMAIN g = 0 .. L /\ g = [n \in DOMAIN g |-> g[n]]
        BY <1>6
    <2> QED
        BY <2>3, <2>4
<1>8. Is(fed)
    BY <1>7
<1>9. /\ fed[0] = Opening
      /\ \A n \in 1 .. L : fed[n] = Feed(fed[n - 1], text[n])
    <2>1. 0 \in 0 .. L /\ \A n \in 1 .. L : n \in 0 .. L /\ n # 0
        BY <1>3
    <2> HIDE DEF fed
    <2> QED
        BY <1>8, <2>1
<1>10. \A n \in 0 .. L : fed[n] \in Parsing
    <2> HIDE DEF fed
    <2>1. fed[0] \in Parsing
          /\ \A n \in 1 .. L : fed[n - 1] \in Parsing => fed[n] \in Parsing
        BY <1>4, <1>5, <1>9
    <2> QED
        BY <1>3, <2>1, Stays
<1> HIDE DEF fed
<1>11. Feeds(fed, payload)
    BY <1>1, <1>9, <1>10, Zenon DEF Feeds, text, L, Ended
<1> QED
    BY <1>11

LEMMA ParsedTyped ==
    ASSUME NEW payload \in Seq(DiffPiece)
    PROVE  Parsed(payload).patches \in Seq(NamedPatch)
<1>1. PICK fed : Feeds(fed, payload)
    BY ParsedIs
<1> DEFINE s == fed[Len(Text(payload))]
<1>2. s \in Parsing
    <2>1. Text(payload) \in Seq(DiffPiece)
        BY TextTyped, GluesDiffPiece
    <2>2. Len(Text(payload)) \in 0 .. Len(Text(payload))
        BY <2>1, LenProperties
    <2> QED
        BY <1>1, <2>2 DEF Feeds
<1>3. Parsed(payload) = CASE s.mode = "tail" -> CloseFile(HunkClosed(s, s.lines))
                          [] s.mode = "hunks" -> CloseFile(s)
                          [] s.mode = "crash" -> s
                          [] OTHER -> Malformed(s)
    BY <1>1 DEF Feeds
<1> HIDE DEF s
<1>4. s.mode = "tail" => CloseFile(HunkClosed(s, s.lines)) \in Parsing
    <2> SUFFICES ASSUME s.mode = "tail" PROVE CloseFile(HunkClosed(s, s.lines)) \in Parsing
        OBVIOUS
    <2>1. s.file.path \in Paths /\ s.lines \in Seq(HunkLine)
        BY <1>2 DEF Parsing, ParserState
    <2>2. HunkClosed(s, s.lines) \in Parsing /\ HunkClosed(s, s.lines).file.path \in Paths
        BY <1>2, <2>1, HunkClosedTyped
    <2> QED
        BY <2>2, CloseFileTyped
<1>5. s.mode = "hunks" => CloseFile(s) \in Parsing
    BY <1>2, CloseFileTyped DEF Parsing
<1>6. Malformed(s) \in Parsing
    BY <1>2, MalformedTyped
<1>7. Parsed(payload) \in Parsing
    BY <1>2, <1>3, <1>4, <1>5, <1>6
<1> QED
    BY <1>7 DEF Parsing, ParserState
-----------------------------------------------------------------------------
(* The lines of the old and of the new file in a script.                   *)

LEMMA LinesToSame ==
    ASSUME NEW s \in Seq(HunkLine), NEW t \in Seq(HunkLine), NEW ops,
           NEW m \in 0 .. Len(s), m <= Len(t), \A i \in 1 .. m : s[i] = t[i]
    PROVE  LinesTo(s, ops)[m] = LinesTo(t, ops)[m]
<1> DEFINE p == LinesTo(s, ops)
           q == LinesTo(t, ops)
           T == {n \in 0 .. m : p[n] = q[n]}
<1>1. Collected(p, s, ops) /\ Collected(q, t, ops)
    BY LinesToIs
<1>2. Len(s) \in Nat /\ Len(t) \in Nat /\ m \in Nat
    BY LenProperties
<1> HIDE DEF p, q
<1>3. 0 \in T
    BY <1>1, <1>2 DEF Collected
<1>4. ASSUME NEW n \in 0 .. (m - 1), n \in T PROVE n + 1 \in T
    <2>1. n + 1 \in 1 .. Len(s) /\ n + 1 \in 1 .. Len(t) /\ (n + 1) - 1 = n
          /\ n + 1 \in 1 .. m /\ n + 1 \in 0 .. m
        BY <1>2
    <2>2. p[n + 1] = IF s[n + 1].operation \in ops THEN Append(p[n], s[n + 1].content) ELSE p[n]
        BY <1>1, <2>1 DEF Collected
    <2>3. q[n + 1] = IF t[n + 1].operation \in ops THEN Append(q[n], t[n + 1].content) ELSE q[n]
        BY <1>1, <2>1 DEF Collected
    <2>4. s[n + 1] = t[n + 1] /\ p[n] = q[n]
        BY <1>4, <2>1
    <2> QED
        BY <2>1, <2>2, <2>3, <2>4
<1>5. m \in T
    <2>1. m \in 0 .. m
        BY <1>2
    <2> HIDE DEF T
    <2> QED
        BY <1>2, <1>3, <1>4, <2>1, Induction
<1> QED
    BY <1>5 DEF p, q

LEMMA LinesOfConcat ==
    ASSUME NEW s \in Seq(HunkLine), NEW t \in Seq(HunkLine), NEW ops
    PROVE  LinesOf(s \o t, ops) = LinesOf(s, ops) \o LinesOf(t, ops)
<1> DEFINE u == s \o t
           o == LinesOf(s, ops)
           p == LinesTo(u, ops)
           q == LinesTo(t, ops)
           T == {n \in 0 .. Len(t) : p[Len(s) + n] = o \o q[n]}
<1>1. /\ u \in Seq(HunkLine) /\ Len(u) = Len(s) + Len(t)
      /\ Len(s) \in Nat /\ Len(t) \in Nat
      /\ \A i \in 1 .. Len(s) : u[i] = s[i]
      /\ \A i \in 1 .. Len(t) : u[Len(s) + i] = t[i]
    <2>1. u \in Seq(HunkLine) /\ Len(u) = Len(s) + Len(t)
          /\ \A i \in 1 .. Len(u) : u[i] = IF i <= Len(s) THEN s[i] ELSE t[i - Len(s)]
        BY ConcatProperties
    <2>2. Len(s) \in Nat /\ Len(t) \in Nat
        BY LenProperties
    <2> HIDE DEF u
    <2>3. ASSUME NEW i \in 1 .. Len(s) PROVE u[i] = s[i]
        <3>1. i \in 1 .. Len(u) /\ i <= Len(s)
            BY <2>1, <2>2
        <3> QED
            BY <2>1, <3>1
    <2>4. ASSUME NEW i \in 1 .. Len(t) PROVE u[Len(s) + i] = t[i]
        <3>1. Len(s) + i \in 1 .. Len(u) /\ ~(Len(s) + i <= Len(s)) /\ (Len(s) + i) - Len(s) = i
            BY <2>1, <2>2
        <3> QED
            BY <2>1, <3>1
    <2> QED
        BY <2>1, <2>2, <2>3, <2>4
<1>2. Collected(p, u, ops) /\ Collected(q, t, ops) /\ o \in Seq(Line)
    BY <1>1, LinesToIs, LinesOfTyped
<1>3. p[Len(s)] = o
    <2>1. Len(s) \in 0 .. Len(s) /\ Len(s) <= Len(u)
        BY <1>1
    <2>2. LinesTo(s, ops)[Len(s)] = LinesTo(u, ops)[Len(s)]
        BY <1>1, <2>1, LinesToSame, Zenon
    <2> QED
        BY <2>2 DEF LinesOf
<1> HIDE DEF u, o, p, q
<1>4. 0 \in T
    <2>1. q[0] = <<>> /\ o \o <<>> = o /\ Len(s) + 0 = Len(s) /\ 0 \in 0 .. Len(t)
        BY <1>1, <1>2, ConcatEmptySeq DEF Collected
    <2> QED
        BY <1>3, <2>1
<1>5. ASSUME NEW n \in 0 .. (Len(t) - 1), n \in T PROVE n + 1 \in T
    <2>1. /\ n + 1 \in 1 .. Len(t) /\ (n + 1) - 1 = n /\ n \in 0 .. Len(t)
          /\ n + 1 \in 0 .. Len(t)
          /\ Len(s) + (n + 1) \in 1 .. Len(u) /\ (Len(s) + (n + 1)) - 1 = Len(s) + n
        BY <1>1
    <2> DEFINE e == t[n + 1].content
    <2>2. u[Len(s) + (n + 1)] = t[n + 1] /\ q[n] \in Seq(Line) /\ e \in Line
        BY <1>1, <1>2, <2>1, LinesTyped DEF Collected
    <2>3. q[n + 1] = IF t[n + 1].operation \in ops THEN Append(q[n], e) ELSE q[n]
        BY <1>2, <2>1 DEF Collected
    <2>4. p[Len(s) + (n + 1)] = IF t[n + 1].operation \in ops
                                THEN Append(p[Len(s) + n], e) ELSE p[Len(s) + n]
        BY <1>2, <2>1, <2>2 DEF Collected
    <2>5. p[Len(s) + n] = o \o q[n]
        BY <1>5
    <2> HIDE DEF e, T
    <2>6. Append(o \o q[n], e) = o \o Append(q[n], e)
        BY <1>2, <2>2, AppendToConcat
    <2>7. p[Len(s) + (n + 1)] = o \o q[n + 1]
        BY <2>3, <2>4, <2>5, <2>6
    <2> QED
        BY <2>1, <2>7 DEF T
<1>6. Len(t) \in T
    <2>1. Len(t) \in 0 .. Len(t)
        BY <1>1
    <2> HIDE DEF T
    <2> QED
        BY <1>1, <1>4, <1>5, <2>1, Induction
<1>7. p[Len(u)] = o \o q[Len(t)]
    BY <1>1, <1>6
<1> QED
    BY <1>7 DEF LinesOf, p, q, u, o

LEMMA LinesOfAppend ==
    ASSUME NEW s \in Seq(HunkLine), NEW l \in HunkLine, NEW ops
    PROVE  LinesOf(Append(s, l), ops) =
               IF l.operation \in ops THEN Append(LinesOf(s, ops), l.content)
               ELSE LinesOf(s, ops)
<1> DEFINE t == <<l>>
           q == LinesTo(t, ops)
           o == LinesOf(s, ops)
           e == l.content
<1>1. t \in Seq(HunkLine) /\ Len(t) = 1 /\ t[1] = l /\ Append(s, l) = s \o t
    BY AppendIsConcat
<1>2. Collected(q, t, ops) /\ o \in Seq(Line) /\ e \in Line
    BY <1>1, LinesToIs, LinesOfTyped DEF HunkLine
<1> HIDE DEF t, q
<1>3. q[1] = IF l.operation \in ops THEN Append(<<>>, e) ELSE <<>>
    <2>1. 1 \in 1 .. Len(t) /\ 1 - 1 = 0
        BY <1>1
    <2> QED
        BY <1>1, <1>2, <2>1 DEF Collected
<1>4. LinesOf(t, ops) = q[1]
    BY <1>1 DEF LinesOf, q
<1>5. LinesOf(Append(s, l), ops) = o \o q[1]
    BY <1>1, <1>4, LinesOfConcat
<1> HIDE DEF o, e
<1>6. o \o <<>> = o /\ o \o Append(<<>>, e) = Append(o, e)
    <2>1. <<>> \in Seq(Line)
        BY EmptySeq
    <2>2. o \o <<>> = o
        BY <1>2, ConcatEmptySeq
    <2>3. Append(o \o <<>>, e) = o \o Append(<<>>, e)
        BY <1>2, <2>1, AppendToConcat
    <2> QED
        BY <2>2, <2>3
<1> QED
    BY <1>3, <1>5, <1>6 DEF o, e
-----------------------------------------------------------------------------
(* A script accounts for both files.                                       *)

Sides(a, b, script) ==
    BeginsWith(a, LinesOf(script, {" ", "-"})) /\ BeginsWith(b, LinesOf(script, {" ", "+"}))

Aligned(a, b) == {script \in Seq(HunkLine) : Sides(a, b, script)}

LEMMA SideContinued ==
    ASSUME NEW a \in Seq(Line), NEW s \in Seq(HunkLine), NEW l \in HunkLine, NEW ops,
           BeginsWith(a, LinesOf(s, ops)),
           l.operation \in ops =>
               Len(LinesOf(s, ops)) + 1 <= Len(a) /\ l.content = a[Len(LinesOf(s, ops)) + 1]
    PROVE  BeginsWith(a, LinesOf(Append(s, l), ops))
<1>1. CASE l.operation \in ops
    <2> DEFINE o == LinesOf(s, ops)
               e == l.content
    <2>1. LinesOf(Append(s, l), ops) = Append(o, e)
        BY <1>1, LinesOfAppend
    <2>2. o \in Seq(Line) /\ e \in Line /\ BeginsWith(a, o)
          /\ Len(o) + 1 <= Len(a) /\ e = a[Len(o) + 1]
        BY <1>1, LinesOfTyped DEF HunkLine
    <2> HIDE DEF o, e
    <2>3. /\ Len(Append(o, e)) = Len(o) + 1 /\ Len(o) \in Nat
          /\ \A j \in 1 .. Len(o) : Append(o, e)[j] = o[j]
          /\ Append(o, e)[Len(o) + 1] = e
        BY <2>2, AppendProperties
    <2>4. \A j \in 1 .. Len(o) + 1 : j \in 1 .. Len(o) \/ j = Len(o) + 1
        BY <2>3
    <2>5. BeginsWith(a, Append(o, e))
        BY <2>2, <2>3, <2>4 DEF BeginsWith
    <2> QED
        BY <2>1, <2>5
<1>2. CASE ~(l.operation \in ops)
    BY <1>2, LinesOfAppend
<1> QED
    BY <1>1, <1>2

LEMMA ContinuedAligned ==
    ASSUME NEW a \in Seq(Line), NEW b \in Seq(Line), NEW s \in Aligned(a, b)
    PROVE  Continued(a, b, s) \subseteq Aligned(a, b)
<1> SUFFICES ASSUME NEW c \in Continued(a, b, s) PROVE c \in Aligned(a, b)
    OBVIOUS
<1> DEFINE o == LinesOf(s, {" ", "-"})
           n == LinesOf(s, {" ", "+"})
<1>1. PICK l \in [operation : {" ", "-", "+"}, content : Range(a) \cup Range(b)] :
          /\ c = Append(s, l)
          /\ l.operation \in {" ", "-"} => Len(o) + 1 <= Len(a) /\ l.content = a[Len(o) + 1]
          /\ l.operation \in {" ", "+"} => Len(n) + 1 <= Len(b) /\ l.content = b[Len(n) + 1]
    BY DEF Continued, CountOf
<1>2. Range(a) \subseteq Line /\ Range(b) \subseteq Line
    <2>1. \A t \in Seq(Line) : Range(t) \subseteq Line
        <3> SUFFICES ASSUME NEW t \in Seq(Line), NEW i \in DOMAIN t PROVE t[i] \in Line
            BY DEF Range
        <3>1. i \in 1 .. Len(t)
            BY LenProperties
        <3> QED
            BY <3>1, ElementOfSeq
    <2> QED
        BY <2>1
<1>3. l \in HunkLine
    BY <1>2 DEF HunkLine
<1>4. s \in Seq(HunkLine) /\ BeginsWith(a, o) /\ BeginsWith(b, n)
    BY DEF Aligned, Sides
<1> HIDE DEF o, n
<1>5. BeginsWith(a, LinesOf(c, {" ", "-"}))
    BY <1>1, <1>3, <1>4, SideContinued DEF o
<1>6. BeginsWith(b, LinesOf(c, {" ", "+"}))
    BY <1>1, <1>3, <1>4, SideContinued DEF n
<1>7. c \in Seq(HunkLine)
    BY <1>1, <1>3, <1>4, AppendProperties
<1> QED
    BY <1>5, <1>6, <1>7 DEF Aligned, Sides

LEMMA ScriptsAligned ==
    ASSUME NEW a \in Seq(Line), NEW b \in Seq(Line)
    PROVE  /\ Scripts(a, b) \subseteq Aligned(a, b)
           /\ \A s \in Scripts(a, b) : IsScript(a, b, s)
<1> DEFINE L == Len(a) + Len(b)
           S == SUBSET Aligned(a, b)
           Longer(g, n) == g[n - 1] \cup UNION {Continued(a, b, s) : s \in g[n - 1]}
           Is(g) == g = [n \in 0 .. L |-> IF n = 0 THEN {<<>>} ELSE Longer(g, n)]
           F == [p \in (1 .. L) \X S |-> p[2] \cup UNION {Continued(a, b, s) : s \in p[2]}]
           upTo == CHOOSE g : Is(g)
<1>1. Scripts(a, b) = {s \in upTo[L] : IsScript(a, b, s)}
    BY Zenon DEF Scripts
<1>2. L \in Nat
    BY LenProperties
<1>3. ASSUME NEW A \in S PROVE A \cup UNION {Continued(a, b, s) : s \in A} \in S
    <2>1. \A s \in A : Continued(a, b, s) \subseteq Aligned(a, b)
        BY <1>3, ContinuedAligned
    <2> QED
        BY <2>1
<1>4. {<<>>} \in S /\ F \in [(1 .. L) \X S -> S]
    <2>1. <<>> \in Aligned(a, b)
        <3>1. <<>> \in Seq(HunkLine)
            BY EmptySeq
        <3>2. ASSUME NEW ops PROVE LinesOf(<<>>, ops) = <<>>
            <4>1. Collected(LinesTo(<<>>, ops), <<>>, ops)
                BY <3>1, LinesToIs
            <4> QED
                BY <4>1 DEF Collected, LinesOf
        <3>3. BeginsWith(a, <<>>) /\ BeginsWith(b, <<>>)
            BY LenProperties DEF BeginsWith
        <3> QED
            BY <3>1, <3>2, <3>3 DEF Aligned, Sides
    <2>2. F \in [(1 .. L) \X S -> S]
        <3> HIDE DEF S
        <3> QED
            BY <1>3
    <2> QED
        BY <2>1, <2>2
<1> HIDE DEF L, S
<1>5. PICK g \in [0 .. L -> S] :
          /\ g[0] = {<<>>}
          /\ \A n \in 1 .. L : g[n] = F[<<n, g[n - 1]>>]
    <2> HIDE DEF F
    <2>1. Recursive(L, S, {<<>>}, F)
        BY <1>2, <1>4, Recursion
    <2> QED
        BY <2>1 DEF Recursive
<1>6. Is(g)
    <2>1. ASSUME NEW n \in 1 .. L PROVE F[<<n, g[n - 1]>>] = Longer(g, n)
        <3>1. n - 1 \in 0 .. L
            BY <1>2
        <3>2. g[n - 1] \in S
            BY <3>1
        <3> QED
            BY <3>2
    <2>2. \A n \in 0 .. L : n = 0 \/ n \in 1 .. L
        BY <1>2
    <2> HIDE DEF Longer, F
    <2>3. \A n \in 0 .. L : g[n] = IF n = 0 THEN {<<>>} ELSE Longer(g, n)
        BY <1>5, <2>1, <2>2
    <2>4. DOMAIN g = 0 .. L /\ g = [n \in DOMAIN g |-> g[n]]
        BY <1>5
    <2> QED
        BY <2>3, <2>4
<1>7. Is(upTo)
    <2> HIDE DEF Longer
    <2> QED
        BY <1>6
<1>8. upTo[0] = {<<>>} /\ \A n \in 1 .. L : upTo[n] = Longer(upTo, n)
    <2>1. 0 \in 0 .. L /\ \A n \in 1 .. L : n \in 0 .. L /\ n # 0
        BY <1>2
    <2> HIDE DEF upTo, Longer
    <2> QED
        BY <1>7, <2>1
<1>9. \A n \in 0 .. L : upTo[n] \in S
    <2> HIDE DEF upTo
    <2>1. ASSUME NEW n \in 1 .. L, upTo[n - 1] \in S PROVE upTo[n] \in S
        <3>1. upTo[n] = Longer(upTo, n)
            BY <1>8
        <3> QED
            BY <1>3, <2>1, <3>1
    <2>2. upTo[0] \in S
        BY <1>4, <1>8
    <2> QED
        BY <1>2, <2>1, <2>2, Stays
<1>10. upTo[L] \subseteq Aligned(a, b)
    <2>1. L \in 0 .. L
        BY <1>2
    <2> QED
        BY <1>9, <2>1 DEF S
<1> HIDE DEF upTo
<1> QED
    BY <1>1, <1>10

\* A script's unchanged and removed lines are the old file, its unchanged and
\* added lines the new one.
LEMMA ScriptSides ==
    ASSUME NEW a \in Seq(Line), NEW b \in Seq(Line), NEW s \in Scripts(a, b)
    PROVE  /\ s \in Seq(HunkLine)
           /\ LinesOf(s, {" ", "-"}) = a /\ LinesOf(s, {" ", "+"}) = b
<1> DEFINE o == LinesOf(s, {" ", "-"})
           n == LinesOf(s, {" ", "+"})
<1>1. s \in Seq(HunkLine) /\ BeginsWith(a, o) /\ BeginsWith(b, n)
    BY ScriptsAligned DEF Aligned, Sides
<1>2. Len(o) = Len(a) /\ Len(n) = Len(b)
    BY ScriptsAligned DEF IsScript, CountOf
<1>3. o \in Seq(Line) /\ n \in Seq(Line)
    BY <1>1, LinesOfTyped
<1> HIDE DEF o, n
<1>4. o = a /\ n = b
    BY <1>1, <1>2, <1>3, SeqEqual DEF BeginsWith
<1> QED
    BY <1>1, <1>4 DEF o, n
-----------------------------------------------------------------------------
(* Parts of a script.                                                      *)

LEMMA BeginningOf ==
    ASSUME NEW s \in Seq(HunkLine), NEW ops, NEW n \in 0 .. Len(s)
    PROVE  /\ SubSeq(s, 1, n) \in Seq(HunkLine)
           /\ LinesOf(SubSeq(s, 1, n), ops) = LinesTo(s, ops)[n]
<1> DEFINE t == SubSeq(s, 1, n)
<1>1. 0 \in Nat /\ n \in Nat /\ n <= Len(s) /\ 0 <= n /\ 0 + 1 = 1 /\ n - 0 = n
    BY LenProperties
<1>2. t \in Seq(HunkLine) /\ Len(t) = n /\ \A i \in 1 .. n : t[i] = s[i]
    <2>1. /\ SubSeq(s, 0 + 1, n) \in Seq(HunkLine) /\ Len(SubSeq(s, 0 + 1, n)) = n - 0
          /\ \A i \in 1 .. (n - 0) : SubSeq(s, 0 + 1, n)[i] = s[0 + i]
        BY <1>1, Slice
    <2>2. \A i \in 1 .. n : 0 + i = i
        BY <1>1
    <2> QED
        BY <1>1, <2>1, <2>2
<1> HIDE DEF t
<1>3. n \in 0 .. Len(t) /\ n <= Len(s)
    BY <1>1, <1>2
<1>4. LinesTo(t, ops)[n] = LinesTo(s, ops)[n]
    BY <1>2, <1>3, LinesToSame
<1> QED
    BY <1>2, <1>4 DEF t, LinesOf

LEMMA PartOf ==
    ASSUME NEW s \in Seq(HunkLine), NEW ops, NEW m \in 0 .. Len(s), NEW n \in m .. Len(s)
    PROVE  /\ SubSeq(s, m + 1, n) \in Seq(HunkLine)
           /\ LinesTo(s, ops)[n] = LinesTo(s, ops)[m] \o LinesOf(SubSeq(s, m + 1, n), ops)
<1> DEFINE t == SubSeq(s, 1, n)
           u == SubSeq(s, 1, m)
           v == SubSeq(s, m + 1, n)
<1>1. /\ 0 \in Nat /\ n \in Nat /\ n <= Len(s) /\ m \in Nat /\ m <= n /\ 0 <= n /\ 0 <= m
      /\ m <= Len(s) /\ 0 + 1 = 1 /\ n - 0 = n /\ m - 0 = m /\ n \in 0 .. Len(s)
      /\ \A i \in Nat : 0 + i = i
    BY LenProperties
<1>2. v \in Seq(HunkLine) /\ Len(v) = n - m /\ \A i \in 1 .. (n - m) : v[i] = s[m + i]
    BY <1>1, Slice
<1>3. t \in Seq(HunkLine) /\ Len(t) = n /\ \A i \in 1 .. n : t[i] = s[i]
    <2>1. /\ SubSeq(s, 0 + 1, n) \in Seq(HunkLine) /\ Len(SubSeq(s, 0 + 1, n)) = n - 0
          /\ \A i \in 1 .. (n - 0) : SubSeq(s, 0 + 1, n)[i] = s[0 + i]
        BY <1>1, Slice
    <2> QED
        BY <1>1, <2>1
<1>4. u \in Seq(HunkLine) /\ Len(u) = m /\ \A i \in 1 .. m : u[i] = s[i]
    <2>1. /\ SubSeq(s, 0 + 1, m) \in Seq(HunkLine) /\ Len(SubSeq(s, 0 + 1, m)) = m - 0
          /\ \A i \in 1 .. (m - 0) : SubSeq(s, 0 + 1, m)[i] = s[0 + i]
        BY <1>1, Slice
    <2> QED
        BY <1>1, <2>1
<1> HIDE DEF t, u, v
<1>5. t = u \o v
    <2> DEFINE w == u \o v
    <2>1. w \in Seq(HunkLine) /\ Len(w) = n
          /\ \A i \in 1 .. n : w[i] = IF i <= m THEN u[i] ELSE v[i - m]
        <3>1. w \in Seq(HunkLine) /\ Len(w) = Len(u) + Len(v)
              /\ \A i \in 1 .. Len(u) + Len(v) : w[i] = IF i <= Len(u) THEN u[i] ELSE v[i - Len(u)]
            BY <1>2, <1>4, ConcatProperties
        <3>2. m + (n - m) = n
            BY <1>1
        <3> HIDE DEF w
        <3> QED
            BY <1>2, <1>4, <3>1, <3>2
    <2> HIDE DEF w
    <2>2. ASSUME NEW i \in 1 .. n PROVE t[i] = w[i]
        <3>1. CASE i <= m
            <4>1. i \in 1 .. m
                BY <1>1, <3>1
            <4> QED
                BY <1>3, <1>4, <2>1, <3>1, <4>1
        <3>2. CASE ~(i <= m)
            <4>1. i - m \in 1 .. (n - m) /\ m + (i - m) = i
                BY <1>1, <3>2
            <4> QED
                BY <1>2, <1>3, <2>1, <3>2, <4>1
        <3> QED
            BY <3>1, <3>2
    <2>3. t = w
        BY <1>3, <2>1, <2>2, SeqEqual
    <2> QED
        BY <2>3 DEF w
<1>6. LinesOf(t, ops) = LinesOf(u, ops) \o LinesOf(v, ops)
    BY <1>2, <1>4, <1>5, LinesOfConcat
<1>7. LinesOf(t, ops) = LinesTo(s, ops)[n] /\ LinesOf(u, ops) = LinesTo(s, ops)[m]
    BY <1>1, BeginningOf DEF t, u
<1> QED
    BY <1>2, <1>6, <1>7 DEF v

\* A hunk stands in both files where the lines before it in the script end.
LEMMA HunkOfStands ==
    ASSUME NEW s \in Seq(HunkLine), NEW m \in 0 .. Len(s), NEW n \in m .. Len(s)
    PROVE  LET h == HunkOf(s, m + 1, n)
               old == LinesTo(s, {" ", "-"})
               new == LinesTo(s, {" ", "+"})
           IN  /\ h \in Hunk
               /\ Start(h) = Len(old[m]) /\ NewStart(h) = Len(new[m])
               /\ old[n] = old[m] \o Old(h) /\ new[n] = new[m] \o New(h)
<1> DEFINE passed == SubSeq(s, 1, (m + 1) - 1)
           part == SubSeq(s, m + 1, n)
           old == LinesTo(s, {" ", "-"})
           new == LinesTo(s, {" ", "+"})
           i == Len(LinesOf(part, {" ", "-"}))
           j == Len(LinesOf(part, {" ", "+"}))
           h == HunkOf(s, m + 1, n)
<1>1. (m + 1) - 1 = m
    OBVIOUS
<1>2. LinesOf(passed, {" ", "-"}) = old[m] /\ LinesOf(passed, {" ", "+"}) = new[m]
    BY <1>1, BeginningOf
<1>3. /\ part \in Seq(HunkLine)
      /\ old[n] = old[m] \o LinesOf(part, {" ", "-"})
      /\ new[n] = new[m] \o LinesOf(part, {" ", "+"})
    BY PartOf
<1>4. Len(old[m]) \in Nat /\ Len(new[m]) \in Nat
    <2>1. Collected(old, s, {" ", "-"}) /\ Collected(new, s, {" ", "+"})
        BY LinesToIs
    <2>2. old[m] \in Seq(Line) /\ new[m] \in Seq(Line)
        BY <2>1 DEF Collected
    <2> QED
        BY <2>2, LenProperties
<1>5. i \in Nat /\ j \in Nat
    BY <1>3, LinesOfTyped
<1>6. h = [oldStart |-> FirstLine(Len(old[m]), i), oldCount |-> i,
           newStart |-> FirstLine(Len(new[m]), j), newCount |-> j, lines |-> part]
    BY <1>2 DEF HunkOf, CountOf
<1> HIDE DEF part, i, j, old, new, h
<1>7. h \in Hunk
    <2>1. FirstLine(Len(old[m]), i) \in Nat /\ FirstLine(Len(new[m]), j) \in Nat
        BY <1>4, <1>5 DEF FirstLine
    <2> QED
        BY <1>3, <1>5, <1>6, <2>1 DEF Hunk
<1>8. Start(h) = Len(old[m]) /\ NewStart(h) = Len(new[m])
    BY <1>4, <1>5, <1>6 DEF Start, NewStart, FirstLine
<1>9. old[n] = old[m] \o Old(h) /\ new[n] = new[m] \o New(h)
    BY <1>3, <1>6 DEF Old, New
<1> QED
    BY <1>7, <1>8, <1>9 DEF h, old, new
-----------------------------------------------------------------------------
(* The hunks of a script.                                                  *)

Shown(script) == {i \in DOMAIN script : \E j \in DOMAIN script :
                     script[j].operation # " " /\ i - j \in -Context .. Context}

FirstShown(script, n) == CHOOSE m \in 1 .. n : m .. n \subseteq Shown(script) /\ m - 1 \notin Shown(script)

Closes(script, n) == n \in Shown(script) /\ n + 1 \notin Shown(script)

LEMMA ShownIs ==
    ASSUME NEW s \in Seq(HunkLine)
    PROVE  /\ Shown(s) \subseteq 1 .. Len(s) /\ Len(s) \in Nat
           /\ \A i \in 1 .. Len(s) : s[i].operation # " " => i \in Shown(s)
<1>1. DOMAIN s = 1 .. Len(s) /\ Len(s) \in Nat
    BY LenProperties
<1>2. \A i \in 1 .. Len(s) : i - i \in -Context .. Context
    BY <1>1, DiffAssumption
<1>3. Shown(s) \subseteq 1 .. Len(s)
    BY <1>1 DEF Shown
<1>4. \A i \in 1 .. Len(s) : s[i].operation # " " => i \in Shown(s)
    BY <1>1, <1>2, Zenon DEF Shown
<1> QED
    BY <1>1, <1>3, <1>4

LEMMA FirstShownIs ==
    ASSUME NEW s \in Seq(HunkLine), NEW n \in Shown(s)
    PROVE  /\ FirstShown(s, n) \in 1 .. n
           /\ FirstShown(s, n) .. n \subseteq Shown(s)
           /\ FirstShown(s, n) - 1 \notin Shown(s)
<1> DEFINE U == Shown(s)
           T == {m \in 1 .. n : m .. n \subseteq U}
<1>1. U \subseteq 1 .. Len(s) /\ Len(s) \in Nat /\ n \in U
    BY ShownIs
<1> HIDE DEF U
<1>2. n \in Nat /\ n >= 1 /\ 0 \notin U /\ n .. n = {n}
    BY <1>1
<1>3. T \subseteq Nat /\ n \in T
    BY <1>1, <1>2
<1>4. PICK m \in T : \A y \in T : m <= y
    BY <1>3, Least
<1>5. m \in 1 .. n /\ m .. n \subseteq U
    BY <1>4
<1>6. m - 1 \notin U
    <2> SUFFICES ASSUME m - 1 \in U PROVE FALSE
        OBVIOUS
    <2>1. m - 1 \in 1 .. n /\ ~(m <= m - 1)
        BY <1>1, <1>2, <1>5
    <2>2. (m - 1) .. n \subseteq U
        <3>1. \A i \in (m - 1) .. n : i = m - 1 \/ i \in m .. n
            BY <1>2, <1>5
        <3> QED
            BY <1>5, <3>1
    <2>3. m - 1 \in T
        BY <2>1, <2>2
    <2> QED
        BY <1>4, <2>1, <2>3
<1>7. \E x \in 1 .. n : x .. n \subseteq U /\ x - 1 \notin U
    BY <1>5, <1>6
<1> QED
    BY <1>7 DEF FirstShown, U

\* What the recursion of HunksOf goes through.
Hunking(hunks, s) ==
    /\ hunks[0] = <<>>
    /\ \A n \in 1 .. Len(s) :
          hunks[n] = IF Closes(s, n)
                     THEN Append(hunks[n - 1], HunkOf(s, FirstShown(s, n), n))
                     ELSE hunks[n - 1]
    /\ \A n \in 0 .. Len(s) : hunks[n] \in Seq(Hunk)
    /\ HunksOf(s) = hunks[Len(s)]

LEMMA HunksOfIs ==
    ASSUME NEW s \in Seq(HunkLine)
    PROVE  \E hunks : Hunking(hunks, s)
<1> DEFINE L == Len(s)
           Next1(hs, n) == IF Closes(s, n) THEN Append(hs, HunkOf(s, FirstShown(s, n), n))
                           ELSE hs
           Is(g) == g = [n \in 0 .. L |-> IF n = 0 THEN <<>> ELSE Next1(g[n - 1], n)]
           F == [p \in (1 .. L) \X Seq(Hunk) |-> Next1(p[2], p[1])]
           hunks == CHOOSE g : Is(g)
<1>1. HunksOf(s) = hunks[L]
    BY Zenon DEF HunksOf, Closes, FirstShown, Shown
<1>2. L \in Nat
    BY LenProperties
<1>3. ASSUME NEW n \in 1 .. L, NEW hs \in Seq(Hunk) PROVE Next1(hs, n) \in Seq(Hunk)
    <2>1. CASE Closes(s, n)
        <3> DEFINE f == FirstShown(s, n)
        <3>1. n \in Shown(s)
            BY <2>1 DEF Closes
        <3>2. f \in 1 .. n
            BY <3>1, FirstShownIs
        <3> HIDE DEF f
        <3>3. f - 1 \in 0 .. L /\ n \in (f - 1) .. L /\ (f - 1) + 1 = f
            BY <1>2, <3>2
        <3>4. HunkOf(s, (f - 1) + 1, n) \in Hunk
            BY <3>3, HunkOfStands
        <3>5. Append(hs, HunkOf(s, f, n)) \in Seq(Hunk)
            BY <3>3, <3>4, AppendProperties
        <3> QED
            BY <2>1, <3>5 DEF f
    <2>2. CASE ~Closes(s, n)
        BY <1>3, <2>2
    <2> QED
        BY <2>1, <2>2
<1> HIDE DEF L, Next1
<1>4. <<>> \in Seq(Hunk) /\ F \in [(1 .. L) \X Seq(Hunk) -> Seq(Hunk)]
    BY <1>3, EmptySeq
<1>5. PICK g \in [0 .. L -> Seq(Hunk)] :
          /\ g[0] = <<>>
          /\ \A n \in 1 .. L : g[n] = F[<<n, g[n - 1]>>]
    <2> HIDE DEF F
    <2>1. Recursive(L, Seq(Hunk), <<>>, F)
        BY <1>2, <1>4, Recursion
    <2> QED
        BY <2>1 DEF Recursive
<1>6. Is(g)
    <2>1. ASSUME NEW n \in 1 .. L PROVE F[<<n, g[n - 1]>>] = Next1(g[n - 1], n)
        <3>1. n - 1 \in 0 .. L
            BY <1>2
        <3>2. g[n - 1] \in Seq(Hunk)
            BY <3>1
        <3> QED
            BY <3>2
    <2>2. \A n \in 0 .. L : n = 0 \/ n \in 1 .. L
        BY <1>2
    <2>3. \A n \in 0 .. L : g[n] = IF n = 0 THEN <<>> ELSE Next1(g[n - 1], n)
        <3> HIDE DEF F
        <3> QED
            BY <1>5, <2>1, <2>2
    <2>4. DOMAIN g = 0 .. L /\ g = [n \in DOMAIN g |-> g[n]]
        BY <1>5
    <2> QED
        BY <2>3, <2>4
<1>7. Is(hunks)
    BY <1>6
<1>8. hunks[0] = <<>> /\ \A n \in 1 .. L : hunks[n] = Next1(hunks[n - 1], n)
    <2>1. 0 \in 0 .. L /\ \A n \in 1 .. L : n \in 0 .. L /\ n # 0
        BY <1>2
    <2> HIDE DEF hunks
    <2> QED
        BY <1>7, <2>1
<1>9. \A n \in 0 .. L : hunks[n] \in Seq(Hunk)
    <2> HIDE DEF hunks
    <2>1. /\ hunks[0] \in Seq(Hunk)
          /\ \A n \in 1 .. L : hunks[n - 1] \in Seq(Hunk) => hunks[n] \in Seq(Hunk)
        BY <1>3, <1>4, <1>8
    <2> QED
        BY <1>2, <2>1, Stays
<1> HIDE DEF hunks
<1>10. Hunking(hunks, s)
    BY <1>1, <1>8, <1>9, Zenon DEF L, Next1, Hunking
<1> QED
    BY <1>10

LEMMA HunksOfTyped ==
    ASSUME NEW s \in Seq(HunkLine)
    PROVE  HunksOf(s) \in Seq(Hunk)
<1>1. Len(s) \in 0 .. Len(s)
    BY LenProperties
<1> QED
    BY <1>1, HunksOfIs DEF Hunking
-----------------------------------------------------------------------------
(* What build_diff writes.                                                 *)

LEMMA PieceTyped ==
    ASSUME NEW text \in Seq(Atoms), NEW end \in {"lf", "none", "sep"}
    PROVE  Piece(text, end) \in DiffPiece
BY DEF Piece, DiffPiece

LEMMA ShortTyped ==
    ASSUME NEW S, NEW x \in S, NEW y \in S
    PROVE  <<x>> \in Seq(S) /\ <<x, y>> \in Seq(S)
<1>1. <<>> \in Seq(S)
    BY EmptySeq
<1>2. <<x>> \in Seq(S)
    OBVIOUS
<1>3. <<x, y>> \in Seq(S)
    OBVIOUS
<1> QED
    BY <1>2, <1>3

LEMMA MarksTyped ==
    /\ "-" \in Atoms /\ "+" \in Atoms /\ "-- " \in Atoms /\ "++ " \in Atoms
    /\ "@@" \in Atoms /\ "a/" \in Atoms /\ "b/" \in Atoms /\ "/dev/null" \in Atoms
    /\ "\\ No newline at end of file" \in Atoms
BY DiffAssumption DEF Marks

LEMMA WrittenTyped ==
    ASSUME NEW l \in HunkLine
    PROVE  Written(l) \in Seq(DiffPiece)
<1> DEFINE text == <<l.operation>> \o l.content.text
           end == l.content.end
<1>1. /\ l.operation \in Atoms /\ l.content.text \in Seq(Atoms)
      /\ end \in {"lf", "none", "sep"}
    <2>1. l.operation \in {" ", "+", "-"} /\ l.content \in Line
        BY DEF HunkLine
    <2>2. {" ", "+", "-"} \subseteq Atoms
        BY DiffAssumption DEF Marks
    <2> QED
        BY <2>1, <2>2 DEF Line
<1>2. text \in Seq(Atoms)
    <2>1. <<l.operation>> \in Seq(Atoms)
        BY <1>1, ShortTyped
    <2> QED
        BY <1>1, <2>1, ConcatProperties
<1> HIDE DEF text, end
<1> DEFINE x == Piece(text, end)
           y == Piece(<<>>, "lf")
<1>3. x \in DiffPiece /\ y \in DiffPiece
    <2>1. <<>> \in Seq(Atoms)
        BY EmptySeq
    <2> QED
        BY <1>1, <1>2, <2>1, PieceTyped
<1>4. Marker \in DiffPiece
    <2>1. <<"\\ No newline at end of file">> \in Seq(Atoms)
        BY MarksTyped, ShortTyped
    <2> QED
        BY <2>1, PieceTyped DEF Marker
<1> HIDE DEF x, y
<1>5. <<x>> \in Seq(DiffPiece) /\ <<x, y, Marker>> \in Seq(DiffPiece)
    <2>1. <<x>> \in Seq(DiffPiece)
        BY <1>3, ShortTyped
    <2>2. <<x, y, Marker>> \in Seq(DiffPiece)
        BY <1>3, <1>4
    <2> QED
        BY <2>1, <2>2
<1> QED
    BY <1>5 DEF Written, x, y, text, end

LEMMA WrittenHunkTyped ==
    ASSUME NEW h \in Hunk
    PROVE  WrittenHunk(h) \in Seq(DiffPiece)
<1> DEFINE seqs == [i \in 1 .. Len(h.lines) |-> Written(h.lines[i])]
           flat == FlattenSeq(seqs)
           at == <<h.oldStart, h.oldCount, h.newStart, h.newCount>>
           x == [text |-> <<"@@">>, end |-> "lf", at |-> at]
<1>1. h.lines \in Seq(HunkLine) /\ Len(h.lines) \in Nat
    BY HunkTyped
<1>2. \A i \in 1 .. Len(h.lines) : Written(h.lines[i]) \in Seq(DiffPiece)
    BY <1>1, LinesTyped, WrittenTyped
<1>3. seqs \in Seq(Seq(DiffPiece))
    BY <1>1, <1>2, IsASeq
<1> HIDE DEF seqs
<1>4. flat \in Seq(DiffPiece)
    BY <1>3, FlattenTyped
<1>5. x \in DiffPiece
    <2>1. <<"@@">> \in Seq(Atoms)
        BY MarksTyped, ShortTyped
    <2>2. at \in Nat \X Nat \X Nat \X Nat
        BY DEF Hunk
    <2> HIDE DEF at
    <2> QED
        BY <2>1, <2>2 DEF DiffPiece
<1> HIDE DEF flat, x
<1>6. <<x>> \o flat \in Seq(DiffPiece)
    <2>1. <<x>> \in Seq(DiffPiece)
        BY <1>5, ShortTyped
    <2> QED
        BY <1>4, <2>1, ConcatProperties
<1> QED
    BY <1>6 DEF WrittenHunk, flat, x, seqs, at

LEMMA FileDiffTyped ==
    ASSUME NEW path \in Paths, NEW before, NEW after, NEW hunks \in Seq(Hunk)
    PROVE  FileDiff(path, before, after, hunks) \in Seq(DiffPiece)
<1> DEFINE seqs == [i \in 1 .. Len(hunks) |-> WrittenHunk(hunks[i])]
           flat == FlattenSeq(seqs)
           o == OldHeader \o HeaderName("a/", before, path)
           n == NewHeader \o HeaderName("b/", after, path)
           x == Piece(o, "lf")
           y == Piece(n, "lf")
<1>1. Len(hunks) \in Nat /\ \A i \in 1 .. Len(hunks) : hunks[i] \in Hunk
    BY ElementOfSeq, LenProperties
<1>2. \A i \in 1 .. Len(hunks) : WrittenHunk(hunks[i]) \in Seq(DiffPiece)
    BY <1>1, WrittenHunkTyped
<1>3. seqs \in Seq(Seq(DiffPiece))
    BY <1>1, <1>2, IsASeq
<1> HIDE DEF seqs
<1>4. flat \in Seq(DiffPiece)
    BY <1>3, FlattenTyped
<1>5. ASSUME NEW p \in {"a/", "b/"}, NEW f PROVE HeaderName(p, f, path) \in Seq(Atoms)
    <2>1. path \in Atoms /\ p \in Atoms
        BY DiffAssumption, MarksTyped
    <2>2. <<p, path>> \in Seq(Atoms) /\ <<"/dev/null">> \in Seq(Atoms)
        BY <2>1, MarksTyped, ShortTyped
    <2> QED
        BY <2>2 DEF HeaderName
<1>6. o \in Seq(Atoms) /\ n \in Seq(Atoms)
    <2>1. OldHeader \in Seq(Atoms) /\ NewHeader \in Seq(Atoms)
        BY MarksTyped, ShortTyped DEF OldHeader, NewHeader
    <2>2. HeaderName("a/", before, path) \in Seq(Atoms)
          /\ HeaderName("b/", after, path) \in Seq(Atoms)
        BY <1>5
    <2> QED
        BY <2>1, <2>2, ConcatProperties
<1> HIDE DEF o, n
<1>7. x \in DiffPiece /\ y \in DiffPiece
    BY <1>6, PieceTyped
<1> HIDE DEF flat, x, y
<1>8. <<x, y>> \o flat \in Seq(DiffPiece) /\ <<>> \in Seq(DiffPiece)
    <2>1. <<x, y>> \in Seq(DiffPiece)
        BY <1>7, ShortTyped
    <2> QED
        BY <1>4, <2>1, ConcatProperties, EmptySeq
<1> QED
    BY <1>8 DEF FileDiff, flat, x, y, seqs, o, n

LEMMA FileDiffsTyped ==
    ASSUME NEW path \in Paths, NEW before \in File, NEW after \in File
    PROVE  FileDiffs(path, before, after) \subseteq Seq(DiffPiece)
<1>1. before.lines \in Seq(Line) /\ after.lines \in Seq(Line)
    BY DEF File
<1>2. ASSUME NEW s \in Scripts(before.lines, after.lines)
      PROVE  FileDiff(path, before, after, HunksOf(s)) \in Seq(DiffPiece)
    BY <1>1, ScriptSides, HunksOfTyped, FileDiffTyped
<1>3. <<>> \in Seq(DiffPiece)
    BY EmptySeq
<1> QED
    BY <1>2, <1>3 DEF FileDiffs

LEMMA JoinedTyped ==
    ASSUME NEW ds, ds \subseteq Seq(DiffPiece), NEW es, es \subseteq Seq(DiffPiece)
    PROVE  Joined(ds, es) \subseteq Seq(DiffPiece)
<1> SUFFICES ASSUME NEW x \in Joined(ds, es) PROVE x \in Seq(DiffPiece)
    OBVIOUS
<1>1. PICK d \in ds, e \in es : x = d \o e
    BY DEF Joined
<1>2. d \in Seq(DiffPiece) /\ e \in Seq(DiffPiece)
    OBVIOUS
<1> QED
    BY <1>1, <1>2, ConcatProperties

\* What the recursion of Diffs goes through.
Differing(diffs, before, after) ==
    /\ diffs[0] = {<<>>}
    /\ \A n \in 1 .. Len(PathOrder) :
          LET path == PathOrder[n] IN
          diffs[n] = Joined(diffs[n - 1], FileDiffs(path, before[path], after[path]))
    /\ \A n \in 0 .. Len(PathOrder) : diffs[n] \subseteq Seq(DiffPiece)
    /\ Diffs(before, after) = diffs[Len(PathOrder)]

LEMMA DiffsAre ==
    ASSUME NEW before \in [Paths -> File], NEW after \in [Paths -> File]
    PROVE  \E diffs : Differing(diffs, before, after)
<1> DEFINE L == Len(PathOrder)
           Of(path) == FileDiffs(path, before[path], after[path])
           S == SUBSET Seq(DiffPiece)
           Next1(ds, n) == Joined(ds, Of(PathOrder[n]))
           Is(g) == g = [n \in 0 .. L |-> IF n = 0 THEN {<<>>} ELSE Next1(g[n - 1], n)]
           F == [p \in (1 .. L) \X S |-> Next1(p[2], p[1])]
           diffs == CHOOSE g : Is(g)
<1>1. Diffs(before, after) = diffs[L]
    BY Zenon DEF Diffs
<1>2. L \in Nat /\ \A n \in 1 .. L : PathOrder[n] \in Paths
    <2>1. PathOrder \in Seq(Paths)
        BY DiffAssumption
    <2> QED
        BY <2>1, ElementOfSeq, LenProperties
<1>3. ASSUME NEW n \in 1 .. L, NEW ds \in S PROVE Next1(ds, n) \in S
    <2>1. PathOrder[n] \in Paths /\ before[PathOrder[n]] \in File /\ after[PathOrder[n]] \in File
        BY <1>2
    <2>2. Of(PathOrder[n]) \subseteq Seq(DiffPiece)
        BY <2>1, FileDiffsTyped
    <2> DEFINE es == Of(PathOrder[n])
    <2>3. ds \subseteq Seq(DiffPiece) /\ es \subseteq Seq(DiffPiece)
        BY <1>3, <2>2
    <2> HIDE DEF es
    <2>4. Joined(ds, es) \subseteq Seq(DiffPiece)
        BY <2>3, JoinedTyped
    <2> QED
        BY <2>4 DEF es
<1>4. {<<>>} \in S
    BY EmptySeq
<1> HIDE DEF L, S, Next1
<1>5. F \in [(1 .. L) \X S -> S]
    BY <1>3
<1>6. PICK g \in [0 .. L -> S] :
          /\ g[0] = {<<>>}
          /\ \A n \in 1 .. L : g[n] = F[<<n, g[n - 1]>>]
    <2> HIDE DEF F
    <2>1. Recursive(L, S, {<<>>}, F)
        BY <1>2, <1>4, <1>5, Recursion
    <2> QED
        BY <2>1 DEF Recursive
<1>7. Is(g)
    <2>1. ASSUME NEW n \in 1 .. L PROVE F[<<n, g[n - 1]>>] = Next1(g[n - 1], n)
        <3>1. n - 1 \in 0 .. L
            BY <1>2
        <3>2. g[n - 1] \in S
            BY <3>1
        <3> QED
            BY <3>2
    <2>2. \A n \in 0 .. L : n = 0 \/ n \in 1 .. L
        BY <1>2
    <2>3. \A n \in 0 .. L : g[n] = IF n = 0 THEN {<<>>} ELSE Next1(g[n - 1], n)
        <3> HIDE DEF F
        <3> QED
            BY <1>6, <2>1, <2>2
    <2>4. DOMAIN g = 0 .. L /\ g = [n \in DOMAIN g |-> g[n]]
        BY <1>6
    <2> QED
        BY <2>3, <2>4
<1>8. Is(diffs)
    BY <1>7
<1>9. diffs[0] = {<<>>} /\ \A n \in 1 .. L : diffs[n] = Next1(diffs[n - 1], n)
    <2>1. 0 \in 0 .. L /\ \A n \in 1 .. L : n \in 0 .. L /\ n # 0
        BY <1>2
    <2> HIDE DEF diffs
    <2> QED
        BY <1>8, <2>1
<1>10. \A n \in 0 .. L : diffs[n] \in S
    <2> HIDE DEF diffs
    <2>1. diffs[0] \in S /\ \A n \in 1 .. L : diffs[n - 1] \in S => diffs[n] \in S
        BY <1>3, <1>4, <1>9
    <2> QED
        BY <1>2, <2>1, Stays
<1> HIDE DEF diffs
<1>11. Differing(diffs, before, after)
    <2>1. \A n \in 0 .. L : diffs[n] \subseteq Seq(DiffPiece)
        BY <1>10 DEF S
    <2> QED
        BY <1>1, <1>9, <2>1, Zenon DEF L, Next1, Differing
<1> QED
    BY <1>11

LEMMA DiffsTyped ==
    ASSUME NEW before \in [Paths -> File], NEW after \in [Paths -> File]
    PROVE  Diffs(before, after) \subseteq Seq(DiffPiece)
<1>1. Len(PathOrder) \in 0 .. Len(PathOrder)
    <2>1. PathOrder \in Seq(Paths)
        BY DiffAssumption
    <2> QED
        BY <2>1, LenProperties
<1> QED
    BY <1>1, DiffsAre DEF Differing
-----------------------------------------------------------------------------
(* The hunks of a script, applied to the old file, give the new one.       *)

\* After what p holds of a text comes what g holds.
Middle(a, p, g) ==
    /\ Len(p \o g) = Len(p) + Len(g) /\ Len(p) + Len(g) <= Len(a)
    /\ \A j \in 1 .. Len(g) : a[Len(p) + j] = g[j]
    /\ SubSeq(a, Len(p) + 1, Len(p) + Len(g)) = g

LEMMA MiddleOf ==
    ASSUME NEW a \in Seq(Line), NEW p \in Seq(Line), NEW g \in Seq(Line),
           BeginsWith(a, p \o g)
    PROVE  Middle(a, p, g)
<1> DEFINE w == p \o g
           m == Len(p)
           d == Len(g)
<1>1. Len(w) = m + d /\ \A i \in 1 .. m + d : w[i] = IF i <= m THEN p[i] ELSE g[i - m]
    BY ConcatProperties
<1>2. m \in Nat /\ d \in Nat /\ Len(a) \in Nat
    BY LenProperties
<1>3. Len(w) <= Len(a) /\ \A j \in 1 .. Len(w) : a[j] = w[j]
    BY DEF BeginsWith
<1> HIDE DEF w, m, d
<1>4. ASSUME NEW j \in 1 .. d PROVE a[m + j] = g[j]
    <2>1. m + j \in 1 .. m + d /\ ~(m + j <= m) /\ (m + j) - m = j
        BY <1>2
    <2> QED
        BY <1>1, <1>3, <2>1
<1>5. SubSeq(a, m + 1, m + d) = g
    <2> DEFINE t == SubSeq(a, m + 1, m + d)
    <2>1. m + d \in Nat /\ m + d <= Len(a) /\ m <= m + d /\ (m + d) - m = d
        BY <1>1, <1>2, <1>3
    <2>2. t \in Seq(Line) /\ Len(t) = d /\ \A i \in 1 .. d : t[i] = a[m + i]
        BY <1>2, <2>1, Slice
    <2> HIDE DEF t
    <2>3. t = g
        BY <1>4, <2>2, SeqEqual DEF d
    <2> QED
        BY <2>3 DEF t
<1> QED
    BY <1>1, <1>3, <1>4, <1>5 DEF w, m, d, Middle

Unchanged(s, m, n) == \A i \in m + 1 .. n : s[i].operation = " "

\* Unchanged lines are the same in both files.
LEMMA UnchangedPart ==
    ASSUME NEW s \in Seq(HunkLine), NEW m \in 0 .. Len(s), NEW n \in m .. Len(s),
           Unchanged(s, m, n)
    PROVE  LET g == LinesOf(SubSeq(s, m + 1, n), {" ", "-"}) IN
           /\ g \in Seq(Line)
           /\ LinesTo(s, {" ", "-"})[n] = LinesTo(s, {" ", "-"})[m] \o g
           /\ LinesTo(s, {" ", "+"})[n] = LinesTo(s, {" ", "+"})[m] \o g
<1> DEFINE t == SubSeq(s, m + 1, n)
           p == LinesTo(t, {" ", "-"})
           q == LinesTo(t, {" ", "+"})
           T == {k \in 0 .. Len(t) : p[k] = q[k]}
<1>1. m \in Nat /\ n \in Nat /\ n <= Len(s) /\ m <= n
    BY LenProperties
<1>2. t \in Seq(HunkLine) /\ Len(t) = n - m /\ \A i \in 1 .. (n - m) : t[i] = s[m + i]
    BY <1>1, Slice
<1>3. Collected(p, t, {" ", "-"}) /\ Collected(q, t, {" ", "+"})
    BY <1>2, LinesToIs
<1>4. ASSUME NEW i \in 1 .. Len(t) PROVE t[i].operation = " "
    <2>1. i \in 1 .. (n - m) /\ m + i \in m + 1 .. n
        BY <1>1, <1>2
    <2> QED
        BY <1>2, <2>1 DEF Unchanged
<1> HIDE DEF t, p, q
<1>5. 0 \in T
    <2>1. 0 \in 0 .. Len(t)
        BY <1>1, <1>2
    <2> QED
        BY <1>3, <2>1 DEF Collected
<1>6. ASSUME NEW k \in 0 .. (Len(t) - 1), k \in T PROVE k + 1 \in T
    <2>1. k + 1 \in 1 .. Len(t) /\ (k + 1) - 1 = k /\ k + 1 \in 0 .. Len(t)
        BY <1>1, <1>2
    <2>2. t[k + 1].operation \in {" ", "-"} /\ t[k + 1].operation \in {" ", "+"}
        BY <1>4, <2>1
    <2>3. p[k + 1] = Append(p[k], t[k + 1].content)
        BY <1>3, <2>1, <2>2 DEF Collected
    <2>4. q[k + 1] = Append(q[k], t[k + 1].content)
        BY <1>3, <2>1, <2>2 DEF Collected
    <2> QED
        BY <1>6, <2>1, <2>3, <2>4
<1>7. Len(t) \in T
    <2>1. Len(t) \in Nat /\ Len(t) \in 0 .. Len(t)
        BY <1>1, <1>2
    <2> HIDE DEF T
    <2> QED
        BY <1>5, <1>6, <2>1, Induction
<1>8. LinesOf(t, {" ", "-"}) = LinesOf(t, {" ", "+"})
    BY <1>7 DEF LinesOf, p, q
<1>9. LinesOf(t, {" ", "-"}) \in Seq(Line)
    BY <1>2, LinesOfTyped
<1>10. /\ LinesTo(s, {" ", "-"})[n] = LinesTo(s, {" ", "-"})[m] \o LinesOf(t, {" ", "-"})
       /\ LinesTo(s, {" ", "+"})[n] = LinesTo(s, {" ", "+"})[m] \o LinesOf(t, {" ", "+"})
    BY PartOf DEF t
<1> QED
    BY <1>8, <1>9, <1>10 DEF t

LEMMA BoundsOf ==
    ASSUME NEW l \in Nat, NEW c \in 0 .. l, NEW m \in c .. l, NEW n \in m .. l
    PROVE  m \in 0 .. l /\ n \in 0 .. l /\ l \in 0 .. l /\ l \in n .. l /\ l \in m .. l
OBVIOUS

\* What the first n lines of a script hold of the old and of the new file.
OldTo(s) == LinesTo(s, {" ", "-"})
NewTo(s) == LinesTo(s, {" ", "+"})

\* The next hunk of a script is found where it says, after unchanged lines.
LEMMA HunkFits ==
    ASSUME NEW s \in Seq(HunkLine), NEW hs \in Seq(Hunk), NEW k \in Nat, k + 1 <= Len(hs),
           NEW c \in 0 .. Len(s), NEW m \in c .. Len(s), NEW n \in m .. Len(s),
           Unchanged(s, c, m), hs[k + 1] = HunkOf(s, m + 1, n),
           DoneTo(OldTo(s)[Len(s)], hs, k, Len(OldTo(s)[c]), NewTo(s)[c])
    PROVE  DoneTo(OldTo(s)[Len(s)], hs, k + 1, Len(OldTo(s)[n]), NewTo(s)[n])
<1> DEFINE old == OldTo(s)
           new == NewTo(s)
           a == OldTo(s)[Len(s)]
           g == LinesOf(SubSeq(s, c + 1, m), {" ", "-"})
           h == HunkOf(s, m + 1, n)
<1>1. m \in 0 .. Len(s) /\ n \in 0 .. Len(s) /\ Len(s) \in 0 .. Len(s)
      /\ Len(s) \in n .. Len(s) /\ Len(s) \in m .. Len(s)
    <2>1. Len(s) \in Nat
        BY LenProperties
    <2> QED
        BY <2>1, BoundsOf, Zenon
<1>2. \A i \in 0 .. Len(s) : old[i] \in Seq(Line) /\ new[i] \in Seq(Line)
    BY LinesToIs DEF Collected, OldTo, NewTo
<1>3. a = old[Len(s)] /\ a \in Seq(Line)
    BY <1>1, <1>2
<1>4. g \in Seq(Line) /\ old[m] = old[c] \o g /\ new[m] = new[c] \o g
    BY UnchangedPart DEF OldTo, NewTo
<1>5. /\ h \in Hunk /\ Start(h) = Len(old[m]) /\ NewStart(h) = Len(new[m])
      /\ old[n] = old[m] \o Old(h) /\ new[n] = new[m] \o New(h)
    BY <1>1, HunkOfStands DEF OldTo, NewTo
<1>6. BeginsWith(a, old[n]) /\ BeginsWith(a, old[m])
    BY <1>1, <1>3, LinesToGrow DEF OldTo
<1>7. DoneTo(a, hs, k, Len(old[c]), new[c]) /\ hs[k + 1] = h
    OBVIOUS
<1> DEFINE pc == old[c]
           qc == new[c]
           pm == old[m]
           qm == new[m]
           pn == old[n]
           qn == new[n]
<1>8. /\ pc \in Seq(Line) /\ qc \in Seq(Line) /\ pm \in Seq(Line) /\ qm \in Seq(Line)
      /\ Len(pc) \in Nat /\ Len(qc) \in Nat /\ Len(pm) \in Nat /\ Len(qm) \in Nat
      /\ Len(g) \in Nat /\ Len(a) \in Nat
    BY <1>1, <1>2, <1>3, <1>4, LenProperties
<1> HIDE DEF old, new, a, g, h, pc, qc, pm, qm, pn, qn
<1>9. pm = pc \o g /\ qm = qc \o g /\ pn = pm \o Old(h) /\ qn = qm \o New(h)
      /\ Start(h) = Len(pm) /\ NewStart(h) = Len(qm)
      /\ BeginsWith(a, pn) /\ BeginsWith(a, pm) /\ DoneTo(a, hs, k, Len(pc), qc)
    BY <1>4, <1>5, <1>6, <1>7 DEF pc, qc, pm, qm, pn, qn
<1>10. /\ Len(pm) = Len(pc) + Len(g) /\ Len(pc) + Len(g) <= Len(a)
       /\ SubSeq(a, Len(pc) + 1, Len(pm)) = g
    <2>1. BeginsWith(a, pc \o g)
        BY <1>9
    <2>2. Middle(a, pc, g)
        BY <1>3, <1>4, <1>8, <2>1, MiddleOf
    <2> QED
        BY <1>9, <2>2 DEF Middle
<1>11. Len(qm) = Len(qc) + Len(g)
    <2>1. Len(qc \o g) = Len(qc) + Len(g)
        BY <1>4, <1>8, ConcatProperties
    <2> QED
        BY <1>9, <2>1
<1>12. /\ Len(pn) = Len(pm) + Len(Old(h)) /\ Len(pm) + Len(Old(h)) <= Len(a)
       /\ \A j \in 1 .. Len(Old(h)) : a[Len(pm) + j] = Old(h)[j]
    <2>1. Old(h) \in Seq(Line)
        BY <1>5, OldTyped
    <2>2. BeginsWith(a, pm \o Old(h))
        BY <1>9
    <2>3. Middle(a, pm, Old(h))
        BY <1>3, <1>8, <2>1, <2>2, MiddleOf
    <2> QED
        BY <1>9, <2>3 DEF Middle
<1>13. Opened(a, hs, k, Len(pc), qc)
    <2>1. k + 1 \in 1 .. Len(hs)
        <3>1. Len(hs) \in Nat
            BY LenProperties
        <3> QED
            BY <3>1
    <2>2. Len(pc) <= Start(h) /\ Start(h) <= Len(a)
          /\ Len(qc) + (Start(h) - Len(pc)) = NewStart(h)
        <3>1. Start(h) = Len(pc) + Len(g) /\ NewStart(h) = Len(qc) + Len(g)
              /\ Len(pc) + Len(g) <= Len(a)
            BY <1>9, <1>10, <1>11
        <3> QED
            BY <1>8, <3>1
    <2> QED
        BY <1>7, <1>9, <2>1, <2>2 DEF Opened
<1>14. Through(a, h, Len(h.lines), Len(pn), qn, qc \o SubSeq(a, Len(pc) + 1, Start(h)))
    <2>1. Len(h.lines) \in 0 .. Len(h.lines)
        <3>1. Len(h.lines) \in Nat
            BY <1>5, HunkTyped
        <3> QED
            BY <3>1
    <2>2. LinesTo(h.lines, {" ", "-"})[Len(h.lines)] = Old(h)
          /\ LinesTo(h.lines, {" ", "+"})[Len(h.lines)] = New(h)
        BY DEF Old, New, LinesOf
    <2>3. Len(pn) = Start(h) + Len(Old(h)) /\ Len(pn) <= Len(a)
          /\ \A j \in 1 .. Len(Old(h)) : a[Start(h) + j] = Old(h)[j]
        BY <1>9, <1>12
    <2>4. qn = (qc \o SubSeq(a, Len(pc) + 1, Start(h))) \o New(h)
        BY <1>9, <1>10
    <2> QED
        BY <2>1, <2>2, <2>3, <2>4, Zenon DEF Through
<1>15. InHunk(a, hs, k, Len(hs[k + 1].lines), Len(pn), qn)
    BY <1>7, <1>8, <1>13, <1>14, Zenon DEF InHunk
<1>16. DoneTo(a, hs, k + 1, Len(pn), qn)
    BY <1>3, <1>15, HunkCloses
<1> QED
    BY <1>16 DEF a, pn, qn, old, new

LEMMA StillBegins ==
    ASSUME NEW S, NEW x \in Seq(S), NEW y \in Seq(S), BeginsWith(x, y), NEW e \in S
    PROVE  BeginsWith(Append(x, e), y)
<1>1. /\ Len(Append(x, e)) = Len(x) + 1 /\ Len(x) \in Nat /\ Len(y) \in Nat
      /\ \A j \in 1 .. Len(x) : Append(x, e)[j] = x[j]
    BY AppendProperties, LenProperties
<1>2. Len(y) <= Len(x) /\ \A j \in 1 .. Len(y) : x[j] = y[j]
    BY DEF BeginsWith
<1>3. \A j \in 1 .. Len(y) : j \in 1 .. Len(x)
    BY <1>1, <1>2
<1>4. Len(y) <= Len(Append(x, e))
    BY <1>1, <1>2
<1> QED
    BY <1>1, <1>2, <1>3, <1>4 DEF BeginsWith

LEMMA ClosingHunk ==
    ASSUME NEW s \in Seq(HunkLine), NEW n \in 1 .. Len(s), Closes(s, n)
    PROVE  /\ FirstShown(s, n) \in 1 .. n /\ HunkOf(s, FirstShown(s, n), n) \in Hunk
           /\ FirstShown(s, n) .. n \subseteq Shown(s)
           /\ FirstShown(s, n) - 1 \notin Shown(s)
<1> DEFINE f == FirstShown(s, n)
<1>1. f \in 1 .. n /\ f .. n \subseteq Shown(s) /\ f - 1 \notin Shown(s)
    BY FirstShownIs DEF Closes
<1> HIDE DEF f
<1>2. f - 1 \in 0 .. Len(s) /\ n \in (f - 1) .. Len(s) /\ (f - 1) + 1 = f
    BY <1>1, LenProperties
<1>3. HunkOf(s, (f - 1) + 1, n) \in Hunk
    BY <1>2, HunkOfStands
<1> QED
    BY <1>1, <1>2, <1>3 DEF f

LEMMA HunksGrow ==
    ASSUME NEW s \in Seq(HunkLine), NEW hunks, Hunking(hunks, s),
           NEW m \in 0 .. Len(s), NEW n \in m .. Len(s)
    PROVE  BeginsWith(hunks[n], hunks[m])
<1> DEFINE L == Len(s)
           T == {i \in 0 .. (L - m) : BeginsWith(hunks[m + i], hunks[m])}
<1>1. L \in Nat /\ m \in Nat /\ m <= L /\ n - m \in 0 .. (L - m) /\ L - m \in Nat
      /\ m + (n - m) = n
    BY LenProperties
<1>2. hunks[m] \in Seq(Hunk)
    BY <1>1 DEF Hunking
<1>3. 0 \in T
    <2>1. BeginsWith(hunks[m], hunks[m])
        BY <1>2, LenProperties DEF BeginsWith
    <2>2. m + 0 = m /\ 0 \in 0 .. (L - m)
        BY <1>1
    <2> QED
        BY <2>1, <2>2
<1>4. ASSUME NEW i \in 0 .. ((L - m) - 1), i \in T PROVE i + 1 \in T
    <2> DEFINE k == m + (i + 1)
    <2>1. m + i \in 0 .. L /\ k \in 1 .. L /\ k - 1 = m + i /\ i + 1 \in 0 .. (L - m)
        BY <1>1
    <2> HIDE DEF k
    <2>2. hunks[m + i] \in Seq(Hunk) /\ BeginsWith(hunks[m + i], hunks[m])
        BY <1>4, <2>1 DEF Hunking
    <2>3. CASE Closes(s, k)
        <3> DEFINE h == HunkOf(s, FirstShown(s, k), k)
        <3>1. h \in Hunk
            BY <2>1, <2>3, ClosingHunk
        <3>2. hunks[k] = Append(hunks[m + i], h)
            BY <2>1, <2>3 DEF Hunking
        <3> HIDE DEF h
        <3>3. BeginsWith(Append(hunks[m + i], h), hunks[m])
            BY <1>2, <2>2, <3>1, StillBegins
        <3> QED
            BY <2>1, <3>2, <3>3 DEF k
    <2>4. CASE ~Closes(s, k)
        <3>1. hunks[k] = hunks[m + i]
            BY <2>1, <2>4 DEF Hunking
        <3> QED
            BY <2>1, <2>2, <3>1 DEF k
    <2> QED
        BY <2>3, <2>4
<1>5. n - m \in T
    <2> HIDE DEF T
    <2> QED
        BY <1>1, <1>3, <1>4, Induction
<1> QED
    BY <1>1, <1>5

\* Line c closed the last hunk so far; one that is open goes on.
GoesOn(s, c, n) ==
    /\ c = 0 \/ c + 1 \notin Shown(s)
    /\ \A i \in c + 1 .. n : i \in Shown(s) => i .. n + 1 \subseteq Shown(s)

UpToLine(s, hs, hunks, n) ==
    \E c \in 0 .. n :
        /\ GoesOn(s, c, n)
        /\ DoneTo(OldTo(s)[Len(s)], hs, Len(hunks[n]), Len(OldTo(s)[c]), NewTo(s)[c])

LEMMA NotShown ==
    ASSUME NEW s \in Seq(HunkLine), NEW c \in 0 .. Len(s), NEW m \in c .. Len(s),
           \A i \in c + 1 .. m : i \notin Shown(s)
    PROVE  Unchanged(s, c, m)
<1> SUFFICES ASSUME NEW i \in c + 1 .. m PROVE s[i].operation = " "
    BY DEF Unchanged
<1>1. i \in 1 .. Len(s)
    BY LenProperties
<1> QED
    BY <1>1, ShownIs

LEMMA LineGoes ==
    ASSUME NEW s \in Seq(HunkLine), NEW hunks, Hunking(hunks, s),
           NEW n \in 0 .. Len(s), n + 1 <= Len(s), UpToLine(s, HunksOf(s), hunks, n)
    PROVE  UpToLine(s, HunksOf(s), hunks, n + 1)
<1> DEFINE U == Shown(s)
           L == Len(s)
           hs == HunksOf(s)
           a == OldTo(s)[L]
<1>1. L \in Nat /\ n \in Nat /\ n + 1 \in 1 .. L /\ (n + 1) - 1 = n /\ (n + 1) + 1 = n + 2
      /\ U \subseteq 1 .. L
    <2>1. L \in Nat /\ U \subseteq 1 .. L
        BY ShownIs
    <2>2. n \in 0 .. L /\ n + 1 <= L
        OBVIOUS
    <2> HIDE DEF U, L
    <2>3. n \in Nat /\ n + 1 \in 1 .. L /\ (n + 1) - 1 = n /\ (n + 1) + 1 = n + 2
        BY <2>1, <2>2
    <2> QED
        BY <2>1, <2>3
<1>2. PICK c \in 0 .. n :
          GoesOn(s, c, n) /\ DoneTo(a, hs, Len(hunks[n]), Len(OldTo(s)[c]), NewTo(s)[c])
    BY DEF UpToLine
<1>3. /\ c = 0 \/ c + 1 \notin U
      /\ \A i \in c + 1 .. n : i \in U => i .. n + 1 \subseteq U
    BY <1>2 DEF GoesOn
<1> HIDE DEF U, L, hs, a
<1>4. CASE ~Closes(s, n + 1)
    <2>1. hunks[n + 1] = hunks[n]
        BY <1>1, <1>4 DEF Hunking, L
    <2>2. n + 1 \in U => n + 2 \in U
        BY <1>1, <1>4 DEF Closes, U
    <2>3. ASSUME NEW i \in c + 1 .. n + 1, i \in U PROVE i .. (n + 1) + 1 \subseteq U
        <3>1. n + 1 \in U
            <4>1. CASE i = n + 1
                BY <2>3, <4>1
            <4>2. CASE i # n + 1
                <5>1. i \in c + 1 .. n /\ n + 1 \in i .. n + 1
                    BY <1>1, <4>2
                <5> QED
                    BY <1>3, <2>3, <5>1
            <4> QED
                BY <4>1, <4>2
        <3>2. i .. n + 1 \subseteq U
            <4>1. CASE i = n + 1
                BY <3>1, <4>1
            <4>2. CASE i # n + 1
                <5>1. i \in c + 1 .. n
                    BY <1>1, <4>2
                <5> QED
                    BY <1>3, <2>3, <5>1
            <4> QED
                BY <4>1, <4>2
        <3>3. \A j \in i .. (n + 1) + 1 : j \in i .. n + 1 \/ j = n + 2
            BY <1>1
        <3> QED
            BY <2>2, <3>1, <3>2, <3>3
    <2>4. GoesOn(s, c, n + 1)
        BY <1>3, <2>3 DEF GoesOn, U
    <2>5. c \in 0 .. n + 1
        BY <1>1
    <2> QED
        BY <1>2, <2>1, <2>4, <2>5 DEF UpToLine, a, hs, L
<1>5. CASE Closes(s, n + 1)
    <2> DEFINE f == FirstShown(s, n + 1)
               m == f - 1
               h == HunkOf(s, f, n + 1)
               k == Len(hunks[n])
    <2>1. f \in 1 .. n + 1 /\ h \in Hunk /\ f .. n + 1 \subseteq U /\ f - 1 \notin U
        BY <1>1, <1>5, ClosingHunk DEF U, L
    <2>2. hunks[n + 1] = Append(hunks[n], h)
        BY <1>1, <1>5 DEF Hunking, L
    <2>3. n + 2 \notin U
        BY <1>1, <1>5 DEF Closes, U
    <2>4. hunks[n] \in Seq(Hunk) /\ hunks[n + 1] \in Seq(Hunk) /\ hs \in Seq(Hunk)
        <3>1. n \in 0 .. Len(s) /\ n + 1 \in 0 .. Len(s)
            BY <1>1 DEF L
        <3> QED
            BY <3>1, HunksOfTyped DEF Hunking, hs
    <2>5. BeginsWith(hs, hunks[n + 1])
        <3>1. n + 1 \in 0 .. Len(s) /\ Len(s) \in (n + 1) .. Len(s)
            BY <1>1 DEF L
        <3>2. BeginsWith(hunks[Len(s)], hunks[n + 1])
            BY <3>1, HunksGrow
        <3> QED
            BY <3>2 DEF Hunking, hs
    <2> HIDE DEF f, h, k
    <2>6. k \in Nat /\ Len(hunks[n + 1]) = k + 1 /\ hunks[n + 1][k + 1] = h
        BY <2>1, <2>2, <2>4, AppendProperties, LenProperties DEF k
    <2>7. k + 1 <= Len(hs) /\ hs[k + 1] = h
        <3>1. k + 1 \in 1 .. k + 1
            BY <2>6
        <3> QED
            BY <2>5, <2>6, <3>1 DEF BeginsWith
    <2>8. c <= m /\ m \in 0 .. n /\ m + 1 = f
        <3>1. CASE c = 0
            BY <1>1, <2>1, <3>1
        <3>2. CASE c + 1 \notin U
            <4>1. ~(c + 1 \in f .. n + 1)
                BY <2>1, <3>2
            <4> QED
                BY <1>1, <2>1, <4>1
        <3> QED
            BY <1>3, <3>1, <3>2
    <2> HIDE DEF m
    <2>9. ASSUME NEW i \in c + 1 .. m PROVE i \notin U
        <3>1. i \in c + 1 .. n /\ m \in i .. n + 1
            BY <1>1, <2>8
        <3>2. m \notin U
            BY <2>1 DEF m
        <3> QED
            BY <1>3, <3>1, <3>2
    <2>10. c \in 0 .. Len(s) /\ m \in c .. Len(s) /\ n + 1 \in m .. Len(s)
        BY <1>1, <2>8 DEF L
    <2>11. Unchanged(s, c, m)
        BY <2>9, <2>10, NotShown DEF U
    <2>12. hs[k + 1] = HunkOf(s, m + 1, n + 1)
        BY <2>7, <2>8 DEF h
    <2>13. DoneTo(OldTo(s)[Len(s)], hs, k, Len(OldTo(s)[c]), NewTo(s)[c])
        BY <1>2 DEF a, L, k
    <2>14. DoneTo(OldTo(s)[Len(s)], hs, k + 1, Len(OldTo(s)[n + 1]), NewTo(s)[n + 1])
        BY <2>4, <2>6, <2>7, <2>10, <2>11, <2>12, <2>13, HunkFits
    <2>15. GoesOn(s, n + 1, n + 1)
        <3>1. \A i \in (n + 1) + 1 .. n + 1 : FALSE
            BY <1>1
        <3> QED
            BY <1>1, <2>3, <3>1 DEF GoesOn, U
    <2>16. n + 1 \in 0 .. n + 1
        BY <1>1
    <2> QED
        BY <2>6, <2>14, <2>15, <2>16, Zenon DEF UpToLine, hs
<1> QED
    BY <1>4, <1>5

\* The hunks of every script of two texts fit the old text and turn it into
\* the new one.
THEOREM HunksReproduce ==
    ASSUME NEW a \in Seq(Line), NEW b \in Seq(Line), NEW s \in Scripts(a, b)
    PROVE  Fits(a, HunksOf(s)) /\ Patched(a, HunksOf(s)) = b
<1> DEFINE L == Len(s)
           hs == HunksOf(s)
           Goes(hunks, n) == UpToLine(s, hs, hunks, n)
<1>1. s \in Seq(HunkLine) /\ OldTo(s)[Len(s)] = a /\ NewTo(s)[Len(s)] = b
    BY ScriptSides DEF OldTo, NewTo, LinesOf
<1>2. PICK hunks : Hunking(hunks, s)
    BY <1>1, HunksOfIs
<1>3. L \in Nat /\ hs \in Seq(Hunk) /\ hunks[L] = hs
    BY <1>1, <1>2, LenProperties, HunksOfTyped DEF Hunking
<1> DEFINE T == {n \in 0 .. L : Goes(hunks, n)}
<1>4. 0 \in T
    <2>1. OldTo(s)[0] = <<>> /\ NewTo(s)[0] = <<>>
        BY <1>1, LinesToIs DEF OldTo, NewTo, Collected
    <2>2. hunks[0] = <<>> /\ Len(<<>>) = 0
        BY <1>2, EmptySeq DEF Hunking
    <2>3. DoneTo(a, hs, 0, 0, <<>>)
        BY <1>3, NoneDone
    <2>4. GoesOn(s, 0, 0)
        <3>1. \A i \in 0 + 1 .. 0 : FALSE
            OBVIOUS
        <3> QED
            BY <3>1 DEF GoesOn
    <2>5. 0 \in 0 .. 0 /\ 0 \in 0 .. L
        BY <1>3
    <2> HIDE DEF hs, L
    <2>6. Goes(hunks, 0)
        BY <1>1, <2>1, <2>2, <2>3, <2>4, <2>5, Zenon DEF UpToLine
    <2> QED
        BY <2>5, <2>6
<1>5. ASSUME NEW n \in 0 .. (L - 1), n \in T PROVE n + 1 \in T
    <2>1. n \in 0 .. Len(s) /\ n + 1 <= Len(s) /\ n + 1 \in 0 .. L
        BY <1>3
    <2>2. UpToLine(s, HunksOf(s), hunks, n)
        BY <1>5
    <2>3. UpToLine(s, HunksOf(s), hunks, n + 1)
        BY <1>1, <1>2, <2>1, <2>2, LineGoes
    <2> QED
        BY <2>1, <2>3
<1>6. L \in T
    <2>1. L \in 0 .. L
        BY <1>3
    <2> HIDE DEF T, L
    <2> QED
        BY <1>3, <1>4, <1>5, <2>1, Induction
<1>7. PICK c \in 0 .. L :
          GoesOn(s, c, L) /\ DoneTo(a, hs, Len(hs), Len(OldTo(s)[c]), NewTo(s)[c])
    <2>1. UpToLine(s, hs, hunks, Len(s))
        BY <1>6
    <2> HIDE DEF hs
    <2> QED
        BY <1>1, <1>3, <2>1, Zenon DEF UpToLine
<1>8. ASSUME NEW i \in c + 1 .. L PROVE i \notin Shown(s)
    <2>1. Shown(s) \subseteq 1 .. L
        BY <1>1, ShownIs
    <2> HIDE DEF L, T, hs, Goes
    <2>2. L + 1 \notin 1 .. L /\ L + 1 \in i .. L + 1
        BY <1>3
    <2>3. L + 1 \notin Shown(s)
        BY <2>1, <2>2
    <2> QED
        BY <1>7, <2>2, <2>3 DEF GoesOn
<1> DEFINE p == OldTo(s)[c]
           q == NewTo(s)[c]
<1>9. PICK g \in Seq(Line) : a = p \o g /\ b = q \o g
    <2>1. c \in 0 .. Len(s) /\ Len(s) \in c .. Len(s)
        BY <1>3
    <2>2. Unchanged(s, c, Len(s))
        BY <1>1, <1>8, <2>1, NotShown
    <2> DEFINE g == LinesOf(SubSeq(s, c + 1, Len(s)), {" ", "-"})
    <2>3. g \in Seq(Line) /\ OldTo(s)[Len(s)] = p \o g /\ NewTo(s)[Len(s)] = q \o g
        BY <1>1, <2>1, <2>2, UnchangedPart DEF OldTo, NewTo
    <2> HIDE DEF g
    <2> QED
        BY <1>1, <2>3
<1>10. p \in Seq(Line)
    BY <1>1, <1>3, LinesToIs DEF OldTo, Collected
<1>11. SubSeq(a, Len(p) + 1, Len(a)) = g
    <2> HIDE DEF p, q
    <2> QED
        BY <1>9, <1>10, TailOfConcat
<1>12. DoneTo(a, hs, Len(hs), Len(p), q)
    BY <1>7
<1> HIDE DEF hs, p, q
<1>13. Fits(a, hs) /\ Patched(a, hs) = q \o SubSeq(a, Len(p) + 1, Len(a))
    BY <1>3, <1>12, AllDone
<1> QED
    BY <1>9, <1>11, <1>13 DEF hs
-----------------------------------------------------------------------------
(* Texts that were cut into lines, and texts that grow line by line.       *)

InStep(f, g, k) == f[0] = g[0] /\ \A n \in 1 .. k : f[n - 1] = g[n - 1] => f[n] = g[n]

LEMMA SameSoFar ==
    ASSUME NEW k \in Nat, NEW f, NEW g, InStep(f, g, k)
    PROVE  \A n \in 0 .. k : f[n] = g[n]
<1> DEFINE T == {n \in 0 .. k : f[n] = g[n]}
<1>1. 0 \in T
    BY DEF InStep
<1>2. ASSUME NEW n \in 0 .. (k - 1), n \in T PROVE n + 1 \in T
    <2>1. n + 1 \in 1 .. k /\ (n + 1) - 1 = n /\ n + 1 \in 0 .. k
        OBVIOUS
    <2>2. f[(n + 1) - 1] = g[(n + 1) - 1]
        BY <1>2, <2>1
    <2>3. f[n + 1] = g[n + 1]
        BY <2>1, <2>2 DEF InStep
    <2> QED
        BY <2>1, <2>3
<1> HIDE DEF T
<1>3. 0 .. k \subseteq T
    BY <1>1, <1>2, Induction
<1> QED
    BY <1>3 DEF T

LEMMA TextAppend ==
    ASSUME NEW S, Glues(S), NEW pieces \in Seq(S), NEW piece \in S
    PROVE  Text(Append(pieces, piece)) = Glued(Text(pieces), piece)
<1> DEFINE more == Append(pieces, piece)
           L == Len(pieces)
<1>1. /\ more \in Seq(S) /\ Len(more) = L + 1 /\ L \in Nat
      /\ \A i \in 1 .. L : more[i] = pieces[i]
      /\ more[L + 1] = piece
    BY AppendProperties, LenProperties
<1> HIDE DEF more
<1>2. PICK f : Joining(f, pieces, S)
    BY TextIs
<1>3. PICK g : Joining(g, more, S)
    BY <1>1, TextIs
<1> HIDE DEF L
<1>4. /\ f[0] = <<>> /\ \A n \in 1 .. L : f[n] = Glued(f[n - 1], pieces[n])
      /\ Text(pieces) = f[L]
    BY <1>2 DEF Joining, L
<1>5. /\ g[0] = <<>> /\ \A n \in 1 .. L + 1 : g[n] = Glued(g[n - 1], more[n])
      /\ Text(more) = g[L + 1]
    BY <1>1, <1>3 DEF Joining
<1>6. ASSUME NEW n \in 1 .. L, f[n - 1] = g[n - 1] PROVE f[n] = g[n]
    <2>1. n \in 1 .. L + 1
        BY <1>1
    <2> QED
        BY <1>1, <1>4, <1>5, <1>6, <2>1
<1>7. L \in 0 .. L /\ L + 1 \in 1 .. L + 1 /\ (L + 1) - 1 = L
    BY <1>1
<1>8. f[L] = g[L]
    <2>1. InStep(f, g, L)
        BY <1>4, <1>5, <1>6 DEF InStep
    <2>2. \A n \in 0 .. L : f[n] = g[n]
        BY <1>1, <2>1, SameSoFar
    <2> QED
        BY <1>7, <2>2
<1> QED
    BY <1>1, <1>4, <1>5, <1>7, <1>8 DEF more

\* Cut into lines: only the last one may stop without an end, and only if it
\* has characters.
Cut(lines) ==
    /\ \A i \in 1 .. Len(lines) : lines[i].text = <<>> => lines[i].end # "none"
    /\ \A i \in 1 .. Len(lines) - 1 : lines[i].end # "none"

LEMMA FrontIs ==
    ASSUME NEW S, NEW t \in Seq(S), t # <<>>
    PROVE  /\ Len(t) \in Nat /\ Len(t) >= 1 /\ Len(t) - 1 \in Nat
           /\ Front(t) \in Seq(S) /\ Len(Front(t)) = Len(t) - 1
           /\ \A i \in 1 .. Len(t) - 1 : Front(t)[i] = t[i]
           /\ Last(t) = t[Len(t)] /\ Last(t) \in S
<1>1. Len(t) \in Nat /\ Len(t) >= 1
    BY EmptySeq
<1>2. Len(t) - 1 \in Nat /\ Len(t) - 1 <= Len(t) /\ Len(t) \in 1 .. Len(t)
      /\ Len(t) - 1 \in Int
    BY <1>1
<1>3. \A i \in 1 .. Len(t) - 1 : t[i] \in S
    BY <1>1, ElementOfSeq
<1> DEFINE n == Len(t) - 1
<1>4. /\ SubSeq(t, 1, n) \in Seq(S) /\ Len(SubSeq(t, 1, n)) = IF 1 <= n THEN n - 1 + 1 ELSE 0
      /\ \A i \in 1 .. n - 1 + 1 : SubSeq(t, 1, n)[i] = t[1 + i - 1]
    <2> HIDE DEF n
    <2> QED
        BY <1>2, <1>3, SubSeqProperties DEF n
<1>5. Len(SubSeq(t, 1, n)) = n /\ \A i \in 1 .. n : SubSeq(t, 1, n)[i] = t[i]
    <2>1. n - 1 + 1 = n /\ \A i \in 1 .. n : 1 + i - 1 = i
        BY <1>2
    <2>2. \A i \in 1 .. n : SubSeq(t, 1, n)[i] = t[i]
        BY <1>4, <2>1
    <2>3. Len(SubSeq(t, 1, n)) = n
        <3> HIDE DEF n
        <3>1. n \in Nat
            BY <1>2 DEF n
        <3> QED
            BY <1>4, <3>1
    <2> QED
        BY <2>2, <2>3
<1> QED
    BY <1>1, <1>2, <1>4, <1>5, ElementOfSeq DEF Front, Last

LEMMA GluedCut ==
    ASSUME NEW text \in Seq(Line), Cut(text), NEW piece \in Line
    PROVE  Cut(Glued(text, piece))
<1>1. CASE piece.text = <<>> /\ piece.end = "none"
    <2>1. Glued(text, piece) = text
        BY <1>1 DEF Glued
    <2> QED
        BY <2>1
<1> DEFINE nothing == piece.text = <<>> /\ piece.end = "none"
           open == text # <<>> /\ Last(text).end = "none"
           l == [Last(text) EXCEPT !.text = @ \o piece.text, !.end = piece.end]
<1>2. CASE ~nothing /\ open
    <2>1. Glued(text, piece) = Append(Front(text), l)
        BY <1>2, Zenon DEF Glued
    <2>2. /\ Len(text) \in Nat /\ Len(text) >= 1 /\ Front(text) \in Seq(Line)
          /\ Len(Front(text)) = Len(text) - 1
          /\ \A i \in 1 .. Len(text) - 1 : Front(text)[i] = text[i]
          /\ Last(text) = text[Len(text)] /\ Last(text) \in Line
        BY <1>2, FrontIs
    <2>3. Last(text).text \in Seq(Atoms) /\ piece.text \in Seq(Atoms)
          /\ piece.end \in {"lf", "none", "sep"}
        BY <2>2 DEF Line
    <2>4. l \in Line /\ l.text = Last(text).text \o piece.text /\ l.end = piece.end
        <3>1. Last(text).text \o piece.text \in Seq(Atoms)
            BY <2>3, ConcatProperties
        <3> QED
            BY <2>2, <2>3, <3>1 DEF Line
    <2>5. l.text # <<>>
        <3>1. Last(text).text # <<>>
            <4>1. Len(text) \in 1 .. Len(text)
                BY <2>2
            <4> QED
                BY <1>2, <2>2, <4>1 DEF Cut
        <3> QED
            BY <2>3, <2>4, <3>1, ConcatEqualIffEmpty
    <2> HIDE DEF l
    <2>6. LET t == Append(Front(text), l) IN
          /\ Len(t) = Len(text) /\ t[Len(text)] = l
          /\ \A i \in 1 .. Len(text) - 1 : t[i] = text[i]
        <3>1. (Len(text) - 1) + 1 = Len(text)
            BY <2>2
        <3> QED
            BY <2>2, <2>4, <3>1, AppendProperties
    <2>7. \A i \in 1 .. Len(text) : i = Len(text) \/ i \in 1 .. Len(text) - 1
        BY <2>2
    <2> QED
        BY <2>1, <2>5, <2>6, <2>7 DEF Cut
<1>3. CASE ~nothing /\ ~open
    <2>1. Glued(text, piece) = Append(text, piece)
        BY <1>3, Zenon DEF Glued
    <2>2. LET t == Append(text, piece) IN
          /\ Len(t) = Len(text) + 1 /\ t[Len(text) + 1] = piece /\ Len(text) \in Nat
          /\ \A i \in 1 .. Len(text) : t[i] = text[i]
        BY AppendProperties, LenProperties
    <2>3. \A i \in 1 .. Len(text) : text[i].end # "none"
        <3>1. CASE text = <<>>
            <4>1. Len(text) = 0
                BY <3>1, EmptySeq
            <4> QED
                BY <4>1
        <3>2. CASE text # <<>>
            <4>1. \A i \in 1 .. Len(text) : i = Len(text) \/ i \in 1 .. Len(text) - 1
                BY <2>2
            <4>2. text[Len(text)].end # "none"
                BY <1>3, <3>2 DEF Last
            <4> QED
                BY <4>1, <4>2 DEF Cut
        <3> QED
            BY <3>1, <3>2
    <2>4. \A i \in 1 .. Len(text) + 1 : i = Len(text) + 1 \/ i \in 1 .. Len(text)
        BY <2>2
    <2>5. (Len(text) + 1) - 1 = Len(text)
        BY <2>2
    <2> QED
        BY <1>3, <2>1, <2>2, <2>3, <2>4, <2>5 DEF Cut
<1> QED
    BY <1>1, <1>2, <1>3

\* What splitlines yields is cut into lines.
LEMMA TextCut ==
    ASSUME NEW pieces \in Seq(Line)
    PROVE  Cut(Text(pieces))
<1> DEFINE L == Len(pieces)
<1>1. PICK f : Joining(f, pieces, Line)
    BY GluesLine, TextIs
<1> DEFINE T == {n \in 0 .. L : Cut(f[n])}
<1>2. L \in Nat /\ L \in 0 .. L
    BY LenProperties
<1>3. 0 \in T
    <2>1. Len(<<>>) = 0
        BY EmptySeq
    <2>2. Cut(<<>>)
        BY <2>1 DEF Cut
    <2> QED
        BY <1>1, <1>2, <2>2 DEF Joining
<1>4. ASSUME NEW n \in 0 .. (L - 1), n \in T PROVE n + 1 \in T
    <2>1. n + 1 \in 1 .. L /\ (n + 1) - 1 = n /\ n + 1 \in 0 .. L /\ n \in 0 .. L
        BY <1>2
    <2>2. f[n + 1] = Glued(f[n], pieces[n + 1]) /\ f[n] \in Seq(Line)
        BY <1>1, <2>1 DEF Joining
    <2>3. pieces[n + 1] \in Line /\ Cut(f[n])
        BY <1>4, <2>1, ElementOfSeq
    <2>4. Cut(f[n + 1])
        BY <2>2, <2>3, GluedCut
    <2> QED
        BY <2>1, <2>4
<1>5. L \in T
    <2> HIDE DEF L, T
    <2> QED
        BY <1>2, <1>3, <1>4, Induction
<1> QED
    BY <1>1, <1>5 DEF Joining

\* A line is appended to what ends with its line.
LEMMA GluedOn ==
    ASSUME NEW text, NEW piece, piece.text # <<>> \/ piece.end # "none",
           text = <<>> \/ Last(text).end # "none"
    PROVE  Glued(text, piece) = Append(text, piece)
BY Zenon DEF Glued

LEMMA CutText ==
    ASSUME NEW lines \in Seq(Line), Cut(lines)
    PROVE  Text(lines) = lines
<1> DEFINE L == Len(lines)
<1>1. PICK f : Joining(f, lines, Line)
    BY GluesLine, TextIs
<1> DEFINE T == {n \in 0 .. L : f[n] = SubSeq(lines, 1, n)}
<1>2. L \in Nat /\ L \in 0 .. L
    BY LenProperties
<1>3. 0 \in T
    <2>1. SubSeq(lines, 1, 0) = <<>>
        BY SubSeqEmpty
    <2> QED
        BY <1>1, <1>2, <2>1 DEF Joining
<1>4. ASSUME NEW n \in 0 .. (L - 1), n \in T PROVE n + 1 \in T
    <2> DEFINE s == SubSeq(lines, 1, n)
    <2>1. n + 1 \in 1 .. L /\ (n + 1) - 1 = n /\ n + 1 \in 0 .. L /\ n \in Nat
          /\ 0 <= n /\ n <= L /\ 1 \in 1 .. L /\ 0 + 1 = 1 /\ n - 0 = n
        BY <1>2
    <2>2. s \in Seq(Line) /\ Len(s) = n /\ \A i \in 1 .. n : s[i] = lines[i]
        <3>1. LET slice == SubSeq(lines, 0 + 1, n) IN
              /\ slice \in Seq(Line) /\ Len(slice) = n - 0
              /\ \A i \in 1 .. (n - 0) : slice[i] = lines[0 + i]
            <4>1. 0 \in Nat
                OBVIOUS
            <4> QED
                BY <2>1, <4>1, Slice
        <3>2. \A i \in 1 .. n : 0 + i = i
            BY <2>1
        <3> QED
            BY <2>1, <3>1, <3>2
    <2>3. f[n + 1] = Glued(s, lines[n + 1])
        BY <1>1, <1>4, <2>1 DEF Joining
    <2>4. s = <<>> \/ Last(s).end # "none"
        <3>1. CASE n = 0
            BY <2>2, <3>1, EmptySeq
        <3>2. CASE n # 0
            <4>1. n \in 1 .. n /\ n \in 1 .. L - 1
                BY <1>2, <2>1, <3>2
            <4>2. Last(s) = lines[n]
                BY <2>2, <4>1 DEF Last
            <4> QED
                BY <4>1, <4>2 DEF Cut
        <3> QED
            BY <3>1, <3>2
    <2>5. lines[n + 1].text # <<>> \/ lines[n + 1].end # "none"
        BY <2>1 DEF Cut
    <2>6. f[n + 1] = Append(s, lines[n + 1])
        <3> HIDE DEF s
        <3> QED
            BY <2>3, <2>4, <2>5, GluedOn
    <2>7. SubSeq(lines, 1, n + 1) = SubSeq(lines, 1, n) \o <<lines[n + 1]>>
        <3>1. SubSeq(lines, 1, n + 1) = SubSeq(lines, 1, (n + 1) - 1) \o <<lines[n + 1]>>
            <4>1. n + 1 \in 1 .. Len(lines)
                BY <2>1
            <4> QED
                BY <2>1, <4>1, SubSeqRecursiveSecond
        <3> QED
            BY <2>1, <3>1
    <2>8. Append(s, lines[n + 1]) = s \o <<lines[n + 1]>>
        <3>1. lines[n + 1] \in Line
            BY <2>1, ElementOfSeq
        <3> HIDE DEF s
        <3> QED
            BY <2>2, <3>1, AppendIsConcat
    <2> QED
        BY <2>1, <2>6, <2>7, <2>8
<1>5. L \in T
    <2> HIDE DEF L, T
    <2> QED
        BY <1>2, <1>3, <1>4, Induction
<1> QED
    BY <1>1, <1>5, SubSeqFull DEF Joining

\* A text that was cut into lines stays as it is.
LEMMA TextTwice ==
    ASSUME NEW pieces \in Seq(Line)
    PROVE  Text(Text(pieces)) = Text(pieces)
BY TextTyped, GluesLine, TextCut, CutText

-----------------------------------------------------------------------------
(* Reading a payload while it is being written: what has been read when a  *)
(* line is added, and where the parser stands then.                        *)

Terminated(text) == text = <<>> \/ Last(text).end # "none"

Reads(d, s) ==
    /\ d \in Seq(DiffPiece) /\ Text(d) \in Seq(DiffPiece) /\ Terminated(Text(d))
    /\ s \in Parsing
    /\ \E fed : Feeds(fed, d) /\ s = fed[Len(Text(d))]

LEMMA DiffTextTyped ==
    ASSUME NEW d \in Seq(DiffPiece)
    PROVE  Text(d) \in Seq(DiffPiece)
BY TextTyped, GluesDiffPiece

LEMMA ReadsNothing == Reads(<<>>, Opening)
<1>1. <<>> \in Seq(DiffPiece) /\ Len(<<>>) = 0
    BY EmptySeq
<1>2. Text(<<>>) = <<>>
    <2>1. PICK f : Joining(f, <<>>, DiffPiece)
        BY <1>1, GluesDiffPiece, TextIs
    <2> QED
        BY <1>1, <2>1 DEF Joining
<1>3. PICK fed : Feeds(fed, <<>>)
    BY <1>1, ParsedIs
<1>4. fed[0] = Opening
    BY <1>3 DEF Feeds
<1>5. Terminated(<<>>)
    BY DEF Terminated
<1> QED
    BY <1>1, <1>2, <1>3, <1>4, <1>5, OpeningTyped DEF Reads

\* One more line is one more step of the parser.
LEMMA OneMoreLine ==
    ASSUME NEW d, NEW s, Reads(d, s), NEW e \in Seq(DiffPiece), NEW l \in DiffPiece,
           Text(e) = Append(Text(d), l), l.end # "none"
    PROVE  Reads(e, Feed(s, l))
<1> DEFINE t == Text(d)
           u == Text(e)
           L == Len(t)
<1>1. PICK f : Feeds(f, d) /\ s = f[L]
    BY DEF Reads
<1>2. PICK g : Feeds(g, e)
    BY ParsedIs
<1>3. t \in Seq(DiffPiece) /\ s \in Parsing /\ L \in Nat
    BY LenProperties DEF Reads
<1>4. /\ u \in Seq(DiffPiece) /\ Len(u) = L + 1 /\ u[L + 1] = l /\ u # <<>>
      /\ \A i \in 1 .. L : u[i] = t[i]
    BY <1>3, AppendProperties
<1>5. f[0] = Opening /\ \A n \in 1 .. L : f[n] = Feed(f[n - 1], t[n])
    BY <1>1 DEF Feeds
<1>6. g[0] = Opening /\ \A n \in 1 .. Len(u) : g[n] = Feed(g[n - 1], u[n])
    BY <1>2 DEF Feeds
<1> HIDE DEF L, t, u
<1>7. InStep(f, g, L)
    <2> SUFFICES ASSUME NEW n \in 1 .. L, f[n - 1] = g[n - 1] PROVE f[n] = g[n]
        BY <1>5, <1>6 DEF InStep
    <2>1. n \in 1 .. Len(u)
        BY <1>3, <1>4
    <2> QED
        BY <1>4, <1>5, <1>6, <2>1
<1>8. L \in 0 .. L /\ L + 1 \in 1 .. Len(u) /\ (L + 1) - 1 = L
    BY <1>3, <1>4
<1>9. g[L] = f[L]
    BY <1>3, <1>7, <1>8, SameSoFar
<1>10. g[Len(u)] = Feed(s, l)
    BY <1>1, <1>4, <1>6, <1>8, <1>9
<1>11. Feed(s, l) \in Parsing
    BY <1>3, FeedTyped
<1>12. Terminated(u)
    BY <1>4 DEF Terminated, Last
<1> QED
    BY <1>2, <1>4, <1>10, <1>11, <1>12 DEF Reads, u

LEMMA ReadsLine ==
    ASSUME NEW d, NEW s, Reads(d, s), NEW l \in DiffPiece, l.end # "none"
    PROVE  Reads(Append(d, l), Feed(s, l))
<1>1. d \in Seq(DiffPiece) /\ Terminated(Text(d))
    BY DEF Reads
<1>2. Append(d, l) \in Seq(DiffPiece)
    BY <1>1, AppendProperties
<1>3. Text(Append(d, l)) = Glued(Text(d), l)
    BY <1>1, GluesDiffPiece, TextAppend
<1>4. Glued(Text(d), l) = Append(Text(d), l)
    BY <1>1, GluedOn DEF Terminated
<1> QED
    BY <1>2, <1>3, <1>4, OneMoreLine

LEMMA FrontOfAppend ==
    ASSUME NEW S, NEW t \in Seq(S), NEW x \in S
    PROVE  Front(Append(t, x)) = t /\ Last(Append(t, x)) = x /\ Append(t, x) # <<>>
<1> DEFINE u == Append(t, x)
<1>1. /\ u \in Seq(S) /\ u # <<>> /\ Len(u) = Len(t) + 1 /\ Len(t) \in Nat
      /\ \A i \in 1 .. Len(t) : u[i] = t[i]
      /\ u[Len(t) + 1] = x
    BY AppendProperties, LenProperties
<1> HIDE DEF u
<1>2. /\ Front(u) \in Seq(S) /\ Len(Front(u)) = Len(u) - 1
      /\ \A i \in 1 .. Len(u) - 1 : Front(u)[i] = u[i]
      /\ Last(u) = u[Len(u)]
    BY <1>1, FrontIs
<1>3. Len(Front(u)) = Len(t) /\ \A i \in 1 .. Len(Front(u)) : Front(u)[i] = t[i]
    BY <1>1, <1>2
<1>4. Front(u) = t
    BY <1>2, <1>3, SeqEqual
<1> QED
    BY <1>1, <1>2, <1>4 DEF u

\* A line that does not end and a line feed after it are read as one line.
LEMMA ReadsCompleted ==
    ASSUME NEW d, NEW s, Reads(d, s), NEW text \in Seq(Atoms), text # <<>>
    PROVE  Reads(Append(Append(d, Piece(text, "none")), Piece(<<>>, "lf")),
                 Feed(s, Piece(text, "lf")))
<1> DEFINE p == Piece(text, "none")
           q == Piece(<<>>, "lf")
           l == Piece(text, "lf")
           e == Append(d, p)
           t == Text(d)
<1>1. d \in Seq(DiffPiece) /\ t \in Seq(DiffPiece) /\ Terminated(t)
    BY DEF Reads
<1>2. p \in DiffPiece /\ q \in DiffPiece /\ l \in DiffPiece
    BY PieceTyped, EmptySeq
<1>3. /\ p.text = text /\ p.end = "none" /\ q.text = <<>> /\ q.end = "lf"
      /\ l = [p EXCEPT !.text = text, !.end = "lf"] /\ l.end # "none"
    <2>1. p.text = text /\ p.end = "none" /\ q.text = <<>> /\ q.end = "lf" /\ l.end # "none"
        BY DEF Piece
    <2>2. l = [p EXCEPT !.text = text, !.end = "lf"]
        <3>1. p = [text |-> text, end |-> "none", at |-> <<>>]
              /\ l = [text |-> text, end |-> "lf", at |-> <<>>]
            BY DEF Piece
        <3>2. p \in DiffPiece /\ l \in DiffPiece
            BY <1>2
        <3> HIDE DEF p, l
        <3>3. l.text = text /\ l.end = "lf" /\ l.at = p.at
            BY <3>1
        <3> QED
            BY <3>2, <3>3 DEF DiffPiece
    <2> QED
        BY <2>1, <2>2
<1>4. text \o <<>> = text
    BY ConcatEmptySeq
<1> HIDE DEF p, q, l, t
<1>5. e \in Seq(DiffPiece) /\ Append(e, q) \in Seq(DiffPiece)
    BY <1>1, <1>2, AppendProperties
<1>6. Text(e) = Append(t, p)
    <2>1. Text(e) = Glued(t, p)
        BY <1>1, <1>2, GluesDiffPiece, TextAppend DEF t
    <2>2. Glued(t, p) = Append(t, p)
        BY <1>1, <1>3, GluedOn DEF Terminated
    <2> QED
        BY <2>1, <2>2
<1>7. Text(Append(e, q)) = Glued(Append(t, p), q)
    <2>1. Text(Append(e, q)) = Glued(Text(e), q)
        BY <1>2, <1>5, GluesDiffPiece, TextAppend
    <2> QED
        BY <1>6, <2>1
<1>8. Front(Append(t, p)) = t /\ Last(Append(t, p)) = p /\ Append(t, p) # <<>>
    BY <1>1, <1>2, FrontOfAppend
<1>9. Glued(Append(t, p), q) = Append(t, l)
    BY <1>3, <1>4, <1>8 DEF Glued
<1>10. Text(Append(e, q)) = Append(Text(d), l)
    BY <1>7, <1>9 DEF t
<1> HIDE DEF e
<1>11. Reads(Append(e, q), Feed(s, l))
    BY <1>2, <1>3, <1>5, <1>10, OneMoreLine
<1> QED
    BY <1>11 DEF e, p, q, l

LEMMA ConcatShort ==
    ASSUME NEW S, NEW d \in Seq(S), NEW x \in S, NEW y \in S, NEW z \in S
    PROVE  /\ d \o <<x>> = Append(d, x)
           /\ d \o <<x, y>> = Append(Append(d, x), y)
           /\ d \o <<x, y, z>> = Append(Append(Append(d, x), y), z)
<1>1. d \o <<x>> = Append(d, x)
    BY AppendIsConcat
<1>2. <<x>> \in Seq(S) /\ <<x, y>> \in Seq(S) /\ <<y>> \in Seq(S) /\ <<z>> \in Seq(S)
    BY ShortTyped
<1>3. <<x, y>> = <<x>> \o <<y>> /\ <<x, y, z>> = <<x, y>> \o <<z>>
    <2>1. <<x, y>> = Append(<<x>>, y) /\ <<x, y, z>> = Append(<<x, y>>, z)
        OBVIOUS
    <2>2. Append(<<x>>, y) = <<x>> \o <<y>>
        BY <1>2, AppendIsConcat
    <2>3. Append(<<x, y>>, z) = <<x, y>> \o <<z>>
        BY <1>2, AppendIsConcat
    <2> QED
        BY <2>1, <2>2, <2>3
<1>4. Append(d, x) \in Seq(S)
    BY AppendProperties
<1>5. d \o <<x, y>> = Append(Append(d, x), y)
    <2>1. d \o (<<x>> \o <<y>>) = (d \o <<x>>) \o <<y>>
        BY <1>2, ConcatAssociative
    <2>2. Append(d, x) \o <<y>> = Append(Append(d, x), y)
        BY <1>4, AppendIsConcat
    <2> QED
        BY <1>1, <1>3, <2>1, <2>2
<1>6. Append(Append(d, x), y) \in Seq(S)
    BY <1>4, AppendProperties
<1>7. d \o <<x, y, z>> = Append(Append(Append(d, x), y), z)
    <2>1. d \o (<<x, y>> \o <<z>>) = (d \o <<x, y>>) \o <<z>>
        BY <1>2, ConcatAssociative
    <2>2. Append(Append(d, x), y) \o <<z>> = Append(Append(Append(d, x), y), z)
        BY <1>6, AppendIsConcat
    <2> QED
        BY <1>3, <1>5, <2>1, <2>2
<1> QED
    BY <1>1, <1>5, <1>7

\* The line of a payload that a line of a hunk is read from.
LineOf(l) == Piece(<<l.operation>> \o l.content.text, "lf")

\* The lines of a hunk that build_diff can express.
Sayable(l) ==
    /\ l.content.end # "sep"
    /\ l.content.end = "none" => IsDataLine(<<l.operation>> \o l.content.text)

LEMMA LineOfTyped ==
    ASSUME NEW l \in HunkLine
    PROVE  /\ LineOf(l) \in DiffPiece /\ LineOf(l).text = <<l.operation>> \o l.content.text
           /\ LineOf(l).end = "lf" /\ LineOf(l).at = <<>>
           /\ <<l.operation>> \o l.content.text \in Seq(Atoms)
           /\ <<l.operation>> \o l.content.text # <<>>
           /\ (<<l.operation>> \o l.content.text)[1] = l.operation
           /\ Tail(<<l.operation>> \o l.content.text) = l.content.text
<1> DEFINE o == <<l.operation>>
           t == o \o l.content.text
<1>1. l.operation \in {" ", "+", "-"} /\ l.content.text \in Seq(Atoms)
    BY DEF HunkLine, Line
<1>2. l.operation \in Atoms
    BY <1>1, DiffAssumption DEF Marks
<1>3. o \in Seq(Atoms) /\ Len(o) = 1 /\ o[1] = l.operation
    BY <1>2
<1> HIDE DEF o
<1>4. t \in Seq(Atoms) /\ Len(t) = 1 + Len(l.content.text) /\ Len(l.content.text) \in Nat
      /\ \A i \in 1 .. 1 + Len(l.content.text) :
            t[i] = IF i <= 1 THEN o[i] ELSE l.content.text[i - 1]
    <2> DEFINE c == l.content.text
    <2>1. c \in Seq(Atoms) /\ Len(c) \in Nat
        BY <1>1, LenProperties
    <2> HIDE DEF c
    <2>2. o \o c \in Seq(Atoms) /\ Len(o \o c) = Len(o) + Len(c)
          /\ \A i \in 1 .. Len(o) + Len(c) :
                (o \o c)[i] = IF i <= Len(o) THEN o[i] ELSE c[i - Len(o)]
        BY <1>3, <2>1, ConcatProperties
    <2>3. o \o c \in Seq(Atoms) /\ Len(o \o c) = 1 + Len(c)
          /\ \A i \in 1 .. 1 + Len(c) : (o \o c)[i] = IF i <= 1 THEN o[i] ELSE c[i - 1]
        BY <1>3, <2>2
    <2> QED
        BY <2>1, <2>3 DEF c
<1> HIDE DEF t
<1>5. t # <<>> /\ t[1] = l.operation
    <2>1. Len(t) # 0 /\ 1 \in 1 .. 1 + Len(l.content.text)
        BY <1>4
    <2> QED
        BY <1>3, <1>4, <2>1, EmptySeq
<1>6. Tail(t) = l.content.text
    <2>1. Tail(t) \in Seq(Atoms) /\ Len(Tail(t)) = Len(t) - 1
          /\ \A i \in 1 .. Len(Tail(t)) : Tail(t)[i] = t[i + 1]
        BY <1>4, <1>5, HeadTailProperties
    <2>2. Len(Tail(t)) = Len(l.content.text)
        BY <1>4, <2>1
    <2>3. \A i \in 1 .. Len(l.content.text) : t[i + 1] = l.content.text[i]
        <3> SUFFICES ASSUME NEW i \in 1 .. Len(l.content.text)
                     PROVE  t[i + 1] = l.content.text[i]
            OBVIOUS
        <3>1. i + 1 \in 1 .. 1 + Len(l.content.text) /\ ~(i + 1 <= 1) /\ (i + 1) - 1 = i
            BY <1>4
        <3> QED
            BY <1>4, <3>1
    <2> QED
        BY <1>1, <2>1, <2>2, <2>3, SeqEqual
<1> QED
    BY <1>4, <1>5, <1>6, PieceTyped DEF LineOf, Piece, t, o

LEMMA MarkerTyped == Marker \in DiffPiece /\ Marker.end = "lf"
<1>1. Marker.text \in Seq(Atoms)
    <2>1. <<"\\ No newline at end of file">> \in Seq(Atoms)
        BY MarksTyped, ShortTyped
    <2> QED
        BY <2>1 DEF Marker, Piece
<1>2. Marker = Piece(Marker.text, "lf")
    BY DEF Marker, Piece
<1>3. Marker.end = "lf"
    BY DEF Marker, Piece
<1> QED
    BY <1>1, <1>2, <1>3, PieceTyped

\* What build_diff writes of such a line is read as that line, and as a
\* marker after it if it does not end.
LEMMA ReadsWritten ==
    ASSUME NEW d, NEW s, Reads(d, s), NEW l \in HunkLine, Sayable(l)
    PROVE  Reads(d \o Written(l),
                 IF l.content.end = "lf" THEN Feed(s, LineOf(l))
                 ELSE Feed(Feed(s, LineOf(l)), Marker))
<1> DEFINE text == <<l.operation>> \o l.content.text
           p == Piece(text, "none")
           q == Piece(<<>>, "lf")
<1>1. d \in Seq(DiffPiece)
    BY DEF Reads
<1>2. l.content.end \in {"lf", "none"}
    BY DEF HunkLine, Line, Sayable
<1>3. text \in Seq(Atoms) /\ text # <<>> /\ LineOf(l) \in DiffPiece /\ LineOf(l).end = "lf"
    BY LineOfTyped
<1>4. LineOf(l) = Piece(text, "lf")
    BY DEF LineOf
<1>5. p \in DiffPiece /\ q \in DiffPiece
    BY <1>3, PieceTyped, EmptySeq
<1>6. CASE l.content.end = "lf"
    <2>1. Written(l) = <<LineOf(l)>>
        BY <1>6 DEF Written, LineOf
    <2>2. d \o <<LineOf(l)>> = Append(d, LineOf(l))
        BY <1>1, <1>3, ConcatShort
    <2> QED
        BY <1>3, <1>6, <2>1, <2>2, ReadsLine
<1>7. CASE l.content.end = "none"
    <2>1. Written(l) = <<p, q, Marker>>
        BY <1>7 DEF Written, Sayable
    <2> HIDE DEF p, q, text
    <2>2. d \o <<p, q, Marker>> = Append(Append(Append(d, p), q), Marker)
        BY <1>1, <1>5, MarkerTyped, ConcatShort
    <2>3. Reads(Append(Append(d, p), q), Feed(s, LineOf(l)))
        BY <1>3, <1>4, ReadsCompleted DEF p, q
    <2>4. Reads(Append(Append(Append(d, p), q), Marker), Feed(Feed(s, LineOf(l)), Marker))
        BY <2>3, MarkerTyped, ReadsLine
    <2> QED
        BY <1>7, <2>1, <2>2, <2>4
<1> QED
    BY <1>2, <1>6, <1>7

-----------------------------------------------------------------------------
(* Reading a hunk.                                                         *)

Ranges(h) == <<h.oldStart, h.oldCount, h.newStart, h.newCount>>

HunkHead(h) == [text |-> <<"@@">>, end |-> "lf", at |-> Ranges(h)]

\* As build_diff writes a hunk: it has lines, and its header counts them.
Counted(h) ==
    /\ h \in Hunk /\ h.lines # <<>>
    /\ h.oldCount = Len(Old(h)) /\ h.newCount = Len(New(h))

LEMMA SidesTyped ==
    ASSUME NEW lines \in Seq(HunkLine), NEW k \in 0 .. Len(lines)
    PROVE  /\ OldTo(lines)[k] \in Seq(Line) /\ Len(OldTo(lines)[k]) \in Nat
           /\ NewTo(lines)[k] \in Seq(Line) /\ Len(NewTo(lines)[k]) \in Nat
<1>1. OldTo(lines)[k] \in Seq(Line) /\ NewTo(lines)[k] \in Seq(Line)
    BY LinesToIs DEF Collected, OldTo, NewTo
<1> QED
    BY <1>1, LenProperties

LEMMA OneSideGrows ==
    ASSUME NEW lines \in Seq(HunkLine), NEW k \in 0 .. Len(lines), k + 1 <= Len(lines)
    PROVE  \/ Len(OldTo(lines)[k + 1]) = Len(OldTo(lines)[k]) + 1
           \/ Len(NewTo(lines)[k + 1]) = Len(NewTo(lines)[k]) + 1
<1> DEFINE o == lines[k + 1].operation
           c == lines[k + 1].content
           p == OldTo(lines)
           q == NewTo(lines)
<1>1. k + 1 \in 1 .. Len(lines) /\ (k + 1) - 1 = k
    BY LenProperties
<1>2. lines[k + 1] \in HunkLine /\ c \in Line
    BY <1>1, LinesTyped
<1>3. o \in {" ", "+", "-"}
    BY <1>2 DEF HunkLine
<1>4. p[k] \in Seq(Line) /\ q[k] \in Seq(Line)
    BY SidesTyped
<1>5. Collected(p, lines, {" ", "-"}) /\ Collected(q, lines, {" ", "+"})
    BY LinesToIs DEF OldTo, NewTo
<1> HIDE DEF p, q
<1>6. CASE o \in {" ", "-"}
    <2>1. p[k + 1] = Append(p[k], c)
        BY <1>1, <1>5, <1>6 DEF Collected
    <2> HIDE DEF c
    <2>2. Len(p[k + 1]) = Len(p[k]) + 1
        BY <1>2, <1>4, <2>1, AppendProperties
    <2> QED
        BY <2>2 DEF p
<1>7. CASE o \in {" ", "+"}
    <2>1. q[k + 1] = Append(q[k], c)
        BY <1>1, <1>5, <1>7 DEF Collected
    <2> HIDE DEF c
    <2>2. Len(q[k + 1]) = Len(q[k]) + 1
        BY <1>2, <1>4, <2>1, AppendProperties
    <2> QED
        BY <2>2 DEF q
<1> QED
    BY <1>3, <1>6, <1>7

\* The counts of the header are reached with the last line and not before.
LEMMA CountsGrow ==
    ASSUME NEW h, Counted(h), NEW k \in 0 .. Len(h.lines)
    PROVE  /\ Len(OldTo(h.lines)[k]) <= h.oldCount
           /\ Len(NewTo(h.lines)[k]) <= h.newCount
           /\ (Len(OldTo(h.lines)[k]) = h.oldCount /\ Len(NewTo(h.lines)[k]) = h.newCount)
              <=> k = Len(h.lines)
<1> DEFINE lines == h.lines
           n == Len(lines)
<1>1. lines \in Seq(HunkLine) /\ n \in Nat
    BY HunkTyped DEF Counted
<1>2. Len(OldTo(lines)[n]) = h.oldCount /\ Len(NewTo(lines)[n]) = h.newCount
    BY DEF Counted, Old, New, LinesOf, OldTo, NewTo
<1> HIDE DEF lines
<1>3. k \in 0 .. n
    BY DEF lines
<1>4. ASSUME NEW i \in 0 .. n
      PROVE  Len(OldTo(lines)[i]) <= h.oldCount /\ Len(NewTo(lines)[i]) <= h.newCount
    <2>1. i \in 0 .. Len(lines) /\ n \in i .. Len(lines)
        BY <1>1
    <2>2. BeginsWith(OldTo(lines)[n], OldTo(lines)[i])
          /\ BeginsWith(NewTo(lines)[n], NewTo(lines)[i])
        BY <1>1, <2>1, LinesToGrow DEF OldTo, NewTo
    <2> QED
        BY <1>2, <2>2 DEF BeginsWith
<1>5. ASSUME k # n PROVE Len(OldTo(lines)[k]) # h.oldCount \/ Len(NewTo(lines)[k]) # h.newCount
    <2>1. k \in 0 .. Len(lines) /\ k + 1 <= Len(lines) /\ k + 1 \in 0 .. n /\ k + 1 \in 0 .. Len(lines)
        BY <1>1, <1>3, <1>5
    <2>2. Len(OldTo(lines)[k + 1]) <= h.oldCount /\ Len(NewTo(lines)[k + 1]) <= h.newCount
        BY <1>4, <2>1
    <2>3. \/ Len(OldTo(lines)[k + 1]) = Len(OldTo(lines)[k]) + 1
          \/ Len(NewTo(lines)[k + 1]) = Len(NewTo(lines)[k]) + 1
        BY <1>1, <2>1, OneSideGrows
    <2>4. Len(OldTo(lines)[k]) \in Nat /\ Len(NewTo(lines)[k]) \in Nat
        BY <1>1, <2>1, SidesTyped
    <2> HIDE DEF n
    <2> QED
        BY <2>2, <2>3, <2>4
<1> QED
    BY <1>2, <1>3, <1>4, <1>5 DEF lines

LEMMA BeginningIs ==
    ASSUME NEW S, NEW t \in Seq(S), NEW n \in Nat, n <= Len(t)
    PROVE  /\ SubSeq(t, 1, n) \in Seq(S) /\ Len(SubSeq(t, 1, n)) = n
           /\ \A i \in 1 .. n : SubSeq(t, 1, n)[i] = t[i]
<1>1. 0 \in Nat /\ 0 <= n /\ n - 0 = n /\ 0 + 1 = 1 /\ \A i \in 1 .. n : 0 + i = i
    OBVIOUS
<1>2. /\ SubSeq(t, 0 + 1, n) \in Seq(S) /\ Len(SubSeq(t, 0 + 1, n)) = n - 0
      /\ \A i \in 1 .. (n - 0) : SubSeq(t, 0 + 1, n)[i] = t[0 + i]
    BY <1>1, Slice
<1> QED
    BY <1>1, <1>2

LEMMA PrefixIs ==
    ASSUME NEW S, NEW s \in Seq(S), NEW t \in Seq(S)
    PROVE  IsPrefix(s, t) <=> BeginsWith(t, s)
<1> DEFINE n == Len(s)
           x == SubSeq(s, 1, n)
           y == SubSeq(t, 1, n)
<1>1. n \in Nat /\ x = s
    BY LenProperties, SubSeqFull
<1>2. IsPrefix(s, t) <=> n <= Len(t) /\ x = y
    BY DEF IsPrefix
<1>3. n <= Len(t) => y \in Seq(S) /\ Len(y) = n /\ \A i \in 1 .. n : y[i] = t[i]
    <2> HIDE DEF n
    <2> QED
        BY <1>1, BeginningIs
<1> HIDE DEF x, y
<1>4. n <= Len(t) => (s = y <=> \A i \in 1 .. n : t[i] = s[i])
    <2> SUFFICES ASSUME n <= Len(t) PROVE s = y <=> \A i \in 1 .. n : t[i] = s[i]
        OBVIOUS
    <2>1. ASSUME \A i \in 1 .. n : t[i] = s[i] PROVE s = y
        BY <1>3, <2>1, SeqEqual
    <2>2. ASSUME s = y PROVE \A i \in 1 .. n : t[i] = s[i]
        BY <1>3, <2>2
    <2> QED
        BY <2>1, <2>2
<1> QED
    BY <1>1, <1>2, <1>4 DEF BeginsWith

LEMMA HeadersTyped ==
    /\ OldHeader \in Seq(Atoms) /\ Len(OldHeader) = 2
    /\ OldHeader[1] = "-" /\ OldHeader[2] = "-- "
    /\ NewHeader \in Seq(Atoms) /\ Len(NewHeader) = 2
    /\ NewHeader[1] = "+" /\ NewHeader[2] = "++ "
BY MarksTyped, ShortTyped DEF OldHeader, NewHeader

\* A header is longer than what opens a hunk, and it starts with its marks.
LEMMA HeaderIs ==
    ASSUME NEW text \in Seq(Atoms), IsPrefix(OldHeader, text)
    PROVE  Len(text) >= 2 /\ text[1] = "-" /\ text[2] = "-- "
<1>1. BeginsWith(text, OldHeader)
    BY HeadersTyped, PrefixIs
<1>2. 2 <= Len(text) /\ \A i \in 1 .. 2 : text[i] = OldHeader[i]
    BY <1>1, HeadersTyped DEF BeginsWith
<1>3. 1 \in 1 .. 2 /\ 2 \in 1 .. 2
    OBVIOUS
<1> QED
    BY <1>2, <1>3, HeadersTyped

LEMMA NewHeaderIs ==
    ASSUME NEW text \in Seq(Atoms), IsPrefix(NewHeader, text)
    PROVE  Len(text) >= 2 /\ text[1] = "+" /\ text[2] = "++ "
<1>1. BeginsWith(text, NewHeader)
    BY HeadersTyped, PrefixIs
<1>2. 2 <= Len(text) /\ \A i \in 1 .. 2 : text[i] = NewHeader[i]
    BY <1>1, HeadersTyped DEF BeginsWith
<1>3. 1 \in 1 .. 2 /\ 2 \in 1 .. 2
    OBVIOUS
<1> QED
    BY <1>2, <1>3, HeadersTyped
\* The state of the parser once the hunk it may have just read is closed.
AtHunk(s) == IF s.mode = "tail" THEN HunkClosed(s, s.lines) ELSE s

\* Between two hunks of a file, hs of which have been read.
BetweenHunks(s, file, hs, ps) ==
    /\ s \in Parsing /\ s.mode \in {"hunks", "tail"}
    /\ AtHunk(s).hunks = hs /\ s.file = file /\ s.patches = ps

\* In a hunk, after the first k lines of it.
InBody(s, h, k, file, hs, ps) ==
    /\ s \in Parsing /\ s.mode = "body"
    /\ s.at = Ranges(h) /\ s.lines = SubSeq(h.lines, 1, k)
    /\ s.hunks = hs /\ s.file = file /\ s.patches = ps

LEMMA AtHunkIs ==
    ASSUME NEW s \in Parsing, s.mode \in {"hunks", "tail"}
    PROVE  /\ AtHunk(s) \in Parsing /\ AtHunk(s).mode = "hunks"
           /\ AtHunk(s).file = s.file /\ AtHunk(s).patches = s.patches
<1>1. CASE s.mode = "hunks"
    <2>1. AtHunk(s) = s
        BY <1>1 DEF AtHunk
    <2> QED
        BY <1>1, <2>1
<1>2. CASE s.mode = "tail"
    <2>1. AtHunk(s) = HunkClosed(s, s.lines)
        BY <1>2 DEF AtHunk
    <2>2. s.lines \in Seq(HunkLine)
        BY DEF Parsing, ParserState
    <2>3. HunkClosed(s, s.lines) \in Parsing
        BY <1>2, <2>2, HunkClosedTyped DEF Parsing
    <2>4. /\ HunkClosed(s, s.lines).mode = "hunks"
          /\ HunkClosed(s, s.lines).file = s.file /\ HunkClosed(s, s.lines).patches = s.patches
        BY DEF HunkClosed, Parsing, ParserState
    <2> QED
        BY <2>1, <2>3, <2>4
<1> QED
    BY <1>1, <1>2

LEMMA FeedBetween ==
    ASSUME NEW s \in Parsing, s.mode \in {"hunks", "tail"}, NEW l, l.text # Marker.text
    PROVE  Feed(s, l) = FeedHunks(AtHunk(s), l)
<1>1. CASE s.mode = "hunks"
    <2>1. Feed(s, l) = FeedHunks(s, l)
        BY <1>1 DEF Feed
    <2> QED
        BY <1>1, <2>1 DEF AtHunk
<1>2. CASE s.mode = "tail"
    <2>1. Feed(s, l) = FeedTail(s, l)
        BY <1>2 DEF Feed
    <2>2. FeedTail(s, l) = FeedHunks(HunkClosed(s, s.lines), l)
        BY DEF FeedTail
    <2> QED
        BY <1>2, <2>1, <2>2 DEF AtHunk
<1> QED
    BY <1>1, <1>2

LEMMA HunkHeadTyped ==
    ASSUME NEW h \in Hunk
    PROVE  /\ HunkHead(h) \in DiffPiece /\ HunkHead(h).end = "lf"
           /\ HunkHead(h).text = <<"@@">> /\ HunkHead(h).at = Ranges(h)
           /\ Ranges(h) \in Nat \X Nat \X Nat \X Nat /\ Ranges(h) # <<>>
           /\ Ranges(h)[1] = h.oldStart /\ Ranges(h)[2] = h.oldCount
           /\ Ranges(h)[3] = h.newStart /\ Ranges(h)[4] = h.newCount
           /\ HunkHead(h).text # Marker.text /\ ~IsPrefix(OldHeader, HunkHead(h).text)
<1>1. HunkHead(h).text = <<"@@">> /\ HunkHead(h).end = "lf" /\ HunkHead(h).at = Ranges(h)
    BY DEF HunkHead
<1>2. <<"@@">> \in Seq(Atoms)
    BY MarksTyped, ShortTyped
<1>3. /\ Ranges(h) \in Nat \X Nat \X Nat \X Nat
      /\ Ranges(h)[1] = h.oldStart /\ Ranges(h)[2] = h.oldCount
      /\ Ranges(h)[3] = h.newStart /\ Ranges(h)[4] = h.newCount
    BY DEF Hunk, Ranges
<1>4. Ranges(h) # <<>>
    BY DEF Ranges
<1>5. HunkHead(h) \in DiffPiece
    BY <1>2, <1>3 DEF HunkHead, DiffPiece
<1>6. <<"@@">> # Marker.text
    <2>1. Marker.text = <<"\\ No newline at end of file">>
        BY DEF Marker, Piece
    <2>2. <<"@@">>[1] = "@@" /\ <<"\\ No newline at end of file">>[1] = "\\ No newline at end of file"
        BY FirstOf
    <2> QED
        BY <2>1, <2>2
<1>7. ~IsPrefix(OldHeader, <<"@@">>)
    <2>1. Len(<<"@@">>) = 1
        OBVIOUS
    <2>2. ASSUME IsPrefix(OldHeader, <<"@@">>) PROVE FALSE
        <3>1. Len(<<"@@">>) >= 2
            BY <1>2, <2>2, HeaderIs
        <3> QED
            BY <2>1, <3>1
    <2> QED
        BY <2>2
<1> QED
    BY <1>1, <1>3, <1>4, <1>5, <1>6, <1>7

LEMMA OpensHunk ==
    ASSUME NEW h, Counted(h), NEW s, NEW file, NEW hs, NEW ps, BetweenHunks(s, file, hs, ps)
    PROVE  InBody(Feed(s, HunkHead(h)), h, 0, file, hs, ps)
<1> DEFINE l == HunkHead(h)
           a == AtHunk(s)
           t == Feed(s, l)
<1>1. h \in Hunk
    BY DEF Counted
<1>2. /\ l \in DiffPiece /\ l.end = "lf" /\ l.text = <<"@@">> /\ l.at = Ranges(h)
      /\ l.at # <<>> /\ l.text # Marker.text /\ ~IsPrefix(OldHeader, l.text)
      /\ l.at[2] = h.oldCount /\ l.at[4] = h.newCount
      /\ Ranges(h) \in Nat \X Nat \X Nat \X Nat
    BY <1>1, HunkHeadTyped
<1>3. ~(l.at[2] = 0 /\ l.at[4] = 0)
    <2>1. h.lines \in Seq(HunkLine) /\ Len(h.lines) \in Nat /\ Len(h.lines) # 0
        BY <1>1, HunkTyped, EmptySeq DEF Counted
    <2>2. 0 \in 0 .. Len(h.lines) /\ 0 # Len(h.lines)
        BY <2>1
    <2>3. OldTo(h.lines)[0] = <<>> /\ NewTo(h.lines)[0] = <<>> /\ Len(<<>>) = 0
        BY <2>1, LinesToIs, EmptySeq DEF Collected, OldTo, NewTo
    <2>4. ~(Len(<<>>) = h.oldCount /\ Len(<<>>) = h.newCount)
        BY <2>2, <2>3, CountsGrow
    <2> QED
        BY <1>2, <2>3, <2>4
<1>4. s \in Parsing /\ s.mode \in {"hunks", "tail"}
    BY DEF BetweenHunks
<1>5. /\ a \in Parsing /\ a.mode = "hunks" /\ a.file = file /\ a.patches = ps /\ a.hunks = hs
    BY <1>4, AtHunkIs DEF BetweenHunks
<1> HIDE DEF l, a
<1>6. t = FeedHunks(a, l)
    BY <1>2, <1>4, FeedBetween DEF a
<1>7. FeedHunks(a, l) = [a EXCEPT !.mode = "body", !.at = l.at, !.lines = <<>>]
    BY <1>2, <1>3 DEF FeedHunks
<1>8. t \in Parsing
    BY <1>2, <1>4, FeedTyped
<1>9. t.mode = "body" /\ t.at = Ranges(h) /\ t.lines = <<>> /\ t.hunks = hs
      /\ t.file = file /\ t.patches = ps
    <2> HIDE DEF t
    <2> QED
        BY <1>2, <1>5, <1>6, <1>7 DEF Parsing, ParserState
<1>10. SubSeq(h.lines, 1, 0) = <<>>
    BY SubSeqEmpty
<1> QED
    BY <1>8, <1>9, <1>10 DEF InBody, l
LEMMA OneMore ==
    ASSUME NEW S, NEW lines \in Seq(S), NEW k \in 0 .. Len(lines), k + 1 <= Len(lines)
    PROVE  /\ k \in Nat /\ SubSeq(lines, 1, k) \in Seq(S)
           /\ Len(SubSeq(lines, 1, k)) = k
           /\ lines[k + 1] \in S
           /\ SubSeq(lines, 1, k + 1) = Append(SubSeq(lines, 1, k), lines[k + 1])
<1> DEFINE s == SubSeq(lines, 1, k)
           t == SubSeq(lines, 1, k + 1)
           l == lines[k + 1]
<1>1. k \in Nat /\ k <= Len(lines) /\ k + 1 \in Nat /\ k + 1 \in 1 .. Len(lines)
      /\ k + 1 \in 1 .. k + 1
    BY LenProperties
<1>2. s \in Seq(S) /\ Len(s) = k /\ \A i \in 1 .. k : s[i] = lines[i]
    BY <1>1, BeginningIs
<1>3. t \in Seq(S) /\ Len(t) = k + 1 /\ \A i \in 1 .. k + 1 : t[i] = lines[i]
    BY <1>1, BeginningIs
<1>4. l \in S
    BY <1>1, ElementOfSeq
<1> HIDE DEF s, t, l
<1>5. /\ Append(s, l) \in Seq(S) /\ Len(Append(s, l)) = k + 1
      /\ \A i \in 1 .. k : Append(s, l)[i] = s[i]
      /\ Append(s, l)[k + 1] = l
    BY <1>2, <1>4, AppendProperties
<1>6. \A i \in 1 .. k + 1 : t[i] = Append(s, l)[i]
    <2> SUFFICES ASSUME NEW i \in 1 .. k + 1 PROVE t[i] = Append(s, l)[i]
        OBVIOUS
    <2>1. CASE i = k + 1
        BY <1>1, <1>3, <1>5, <2>1 DEF l
    <2>2. CASE i # k + 1
        <3>1. i \in 1 .. k
            BY <1>1, <2>2
        <3> QED
            BY <1>2, <1>3, <1>5, <3>1
    <2> QED
        BY <2>1, <2>2
<1>7. t = Append(s, l)
    BY <1>3, <1>5, <1>6, SeqEqual
<1> QED
    BY <1>1, <1>2, <1>4, <1>7 DEF s, t, l

\* What a line holds makes no difference to the counts.
LEMMA OneMoreCounted ==
    ASSUME NEW lines \in Seq(HunkLine), NEW k \in 0 .. Len(lines), k + 1 <= Len(lines),
           NEW e \in HunkLine, e.operation = lines[k + 1].operation, NEW ops
    PROVE  CountOf(ops, Append(SubSeq(lines, 1, k), e)) = Len(LinesTo(lines, ops)[k + 1])
<1> DEFINE s == SubSeq(lines, 1, k)
           p == LinesTo(lines, ops)
           l == lines[k + 1]
<1>1. s \in Seq(HunkLine) /\ l \in HunkLine
    BY OneMore
<1>2. l.content \in Line /\ e.content \in Line
    BY <1>1 DEF HunkLine
<1>3. LinesOf(s, ops) = p[k]
    BY BeginningOf
<1>4. k + 1 \in 1 .. Len(lines) /\ (k + 1) - 1 = k
    BY LenProperties
<1>5. Collected(p, lines, ops)
    BY LinesToIs
<1>6. p[k] \in Seq(Line)
    BY <1>5 DEF Collected
<1>7. p[k + 1] = IF l.operation \in ops THEN Append(p[k], l.content) ELSE p[k]
    BY <1>4, <1>5 DEF Collected
<1>8. LinesOf(Append(s, e), ops) = IF e.operation \in ops THEN Append(p[k], e.content) ELSE p[k]
    BY <1>1, <1>3, LinesOfAppend
<1> DEFINE x == p[k]
<1> HIDE DEF s, p, x
<1>9. Len(Append(p[k], l.content)) = Len(p[k]) + 1 /\ Len(Append(p[k], e.content)) = Len(p[k]) + 1
    BY <1>2, <1>6, AppendProperties
<1>10. CASE e.operation \in ops
    BY <1>7, <1>8, <1>9, <1>10 DEF CountOf, s, p
<1>11. CASE e.operation \notin ops
    BY <1>7, <1>8, <1>11 DEF CountOf, s, p
<1> QED
    BY <1>10, <1>11

\* A line as it is read before a marker tells that it does not end.
Ended(l) == [operation |-> l.operation, content |-> [text |-> l.content.text, end |-> "lf"]]

LEMMA SameLine ==
    ASSUME NEW a \in Line, NEW b \in Line, a.text = b.text, a.end = b.end
    PROVE  a = b
BY DEF Line

LEMMA HunkLineIs ==
    /\ \A o \in {" ", "+", "-"}, c \in Line : [operation |-> o, content |-> c] \in HunkLine
    /\ \A l \in HunkLine : l = [operation |-> l.operation, content |-> l.content]
<1> DEFINE O == {" ", "+", "-"}
<1>1. HunkLine = [operation : O, content : Line]
    BY DEF HunkLine
<1> HIDE DEF O
<1>2. \A o \in O, c \in Line : [operation |-> o, content |-> c] \in HunkLine
    BY <1>1
<1>3. \A l \in HunkLine : l = [operation |-> l.operation, content |-> l.content]
    BY <1>1
<1> QED
    BY <1>2, <1>3 DEF O

LEMMA SameHunkLine ==
    ASSUME NEW a \in HunkLine, NEW b \in HunkLine,
           a.operation = b.operation, a.content = b.content
    PROVE  a = b
BY HunkLineIs

LEMMA EndedIs ==
    ASSUME NEW l \in HunkLine
    PROVE  /\ Ended(l) \in HunkLine /\ Ended(l).operation = l.operation
           /\ Ended(l).content.end = "lf"
           /\ l.content.end = "lf" => Ended(l) = l
           /\ l.content.end = "none" =>
                 [Ended(l) EXCEPT !.content = [Ended(l).content EXCEPT !.end = "none"]] = l
<1>1. l.operation \in {" ", "+", "-"} /\ l.content \in Line
    BY DEF HunkLine
<1>2. l.content.text \in Seq(Atoms)
    BY <1>1 DEF Line
<1> DEFINE c == [text |-> l.content.text, end |-> "lf"]
<1>3. c \in Line /\ c.text = l.content.text /\ c.end = "lf"
    BY <1>2 DEF Line
<1>4. Ended(l) = [operation |-> l.operation, content |-> c]
    BY DEF Ended
<1> DEFINE d == [c EXCEPT !.end = "none"]
<1>5. d \in Line /\ d.text = c.text /\ d.end = "none"
    <2> HIDE DEF c
    <2> QED
        BY <1>3 DEF Line
<1> HIDE DEF c, d
<1>6. (l.content.end = "lf" => c = l.content) /\ (l.content.end = "none" => d = l.content)
    BY <1>1, <1>3, <1>5, SameLine
<1>7. Ended(l).operation = l.operation /\ Ended(l).content = c
    BY <1>4
<1>8. Ended(l) \in HunkLine
    BY <1>1, <1>3, <1>4, HunkLineIs
<1>9. l.content.end = "lf" => Ended(l) = l
    BY <1>6, <1>7, <1>8, SameHunkLine
<1> DEFINE m == [Ended(l) EXCEPT !.content = l.content]
<1>10. m \in HunkLine /\ m.operation = l.operation /\ m.content = l.content
    BY <1>1, <1>7, <1>8 DEF HunkLine
<1> HIDE DEF m
<1>11. m = l
    BY <1>10, SameHunkLine
<1> QED
    BY <1>3, <1>6, <1>7, <1>8, <1>9, <1>11 DEF d, m

LEMMA UnterminatedIs ==
    ASSUME NEW s \in Seq(HunkLine), NEW l \in HunkLine, l.content.end = "none"
    PROVE  Append(s, Ended(l)) # <<>> /\ Unterminated(Append(s, Ended(l))) = Append(s, l)
<1> DEFINE e == Ended(l)
           t == Append(s, e)
           n == Len(t)
           u == Unterminated(t)
<1>1. e \in HunkLine /\ e.content.end = "lf"
      /\ [e EXCEPT !.content = [e.content EXCEPT !.end = "none"]] = l
    BY EndedIs
<1> HIDE DEF e
<1>2. /\ t \in Seq(HunkLine) /\ t # <<>> /\ n = Len(s) + 1 /\ Len(s) \in Nat
      /\ \A i \in 1 .. Len(s) : t[i] = s[i]
      /\ t[n] = e /\ n \in 1 .. n
    BY <1>1, AppendProperties, LenProperties
<1> HIDE DEF t
<1>3. u = [t EXCEPT ![n] = [e EXCEPT !.content = [e.content EXCEPT !.end = "none"]]]
    BY <1>1, <1>2 DEF Unterminated
<1>4. u \in Seq(HunkLine) /\ Len(u) = n /\ u[n] = l
      /\ \A i \in 1 .. n : i # n => u[i] = t[i]
    <2>1. u = [t EXCEPT ![n] = l]
        BY <1>1, <1>3
    <2> HIDE DEF u
    <2> QED
        BY <1>2, <2>1
<1> DEFINE v == Append(s, l)
<1>5. /\ v \in Seq(HunkLine) /\ Len(v) = Len(s) + 1
      /\ \A i \in 1 .. Len(s) : v[i] = s[i]
      /\ v[Len(s) + 1] = l
    BY AppendProperties
<1> HIDE DEF u, v, n
<1>6. ASSUME NEW i \in 1 .. n PROVE u[i] = v[i]
    <2>1. CASE i = n
        BY <1>2, <1>4, <1>5, <2>1
    <2>2. CASE i # n
        <3>1. i \in 1 .. Len(s)
            BY <1>2, <2>2
        <3> QED
            BY <1>2, <1>4, <1>5, <2>2, <3>1
    <2> QED
        BY <2>1, <2>2
<1>7. u = v
    BY <1>2, <1>4, <1>5, <1>6, SeqEqual
<1> QED
    BY <1>2, <1>7 DEF u, v, t, e
\* Halfway through a line that does not end: the marker is still to come.
BeforeMarker(t, h, k, file, hs, ps) ==
    /\ t \in Parsing
    /\ t.mode = IF k + 1 = Len(h.lines) THEN "tail" ELSE "body"
    /\ t.lines = Append(SubSeq(h.lines, 1, k), Ended(h.lines[k + 1]))
    /\ t.at = Ranges(h) /\ t.hunks = hs /\ t.file = file /\ t.patches = ps

LEMMA FeedsLine ==
    ASSUME NEW h, Counted(h), NEW k \in 0 .. Len(h.lines), k + 1 <= Len(h.lines),
           NEW s, NEW file, NEW hs, NEW ps, InBody(s, h, k, file, hs, ps)
    PROVE  BeforeMarker(Feed(s, LineOf(h.lines[k + 1])), h, k, file, hs, ps)
<1> DEFINE l == h.lines[k + 1]
           p == LineOf(l)
           more == Append(SubSeq(h.lines, 1, k), Ended(l))
           i == Len(OldTo(h.lines)[k + 1])
           j == Len(NewTo(h.lines)[k + 1])
           m == IF k + 1 = Len(h.lines) THEN "tail" ELSE "body"
           t == Feed(s, p)
<1>1. /\ h \in Hunk /\ h.lines \in Seq(HunkLine) /\ Len(h.lines) \in Nat /\ k \in Nat
      /\ k + 1 \in 0 .. Len(h.lines)
    BY HunkTyped DEF Counted
<1>2. l \in HunkLine /\ SubSeq(h.lines, 1, k) \in Seq(HunkLine)
    BY <1>1, OneMore
<1>3. Ended(l) \in HunkLine /\ Ended(l).operation = l.operation
    BY <1>2, EndedIs
<1>4. more \in Seq(HunkLine) /\ more # <<>>
    BY <1>2, <1>3, AppendProperties
<1>5. CountOf({" ", "-"}, more) = i /\ CountOf({" ", "+"}, more) = j
    BY <1>1, <1>3, OneMoreCounted DEF OldTo, NewTo
<1>6. i <= h.oldCount /\ j <= h.newCount
      /\ ((i = h.oldCount /\ j = h.newCount) <=> k + 1 = Len(h.lines))
    BY <1>1, CountsGrow
<1>7. /\ p \in DiffPiece /\ p.text # <<>> /\ p.text[1] = l.operation
      /\ Tail(p.text) = l.content.text /\ p.end = "lf"
    BY <1>2, LineOfTyped
<1>8. l.operation \in {" ", "+", "-"}
    BY <1>2 DEF HunkLine
<1>9. p.text # Marker.text
    BY <1>7, <1>8, NoMarkIsALine
<1>10. /\ s \in Parsing /\ s.mode = "body" /\ s.at = Ranges(h)
       /\ s.lines = SubSeq(h.lines, 1, k) /\ s.hunks = hs /\ s.file = file /\ s.patches = ps
    BY DEF InBody
<1>11. s.at[2] = h.oldCount /\ s.at[4] = h.newCount
    BY <1>1, <1>10, HunkHeadTyped
<1>12. Append(s.lines, [operation |-> p.text[1],
                        content |-> [text |-> Tail(p.text), end |-> p.end]]) = more
    BY <1>7, <1>10 DEF Ended
<1>13. CountsOf(more) = <<i, j>>
    BY <1>5 DEF CountsOf
<1>14. t = FeedBody(s, p)
    BY <1>10 DEF Feed
<1> HIDE DEF l, p, more, i, j, t
<1>15. CountsOf(more)[1] <= s.at[2] /\ CountsOf(more)[2] <= s.at[4]
    BY <1>6, <1>11, <1>13
<1>16. (CountsOf(more) = <<s.at[2], s.at[4]>>) <=> k + 1 = Len(h.lines)
    BY <1>6, <1>11, <1>13
<1>17. FeedBody(s, p) = [s EXCEPT !.lines = more, !.mode = m]
    <2>1. FeedBody(s, p) = [s EXCEPT !.lines = more,
                !.mode = IF CountsOf(more) = <<s.at[2], s.at[4]>> THEN "tail" ELSE "body"]
        <3>1. p.text[1] \in {" ", "+", "-"}
            BY <1>7, <1>8
        <3> QED
            BY <1>7, <1>9, <1>12, <1>15, <3>1, Zenon DEF FeedBody
    <2> QED
        BY <1>16, <2>1
<1>18. t \in Parsing
    BY <1>7, <1>10, FeedTyped DEF t
<1>19. t.lines = more /\ t.mode = m /\ t.at = s.at /\ t.hunks = s.hunks /\ t.file = s.file
       /\ t.patches = s.patches
    <2> HIDE DEF m
    <2>1. t = [s EXCEPT !.lines = more, !.mode = m]
        BY <1>14, <1>17
    <2>2. s \in ParserState
        BY <1>10 DEF Parsing
    <2> QED
        BY <2>1, <2>2 DEF ParserState
<1> QED
    BY <1>10, <1>18, <1>19 DEF BeforeMarker, more, l, t, p

\* A hunk that was read whole is the hunk that was written.
LEMMA ClosesWhole ==
    ASSUME NEW h \in Hunk, NEW s \in Parsing, s.file.path \in Paths, s.at = Ranges(h)
    PROVE  BetweenHunks(HunkClosed(s, h.lines), s.file, Append(s.hunks, h), s.patches)
<1> DEFINE t == HunkClosed(s, h.lines)
           r == [oldStart |-> s.at[1], oldCount |-> s.at[2],
                 newStart |-> s.at[3], newCount |-> s.at[4], lines |-> h.lines]
<1>1. h.lines \in Seq(HunkLine)
    BY HunkTyped
<1>2. t \in Parsing /\ t.mode = "hunks"
    BY <1>1, HunkClosedTyped
<1>3. /\ s.at[1] = h.oldStart /\ s.at[2] = h.oldCount
      /\ s.at[3] = h.newStart /\ s.at[4] = h.newCount
    BY HunkHeadTyped
<1>4. r = h
    BY <1>3 DEF Hunk
<1>5. t = [s EXCEPT !.mode = "hunks", !.hunks = Append(@, r)]
    BY DEF HunkClosed
<1> HIDE DEF r
<1>6. t.hunks = Append(s.hunks, h) /\ t.file = s.file /\ t.patches = s.patches
    <2>1. s \in ParserState
        BY DEF Parsing
    <2> HIDE DEF t
    <2> QED
        BY <1>4, <1>5, <2>1 DEF ParserState
<1>7. AtHunk(t) = t
    BY <1>2 DEF AtHunk
<1> HIDE DEF t
<1> QED
    BY <1>2, <1>6, <1>7 DEF BetweenHunks, t

Stage(t, h, k, file, hs, ps) ==
    IF k < Len(h.lines) THEN InBody(t, h, k, file, hs, ps)
    ELSE BetweenHunks(t, file, Append(hs, h), ps)

LEMMA FeedsEnded ==
    ASSUME NEW h, Counted(h), NEW k \in 0 .. Len(h.lines), k + 1 <= Len(h.lines),
           NEW t, NEW file, NEW hs, NEW ps, BeforeMarker(t, h, k, file, hs, ps),
           h.lines[k + 1].content.end = "lf"
    PROVE  Stage(t, h, k + 1, file, hs, ps)
<1> DEFINE l == h.lines[k + 1]
<1>1. /\ h \in Hunk /\ h.lines \in Seq(HunkLine) /\ Len(h.lines) \in Nat /\ k \in Nat
    BY HunkTyped DEF Counted
<1>2. l \in HunkLine /\ SubSeq(h.lines, 1, k + 1) = Append(SubSeq(h.lines, 1, k), l)
    BY <1>1, OneMore
<1>3. Ended(l) = l
    BY <1>2, EndedIs
<1>4. /\ t \in Parsing /\ t.mode = IF k + 1 = Len(h.lines) THEN "tail" ELSE "body"
      /\ t.lines = SubSeq(h.lines, 1, k + 1)
      /\ t.at = Ranges(h) /\ t.hunks = hs /\ t.file = file /\ t.patches = ps
    BY <1>2, <1>3 DEF BeforeMarker
<1>5. CASE k + 1 = Len(h.lines)
    <2>1. t.mode = "tail" /\ t.lines = h.lines
        BY <1>1, <1>4, <1>5, SubSeqFull
    <2>2. t.file.path \in Paths
        BY <1>4, <2>1 DEF Parsing
    <2>3. BetweenHunks(HunkClosed(t, h.lines), file, Append(hs, h), ps)
        BY <1>1, <1>4, <2>2, ClosesWhole
    <2>4. AtHunk(t) = HunkClosed(t, h.lines)
        BY <2>1 DEF AtHunk
    <2>5. AtHunk(t).hunks = Append(hs, h)
        <3>1. HunkClosed(t, h.lines).mode = "hunks"
            BY <1>1, <1>4, <2>2, HunkClosedTyped
        <3>2. AtHunk(HunkClosed(t, h.lines)) = HunkClosed(t, h.lines)
            BY <3>1 DEF AtHunk
        <3> QED
            BY <2>3, <2>4, <3>2 DEF BetweenHunks
    <2>6. BetweenHunks(t, file, Append(hs, h), ps)
        BY <1>4, <2>1, <2>5 DEF BetweenHunks
    <2> QED
        BY <1>1, <1>5, <2>6 DEF Stage
<1>6. CASE k + 1 # Len(h.lines)
    <2>1. k + 1 < Len(h.lines)
        BY <1>1, <1>6
    <2>2. InBody(t, h, k + 1, file, hs, ps)
        BY <1>4, <1>6 DEF InBody
    <2> QED
        BY <2>1, <2>2 DEF Stage
<1> QED
    BY <1>5, <1>6

LEMMA FeedsMarker ==
    ASSUME NEW h, Counted(h), NEW k \in 0 .. Len(h.lines), k + 1 <= Len(h.lines),
           NEW s, NEW file, NEW hs, NEW ps, BeforeMarker(s, h, k, file, hs, ps),
           h.lines[k + 1].content.end = "none"
    PROVE  Stage(Feed(s, Marker), h, k + 1, file, hs, ps)
<1> DEFINE l == h.lines[k + 1]
           t == Feed(s, Marker)
           lines == SubSeq(h.lines, 1, k + 1)
<1>1. /\ h \in Hunk /\ h.lines \in Seq(HunkLine) /\ Len(h.lines) \in Nat /\ k \in Nat
    BY HunkTyped DEF Counted
<1>2. l \in HunkLine /\ SubSeq(h.lines, 1, k) \in Seq(HunkLine)
      /\ lines = Append(SubSeq(h.lines, 1, k), l)
    BY <1>1, OneMore
<1>3. s.lines # <<>> /\ Unterminated(s.lines) = lines
    BY <1>2, UnterminatedIs DEF BeforeMarker
<1>4. /\ s \in Parsing /\ s.mode = IF k + 1 = Len(h.lines) THEN "tail" ELSE "body"
      /\ s.at = Ranges(h) /\ s.hunks = hs /\ s.file = file /\ s.patches = ps
    BY DEF BeforeMarker
<1>5. t \in Parsing
    BY <1>4, MarkerTyped, FeedTyped
<1> HIDE DEF lines
<1>6. CASE k + 1 = Len(h.lines)
    <2>1. s.mode = "tail" /\ lines = h.lines
        BY <1>1, <1>4, <1>6, SubSeqFull DEF lines
    <2>2. s.file.path \in Paths
        BY <1>4, <2>1 DEF Parsing
    <2>3. t = FeedTail(s, Marker)
        BY <2>1 DEF Feed
    <2>4. FeedTail(s, Marker) = HunkClosed(s, h.lines)
        BY <1>3, <2>1 DEF FeedTail
    <2>5. BetweenHunks(HunkClosed(s, h.lines), file, Append(hs, h), ps)
        BY <1>1, <1>4, <2>2, ClosesWhole
    <2> QED
        BY <1>1, <1>6, <2>3, <2>4, <2>5 DEF Stage
<1>7. CASE k + 1 # Len(h.lines)
    <2>1. s.mode = "body"
        BY <1>4, <1>7
    <2>2. t = FeedBody(s, Marker)
        BY <2>1 DEF Feed
    <2>3. Marker.text[1] \notin {" ", "+", "-"}
        BY NoMarkIsALine
    <2>4. FeedBody(s, Marker) = [s EXCEPT !.lines = Unterminated(@)]
        BY <1>3, <2>3 DEF FeedBody
    <2>5. t.lines = lines /\ t.mode = "body" /\ t.at = s.at /\ t.hunks = s.hunks
          /\ t.file = s.file /\ t.patches = s.patches
        <3>1. s \in ParserState
            BY <1>4 DEF Parsing
        <3> HIDE DEF t
        <3> QED
            BY <1>3, <2>1, <2>2, <2>4, <3>1 DEF ParserState
    <2>6. InBody(t, h, k + 1, file, hs, ps)
        BY <1>4, <1>5, <2>5 DEF InBody, lines
    <2>7. k + 1 < Len(h.lines)
        BY <1>1, <1>7
    <2> QED
        BY <2>6, <2>7 DEF Stage
<1> QED
    BY <1>6, <1>7
LEMMA PiecesAssociate ==
    ASSUME NEW x \in Seq(DiffPiece), NEW y \in Seq(DiffPiece), NEW z \in Seq(DiffPiece)
    PROVE  (x \o y) \o z = x \o (y \o z)
BY ConcatAssociative

SayableHunk(h) == Counted(h) /\ \A i \in 1 .. Len(h.lines) : Sayable(h.lines[i])

ReadTo(d, h, k, file, hs, ps) == \E t : Reads(d, t) /\ Stage(t, h, k, file, hs, ps)

LEMMA ReadsBodyLine ==
    ASSUME NEW h, SayableHunk(h), NEW k \in 0 .. Len(h.lines), k + 1 <= Len(h.lines),
           NEW d, NEW file, NEW hs, NEW ps, ReadTo(d, h, k, file, hs, ps)
    PROVE  ReadTo(d \o Written(h.lines[k + 1]), h, k + 1, file, hs, ps)
<1> DEFINE l == h.lines[k + 1]
<1>1. Counted(h) /\ h.lines \in Seq(HunkLine) /\ Len(h.lines) \in Nat /\ k < Len(h.lines)
      /\ k + 1 \in 1 .. Len(h.lines)
    <2>1. Counted(h) /\ h.lines \in Seq(HunkLine) /\ Len(h.lines) \in Nat
        BY HunkTyped DEF SayableHunk, Counted
    <2> QED
        BY <2>1
<1>2. l \in HunkLine /\ Sayable(l)
    BY <1>1, LinesTyped DEF SayableHunk
<1>3. l.content.end \in {"lf", "none"}
    BY <1>2 DEF HunkLine, Line, Sayable
<1>4. PICK s : Reads(d, s) /\ InBody(s, h, k, file, hs, ps)
    BY <1>1 DEF ReadTo, Stage
<1>5. Reads(d \o Written(l), IF l.content.end = "lf" THEN Feed(s, LineOf(l))
                             ELSE Feed(Feed(s, LineOf(l)), Marker))
    BY <1>2, <1>4, ReadsWritten
<1>6. BeforeMarker(Feed(s, LineOf(l)), h, k, file, hs, ps)
    BY <1>1, <1>4, FeedsLine
<1>7. CASE l.content.end = "lf"
    <2>1. Stage(Feed(s, LineOf(l)), h, k + 1, file, hs, ps)
        BY <1>1, <1>6, <1>7, FeedsEnded
    <2> QED
        BY <1>5, <1>7, <2>1 DEF ReadTo
<1>8. CASE l.content.end = "none"
    <2>1. Stage(Feed(Feed(s, LineOf(l)), Marker), h, k + 1, file, hs, ps)
        BY <1>1, <1>6, <1>8, FeedsMarker
    <2> QED
        BY <1>5, <1>8, <2>1 DEF ReadTo
<1> QED
    BY <1>3, <1>7, <1>8

\* A hunk is read as it was written.
LEMMA ReadsHunk ==
    ASSUME NEW h, SayableHunk(h), NEW d, NEW s, Reads(d, s),
           NEW file, NEW hs, NEW ps, BetweenHunks(s, file, hs, ps)
    PROVE  \E t : Reads(d \o WrittenHunk(h), t) /\ BetweenHunks(t, file, Append(hs, h), ps)
<1> DEFINE n == Len(h.lines)
           head == HunkHead(h)
           seqs == [i \in 1 .. n |-> Written(h.lines[i])]
           e == Append(d, head)
<1>1. Counted(h) /\ h \in Hunk /\ h.lines \in Seq(HunkLine) /\ n \in Nat /\ n # 0
    BY HunkTyped, EmptySeq DEF SayableHunk, Counted
<1>2. \A i \in 1 .. n : Written(h.lines[i]) \in Seq(DiffPiece)
    BY <1>1, LinesTyped, WrittenTyped
<1>3. /\ seqs \in Seq(Seq(DiffPiece)) /\ Len(seqs) = n
      /\ \A i \in 1 .. n : seqs[i] = Written(h.lines[i])
    BY <1>1, <1>2, IsASeq
<1>4. WrittenHunk(h) = <<head>> \o FlattenSeq(seqs)
    BY DEF WrittenHunk, HunkHead, Ranges
<1>5. head \in DiffPiece /\ head.end # "none" /\ d \in Seq(DiffPiece)
    BY <1>1, HunkHeadTyped DEF Reads
<1> HIDE DEF n, head, seqs
<1>6. PICK flat : Flattens(flat, seqs, DiffPiece)
    BY <1>3, FlattenIs
<1>7. /\ flat \in [0 .. n -> Seq(DiffPiece)] /\ flat[0] = <<>>
      /\ \A i \in 1 .. n : flat[i] = flat[i - 1] \o seqs[i]
      /\ FlattenSeq(seqs) = flat[n]
    BY <1>3, <1>6 DEF Flattens
<1>8. e \in Seq(DiffPiece)
    BY <1>5, AppendProperties
<1> DEFINE T == {k \in 0 .. n : ReadTo(e \o flat[k], h, k, file, hs, ps)}
<1>9. 0 \in T
    <2>1. Reads(e, Feed(s, head))
        BY <1>5, ReadsLine
    <2>2. InBody(Feed(s, head), h, 0, file, hs, ps)
        BY <1>1, OpensHunk DEF head
    <2>3. 0 < Len(h.lines)
        BY <1>1 DEF n
    <2>4. ReadTo(e, h, 0, file, hs, ps)
        BY <2>1, <2>2, <2>3 DEF ReadTo, Stage
    <2>5. e \o flat[0] = e
        <3> HIDE DEF e
        <3> QED
            BY <1>7, <1>8, ConcatEmptySeq
    <2>6. ReadTo(e \o flat[0], h, 0, file, hs, ps) /\ 0 \in 0 .. n
        <3> HIDE DEF e
        <3> QED
            BY <1>1, <2>4, <2>5
    <2> HIDE DEF e
    <2> QED
        BY <2>6
<1> HIDE DEF e
<1>10. ASSUME NEW k \in 0 .. (n - 1), k \in T PROVE k + 1 \in T
    <2>1. k \in 0 .. n /\ k + 1 \in 0 .. n /\ k + 1 \in 1 .. n /\ (k + 1) - 1 = k /\ k + 1 <= n
        BY <1>1
    <2>2. ReadTo(e \o flat[k], h, k, file, hs, ps)
        BY <1>10
    <2>3. ReadTo((e \o flat[k]) \o Written(h.lines[k + 1]), h, k + 1, file, hs, ps)
        BY <2>1, <2>2, ReadsBodyLine DEF n
    <2>4. flat[k + 1] = flat[k] \o Written(h.lines[k + 1])
        BY <1>3, <1>7, <2>1
    <2>5. flat[k] \in Seq(DiffPiece) /\ Written(h.lines[k + 1]) \in Seq(DiffPiece)
        BY <1>2, <1>7, <2>1
    <2>6. (e \o flat[k]) \o Written(h.lines[k + 1]) = e \o (flat[k] \o Written(h.lines[k + 1]))
        BY <1>8, <2>5, PiecesAssociate
    <2>7. ReadTo(e \o flat[k + 1], h, k + 1, file, hs, ps)
        BY <2>3, <2>4, <2>6
    <2> QED
        BY <2>1, <2>7
<1>11. n \in T
    <2>1. n \in 0 .. n
        BY <1>1
    <2> HIDE DEF T
    <2> QED
        BY <1>1, <1>9, <1>10, <2>1, Induction
<1>12. PICK t : Reads(e \o flat[n], t) /\ Stage(t, h, n, file, hs, ps)
    BY <1>11 DEF ReadTo
<1>13. BetweenHunks(t, file, Append(hs, h), ps)
    BY <1>1, <1>12 DEF Stage, n
<1>14. d \o WrittenHunk(h) = e \o flat[n]
    <2>1. flat[n] \in Seq(DiffPiece) /\ <<head>> \in Seq(DiffPiece)
        BY <1>1, <1>5, <1>7, ShortTyped
    <2>2. d \o (<<head>> \o flat[n]) = (d \o <<head>>) \o flat[n]
        BY <1>5, <2>1, PiecesAssociate
    <2>3. d \o <<head>> = e
        BY <1>5, AppendIsConcat DEF e
    <2> QED
        BY <1>4, <1>7, <2>2, <2>3
<1> QED
    BY <1>12, <1>13, <1>14
-----------------------------------------------------------------------------
(* Reading a file.                                                         *)

\* The state of the parser once the file it may be in is closed.
Finished(s) == IF s.mode = "old" THEN s ELSE CloseFile(AtHunk(s))

\* What was read so far are the patches ps, if nothing else follows.
AllRead(s, ps) ==
    /\ s \in Parsing /\ s.mode \in {"old", "hunks", "tail"}
    /\ Finished(s).mode = "old" /\ Finished(s).hunks = <<>> /\ Finished(s).patches = ps

LEMMA NothingComplete == AllRead(Opening, <<>>)
<1>1. Opening.mode = "old" /\ Opening.hunks = <<>> /\ Opening.patches = <<>>
    BY DEF Opening
<1> QED
    BY <1>1, OpeningTyped DEF AllRead, Finished

LEMMA FinishedTyped ==
    ASSUME NEW s, NEW ps, AllRead(s, ps)
    PROVE  Finished(s) \in Parsing
<1>1. CASE s.mode = "old"
    BY <1>1 DEF AllRead, Finished
<1>2. CASE s.mode \in {"hunks", "tail"}
    <2>1. s \in Parsing /\ s.file.path \in Paths
        BY <1>2 DEF AllRead, Parsing
    <2>2. AtHunk(s) \in Parsing /\ AtHunk(s).file = s.file
        BY <1>2, <2>1, AtHunkIs
    <2>3. CloseFile(AtHunk(s)) \in Parsing
        BY <2>1, <2>2, CloseFileTyped
    <2> QED
        BY <1>2, <2>3 DEF Finished
<1> QED
    BY <1>1, <1>2 DEF AllRead

OldHeading(file, path) == Piece(OldHeader \o HeaderName("a/", file, path), "lf")
NewHeading(file, path) == Piece(NewHeader \o HeaderName("b/", file, path), "lf")

LEMMA NameTyped ==
    ASSUME NEW path \in Paths, NEW file, NEW mark \in {"a/", "b/"}
    PROVE  HeaderName(mark, file, path) \in Seq(Atoms)
<1>1. path \in Atoms /\ mark \in Atoms
    BY DiffAssumption, MarksTyped
<1>2. <<mark, path>> \in Seq(Atoms) /\ <<"/dev/null">> \in Seq(Atoms)
    BY <1>1, MarksTyped, ShortTyped
<1> QED
    BY <1>2 DEF HeaderName

LEMMA PrefixOf ==
    ASSUME NEW S, NEW s \in Seq(S), NEW x \in Seq(S), Len(s) = 2
    PROVE  /\ s \o x \in Seq(S) /\ IsPrefix(s, s \o x)
           /\ (s \o x)[1] = s[1] /\ SubSeq(s \o x, 3, Len(s \o x)) = x
<1> DEFINE t == s \o x
<1>1. /\ t \in Seq(S) /\ Len(t) = Len(s) + Len(x) /\ Len(x) \in Nat
      /\ \A i \in 1 .. Len(s) + Len(x) : t[i] = IF i <= Len(s) THEN s[i] ELSE x[i - Len(s)]
    BY ConcatProperties, LenProperties
<1>2. SubSeq(t, Len(s) + 1, Len(t)) = x
    BY TailOfConcat
<1> HIDE DEF t
<1>3. BeginsWith(t, s)
    <2>1. Len(s) <= Len(t) /\ \A i \in 1 .. Len(s) : i \in 1 .. Len(s) + Len(x) /\ i <= Len(s)
        BY <1>1
    <2> QED
        BY <1>1, <2>1 DEF BeginsWith
<1>4. IsPrefix(s, t)
    BY <1>1, <1>3, PrefixIs
<1>5. 1 \in 1 .. Len(s) /\ Len(s) + 1 = 3
    OBVIOUS
<1>6. t[1] = s[1]
    BY <1>3, <1>5 DEF BeginsWith
<1> QED
    BY <1>1, <1>2, <1>4, <1>5, <1>6 DEF t

LEMMA OldHeadingIs ==
    ASSUME NEW path \in Paths, NEW file
    PROVE  LET l == OldHeading(file, path) IN
           /\ l \in DiffPiece /\ l.end = "lf" /\ IsPrefix(OldHeader, l.text)
           /\ l.text # Marker.text /\ HeaderOf(l) = HeaderName("a/", file, path)
<1> DEFINE x == HeaderName("a/", file, path)
           l == OldHeading(file, path)
<1>1. x \in Seq(Atoms)
    BY NameTyped
<1> HIDE DEF x
<1>2. /\ OldHeader \o x \in Seq(Atoms) /\ IsPrefix(OldHeader, OldHeader \o x)
      /\ (OldHeader \o x)[1] = "-"
      /\ SubSeq(OldHeader \o x, 3, Len(OldHeader \o x)) = x
    BY <1>1, HeadersTyped, PrefixOf
<1>3. l = Piece(OldHeader \o x, "lf")
    BY DEF OldHeading, x
<1>4. l.text = OldHeader \o x /\ l.end = "lf"
    BY <1>3 DEF Piece
<1>5. l \in DiffPiece
    BY <1>2, <1>3, PieceTyped
<1>6. l.text # Marker.text
    <2>1. l.text[1] \in {" ", "+", "-"}
        BY <1>2, <1>4
    <2> QED
        BY <2>1, NoMarkIsALine
<1>7. HeaderOf(l) = x
    BY <1>2, <1>4 DEF HeaderOf
<1> QED
    BY <1>2, <1>4, <1>5, <1>6, <1>7 DEF x

LEMMA NewHeadingIs ==
    ASSUME NEW path \in Paths, NEW file
    PROVE  LET l == NewHeading(file, path) IN
           /\ l \in DiffPiece /\ l.end = "lf" /\ IsPrefix(NewHeader, l.text)
           /\ HeaderOf(l) = HeaderName("b/", file, path)
<1> DEFINE x == HeaderName("b/", file, path)
           l == NewHeading(file, path)
<1>1. x \in Seq(Atoms)
    BY NameTyped
<1> HIDE DEF x
<1>2. /\ NewHeader \o x \in Seq(Atoms) /\ IsPrefix(NewHeader, NewHeader \o x)
      /\ SubSeq(NewHeader \o x, 3, Len(NewHeader \o x)) = x
    BY <1>1, HeadersTyped, PrefixOf
<1>3. l = Piece(NewHeader \o x, "lf")
    BY DEF NewHeading, x
<1>4. l.text = NewHeader \o x /\ l.end = "lf"
    BY <1>3 DEF Piece
<1>5. l \in DiffPiece
    BY <1>2, <1>3, PieceTyped
<1>6. HeaderOf(l) = x
    BY <1>2, <1>4 DEF HeaderOf
<1> QED
    BY <1>2, <1>4, <1>5, <1>6 DEF x

\* The header of the next file closes the file before it.
LEMMA FeedsOldHeading ==
    ASSUME NEW s, NEW ps, AllRead(s, ps), NEW path \in Paths, NEW file
    PROVE  LET t == Feed(s, OldHeading(file, path)) IN
           /\ t \in Parsing /\ t.mode = "new" /\ t.old = HeaderName("a/", file, path)
           /\ t.hunks = <<>> /\ t.patches = ps
<1> DEFINE l == OldHeading(file, path)
           f == Finished(s)
           t == Feed(s, l)
<1>1. /\ l \in DiffPiece /\ l.end = "lf" /\ IsPrefix(OldHeader, l.text)
      /\ l.text # Marker.text /\ HeaderOf(l) = HeaderName("a/", file, path)
    BY OldHeadingIs
<1>2. s \in Parsing /\ f.mode = "old" /\ f.hunks = <<>> /\ f.patches = ps
    BY DEF AllRead
<1>3. f \in Parsing
    BY FinishedTyped
<1>4. t \in Parsing
    BY <1>1, <1>2, FeedTyped
<1> HIDE DEF l
<1>5. t = FeedOld(f, l)
    <2>1. CASE s.mode = "old"
        BY <2>1 DEF Feed, Finished
    <2>2. CASE s.mode \in {"hunks", "tail"}
        <3>1. t = FeedHunks(AtHunk(s), l)
            BY <1>1, <1>2, <2>2, FeedBetween
        <3>2. l.text # <<"@@">>
            <4>1. <<"@@">> \in Seq(Atoms) /\ Len(<<"@@">>) = 1
                BY MarksTyped, ShortTyped
            <4>2. ASSUME l.text = <<"@@">> PROVE FALSE
                <5>1. Len(<<"@@">>) >= 2
                    BY <1>1, <4>1, <4>2, HeaderIs
                <5> QED
                    BY <4>1, <5>1
            <4> QED
                BY <4>2
        <3>3. FeedHunks(AtHunk(s), l) = FeedOld(CloseFile(AtHunk(s)), l)
            BY <1>1, <3>2 DEF FeedHunks
        <3> QED
            BY <2>2, <3>1, <3>3 DEF Finished
    <2> QED
        BY <2>1, <2>2 DEF AllRead
<1>6. FeedOld(f, l) = [f EXCEPT !.mode = "new", !.old = HeaderOf(l)]
    BY <1>1, <1>2 DEF FeedOld
<1>7. t.mode = "new" /\ t.old = HeaderOf(l) /\ t.hunks = f.hunks /\ t.patches = f.patches
    <2>1. f \in ParserState
        BY <1>3 DEF Parsing
    <2> HIDE DEF f, t
    <2> QED
        BY <1>5, <1>6, <2>1 DEF ParserState
<1> QED
    BY <1>1, <1>2, <1>4, <1>7 DEF l
\* What a file's patch does to it.
Operation(before, after) ==
    IF ~before.exists THEN "create" ELSE IF ~after.exists THEN "delete" ELSE "update"

Operations == {"create", "update", "delete"}

LEMMA PairsDiffer ==
    ASSUME NEW a, NEW b, NEW c, NEW d, NEW e
    PROVE  /\ <<a, b>> # <<e>>
           /\ <<a, b>> = <<c, d>> => b = d
<1>1. Len(<<a, b>>) = 2 /\ Len(<<e>>) = 1
    OBVIOUS
<1>2. <<a, b>>[2] = b /\ <<c, d>>[2] = d
    OBVIOUS
<1> QED
    BY <1>1, <1>2

LEMMA NamedIs ==
    ASSUME NEW path \in Paths, NEW before, NEW after, before.exists \/ after.exists
    PROVE  Named(HeaderName("a/", before, path), HeaderName("b/", after, path))
               = {[path |-> path, operation |-> Operation(before, after)]}
<1> DEFINE o == HeaderName("a/", before, path)
           n == HeaderName("b/", after, path)
           F == [path : Paths, operation : Operations]
           g == [path |-> path, operation |-> Operation(before, after)]
           Names1(f) == /\ o = IF f.operation = "create" THEN <<"/dev/null">> ELSE <<"a/", f.path>>
                        /\ n = IF f.operation = "delete" THEN <<"/dev/null">> ELSE <<"b/", f.path>>
<1>1. Named(o, n) = {f \in F : Names1(f)}
    BY DEF Named, Operations
<1>2. Operation(before, after) \in Operations
    BY DEF Operation, Operations
<1>3. g \in F /\ g.path = path /\ g.operation = Operation(before, after)
    <2> HIDE DEF Operations
    <2> QED
        BY <1>2
<1>4. /\ o = IF before.exists THEN <<"a/", path>> ELSE <<"/dev/null">>
      /\ n = IF after.exists THEN <<"b/", path>> ELSE <<"/dev/null">>
    BY DEF HeaderName
<1>5. /\ Operation(before, after) = "create" <=> ~before.exists
      /\ Operation(before, after) = "delete" <=> ~after.exists
    BY DEF Operation
<1> HIDE DEF o, n, g
<1>6. Names1(g)
    BY <1>3, <1>4, <1>5
<1>7. ASSUME NEW f \in F, Names1(f) PROVE f = g
    <2>1. f.operation = "create" <=> ~before.exists
        <3>1. ASSUME f.operation = "create", before.exists PROVE FALSE
            <4>1. <<"a/", path>> = <<"/dev/null">>
                BY <1>4, <1>7, <3>1
            <4> QED
                BY <4>1, PairsDiffer
        <3>2. ASSUME f.operation # "create", ~before.exists PROVE FALSE
            <4>1. <<"a/", f.path>> = <<"/dev/null">>
                BY <1>4, <1>7, <3>2
            <4> QED
                BY <4>1, PairsDiffer
        <3> QED
            BY <3>1, <3>2
    <2>2. f.operation = "delete" <=> ~after.exists
        <3>1. ASSUME f.operation = "delete", after.exists PROVE FALSE
            <4>1. <<"b/", path>> = <<"/dev/null">>
                BY <1>4, <1>7, <3>1
            <4> QED
                BY <4>1, PairsDiffer
        <3>2. ASSUME f.operation # "delete", ~after.exists PROVE FALSE
            <4>1. <<"b/", f.path>> = <<"/dev/null">>
                BY <1>4, <1>7, <3>2
            <4> QED
                BY <4>1, PairsDiffer
        <3> QED
            BY <3>1, <3>2
    <2>3. f.path = path
        <3>1. CASE before.exists
            <4>1. <<"a/", f.path>> = <<"a/", path>>
                BY <1>4, <1>7, <2>1, <3>1
            <4> QED
                BY <4>1, PairsDiffer
        <3>2. CASE after.exists
            <4>1. <<"b/", f.path>> = <<"b/", path>>
                BY <1>4, <1>7, <2>2, <3>2
            <4> QED
                BY <4>1, PairsDiffer
        <3> QED
            BY <3>1, <3>2
    <2>4. f.operation \in Operations
        BY <1>7
    <2>5. f.operation = Operation(before, after)
        BY <2>1, <2>2, <2>4 DEF Operation, Operations
    <2> HIDE DEF Operations
    <2> QED
        BY <1>3, <1>7, <2>3, <2>5
<1> HIDE DEF F, Names1
<1>8. {f \in F : Names1(f)} = {g}
    BY <1>3, <1>6, <1>7
<1> QED
    BY <1>1, <1>8 DEF o, n, g

LEMMA FeedsNewHeading ==
    ASSUME NEW path \in Paths, NEW before, NEW after, before.exists \/ after.exists,
           NEW s \in Parsing, s.mode = "new", s.old = HeaderName("a/", before, path),
           s.hunks = <<>>, \A i \in DOMAIN s.patches : s.patches[i].path # path
    PROVE  BetweenHunks(Feed(s, NewHeading(after, path)),
                        [path |-> path, operation |-> Operation(before, after)],
                        <<>>, s.patches)
<1> DEFINE l == NewHeading(after, path)
           g == [path |-> path, operation |-> Operation(before, after)]
           t == Feed(s, l)
           files == {f \in Named(s.old, HeaderOf(l)) :
                        \A i \in DOMAIN s.patches : s.patches[i].path # f.path}
<1>1. /\ l \in DiffPiece /\ l.end = "lf" /\ IsPrefix(NewHeader, l.text)
      /\ HeaderOf(l) = HeaderName("b/", after, path)
    BY NewHeadingIs
<1>2. t \in Parsing
    BY <1>1, FeedTyped
<1>3. g.path = path
    OBVIOUS
<1>4. Named(s.old, HeaderOf(l)) = {g}
    BY <1>1, NamedIs
<1> HIDE DEF l, g
<1>5. files = {g}
    BY <1>3, <1>4
<1>6. (CHOOSE f \in files : TRUE) = g
    <2> HIDE DEF files
    <2> QED
        BY <1>5
<1>7. t = FeedNew(s, l)
    BY DEF Feed
<1>8. FeedNew(s, l) = [s EXCEPT !.mode = "hunks", !.file = g]
    <2>1. files # {}
        BY <1>5
    <2>2. FeedNew(s, l) = [s EXCEPT !.mode = "hunks", !.file = CHOOSE f \in files : TRUE]
        BY <1>1, <2>1, Zenon DEF FeedNew
    <2> QED
        BY <1>6, <2>2
<1>9. t.mode = "hunks" /\ t.file = g /\ t.hunks = <<>> /\ t.patches = s.patches
    <2>1. s \in ParserState
        BY DEF Parsing
    <2> HIDE DEF t
    <2> QED
        BY <1>7, <1>8, <2>1 DEF ParserState
<1>10. AtHunk(t) = t
    BY <1>9 DEF AtHunk
<1> HIDE DEF t
<1> QED
    BY <1>2, <1>9, <1>10 DEF BetweenHunks, t, l, g
\* The hunks of a file are read as they were written.
LEMMA ReadsHunks ==
    ASSUME NEW hunks \in Seq(Hunk), \A i \in 1 .. Len(hunks) : SayableHunk(hunks[i]),
           NEW d, NEW s, Reads(d, s), NEW file, NEW ps, BetweenHunks(s, file, <<>>, ps)
    PROVE  \E t : /\ Reads(d \o FlattenSeq([i \in 1 .. Len(hunks) |-> WrittenHunk(hunks[i])]), t)
                  /\ BetweenHunks(t, file, hunks, ps)
<1> DEFINE n == Len(hunks)
           seqs == [i \in 1 .. n |-> WrittenHunk(hunks[i])]
           ReadUpTo(e, k) == \E t : Reads(e, t) /\ BetweenHunks(t, file, SubSeq(hunks, 1, k), ps)
<1>1. n \in Nat /\ \A i \in 1 .. n : hunks[i] \in Hunk
    BY ElementOfSeq, LenProperties
<1>2. \A i \in 1 .. n : WrittenHunk(hunks[i]) \in Seq(DiffPiece)
    BY <1>1, WrittenHunkTyped
<1>3. /\ seqs \in Seq(Seq(DiffPiece)) /\ Len(seqs) = n
      /\ \A i \in 1 .. n : seqs[i] = WrittenHunk(hunks[i])
    BY <1>1, <1>2, IsASeq
<1>4. d \in Seq(DiffPiece)
    BY DEF Reads
<1> HIDE DEF n, seqs
<1>5. PICK flat : Flattens(flat, seqs, DiffPiece)
    BY <1>3, FlattenIs
<1>6. /\ flat \in [0 .. n -> Seq(DiffPiece)] /\ flat[0] = <<>>
      /\ \A i \in 1 .. n : flat[i] = flat[i - 1] \o seqs[i]
      /\ FlattenSeq(seqs) = flat[n]
    BY <1>3, <1>5 DEF Flattens
<1> DEFINE T == {k \in 0 .. n : ReadUpTo(d \o flat[k], k)}
<1>7. 0 \in T
    <2>1. d \o flat[0] = d
        BY <1>4, <1>6, ConcatEmptySeq
    <2>2. SubSeq(hunks, 1, 0) = <<>>
        BY SubSeqEmpty
    <2>3. 0 \in 0 .. n
        BY <1>1
    <2> QED
        BY <2>1, <2>2, <2>3
<1>8. ASSUME NEW k \in 0 .. (n - 1), k \in T PROVE k + 1 \in T
    <2> DEFINE h == hunks[k + 1]
               hs == SubSeq(hunks, 1, k)
    <2>1. k \in 0 .. n /\ k + 1 \in 0 .. n /\ k + 1 \in 1 .. n /\ (k + 1) - 1 = k /\ k + 1 <= n
        BY <1>1
    <2>2. PICK t : Reads(d \o flat[k], t) /\ BetweenHunks(t, file, hs, ps)
        BY <1>8
    <2>3. SubSeq(hunks, 1, k + 1) = Append(hs, h)
        BY <2>1, OneMore DEF n
    <2>4. SayableHunk(h)
        BY <2>1 DEF n
    <2> HIDE DEF h, hs
    <2>5. PICK u : Reads((d \o flat[k]) \o WrittenHunk(h), u)
                   /\ BetweenHunks(u, file, Append(hs, h), ps)
        BY <2>2, <2>4, ReadsHunk
    <2>6. flat[k + 1] = flat[k] \o WrittenHunk(h) /\ flat[k] \in Seq(DiffPiece)
          /\ WrittenHunk(h) \in Seq(DiffPiece)
        BY <1>2, <1>3, <1>6, <2>1 DEF h
    <2>7. (d \o flat[k]) \o WrittenHunk(h) = d \o (flat[k] \o WrittenHunk(h))
        BY <1>4, <2>6, PiecesAssociate
    <2>8. ReadUpTo(d \o flat[k + 1], k + 1)
        BY <2>3, <2>5, <2>6, <2>7
    <2> QED
        BY <2>1, <2>8
<1>9. n \in T
    <2>1. n \in 0 .. n
        BY <1>1
    <2> HIDE DEF T
    <2> QED
        BY <1>1, <1>7, <1>8, <2>1, Induction
<1>10. SubSeq(hunks, 1, n) = hunks
    BY SubSeqFull DEF n
<1> QED
    BY <1>6, <1>9, <1>10 DEF seqs, n

\* Only an update has both sides.
Closable(operation, hunks) ==
    /\ hunks # <<>>
    /\ operation = "create" => \A i \in 1 .. Len(hunks) : hunks[i].oldCount = 0
    /\ operation = "delete" => \A i \in 1 .. Len(hunks) : hunks[i].newCount = 0

LEMMA ClosesFile ==
    ASSUME NEW t, NEW file, NEW hunks \in Seq(Hunk), NEW ps, BetweenHunks(t, file, hunks, ps),
           Closable(file.operation, hunks)
    PROVE  AllRead(t, Append(ps, [path |-> file.path, operation |-> file.operation,
                                   hunks |-> hunks]))
<1> DEFINE a == AtHunk(t)
           p == [path |-> file.path, operation |-> file.operation, hunks |-> hunks]
           f == Finished(t)
<1>1. t \in Parsing /\ t.mode \in {"hunks", "tail"}
    BY DEF BetweenHunks
<1>2. a \in Parsing /\ a.file = file /\ a.patches = ps /\ a.hunks = hunks
    BY <1>1, AtHunkIs DEF BetweenHunks
<1>3. f = CloseFile(a)
    BY <1>1 DEF Finished
<1> HIDE DEF a
<1>4. DOMAIN a.hunks = 1 .. Len(hunks)
    BY <1>2, LenProperties
<1>5. CloseFile(a) = [a EXCEPT !.mode = "old", !.hunks = <<>>, !.lines = <<>>,
                               !.patches = Append(@, p)]
    BY <1>2, <1>4 DEF CloseFile, Closable
<1> HIDE DEF p, f
<1>6. f.mode = "old" /\ f.hunks = <<>> /\ f.patches = Append(ps, p)
    <2>1. a \in ParserState
        BY <1>2 DEF Parsing
    <2> QED
        BY <1>2, <1>3, <1>5, <2>1 DEF ParserState
<1> QED
    BY <1>1, <1>6 DEF AllRead, p, f

\* A file is read as it was written.
LEMMA ReadsFile ==
    ASSUME NEW path \in Paths, NEW before, NEW after, before.exists \/ after.exists,
           NEW hunks \in Seq(Hunk), \A i \in 1 .. Len(hunks) : SayableHunk(hunks[i]),
           Closable(Operation(before, after), hunks),
           NEW d, NEW s, Reads(d, s), NEW ps, AllRead(s, ps),
           \A i \in DOMAIN ps : ps[i].path # path
    PROVE  \E t : /\ Reads(d \o FileDiff(path, before, after, hunks), t)
                  /\ AllRead(t, Append(ps, [path |-> path, hunks |-> hunks,
                                             operation |-> Operation(before, after)]))
                  /\ t.mode # "old"
<1> DEFINE o == OldHeading(before, path)
           n == NewHeading(after, path)
           flat == FlattenSeq([i \in 1 .. Len(hunks) |-> WrittenHunk(hunks[i])])
           t == Feed(s, o)
           u == Feed(t, n)
           file == [path |-> path, operation |-> Operation(before, after)]
           e == Append(Append(d, o), n)
<1>1. o \in DiffPiece /\ o.end # "none" /\ n \in DiffPiece /\ n.end # "none"
    BY OldHeadingIs, NewHeadingIs
<1>2. /\ t \in Parsing /\ t.mode = "new" /\ t.old = HeaderName("a/", before, path)
      /\ t.hunks = <<>> /\ t.patches = ps
    BY FeedsOldHeading
<1>3. BetweenHunks(u, file, <<>>, ps)
    <2> HIDE DEF t
    <2> QED
        BY <1>2, FeedsNewHeading
<1>4. Reads(e, u)
    <2>1. Reads(Append(d, o), t)
        BY <1>1, ReadsLine
    <2> HIDE DEF t, o, n
    <2> QED
        BY <1>1, <2>1, ReadsLine
<1>5. file.path = path /\ file.operation = Operation(before, after)
    OBVIOUS
<1> HIDE DEF o, n, t, u, file
<1>6. PICK v : Reads(e \o flat, v) /\ BetweenHunks(v, file, hunks, ps)
    <2> HIDE DEF e
    <2> QED
        BY <1>3, <1>4, ReadsHunks
<1>7. AllRead(v, Append(ps, [path |-> file.path, operation |-> file.operation,
                              hunks |-> hunks]))
    BY <1>5, <1>6, ClosesFile
<1>8. v.mode # "old"
    BY <1>6 DEF BetweenHunks
<1>9. d \o FileDiff(path, before, after, hunks) = e \o flat
    <2>1. FileDiff(path, before, after, hunks) = <<o, n>> \o flat
        BY DEF FileDiff, Closable, OldHeading, NewHeading, o, n
    <2>2. d \in Seq(DiffPiece) /\ <<o, n>> \in Seq(DiffPiece)
        BY <1>1, ShortTyped DEF Reads
    <2>3. flat \in Seq(DiffPiece)
        <3>1. Len(hunks) \in Nat /\ \A i \in 1 .. Len(hunks) : hunks[i] \in Hunk
            BY ElementOfSeq, LenProperties
        <3>2. \A i \in 1 .. Len(hunks) : WrittenHunk(hunks[i]) \in Seq(DiffPiece)
            BY <3>1, WrittenHunkTyped
        <3> DEFINE seqs == [i \in 1 .. Len(hunks) |-> WrittenHunk(hunks[i])]
        <3>3. seqs \in Seq(Seq(DiffPiece))
            BY <3>1, <3>2, IsASeq
        <3> HIDE DEF seqs
        <3>4. FlattenSeq(seqs) \in Seq(DiffPiece)
            BY <3>3, FlattenTyped
        <3> QED
            BY <3>4 DEF seqs
    <2> HIDE DEF flat, e
    <2>4. d \o (<<o, n>> \o flat) = (d \o <<o, n>>) \o flat
        BY <2>2, <2>3, PiecesAssociate
    <2>5. d \o <<o, n>> = e
        BY <1>1, <2>2, ConcatShort DEF e
    <2> QED
        BY <2>1, <2>4, <2>5
<1>10. [path |-> file.path, operation |-> file.operation, hunks |-> hunks]
           = [path |-> path, hunks |-> hunks, operation |-> Operation(before, after)]
    BY <1>5
<1> QED
    BY <1>6, <1>7, <1>8, <1>9, <1>10
-----------------------------------------------------------------------------
(* What is written of two files can be read.                               *)

IsPart(s, h) == \E m \in 0 .. Len(s) : \E n \in m .. Len(s) :
                    m < n /\ h = HunkOf(s, m + 1, n)

LEMMA HunksAreParts ==
    ASSUME NEW s \in Seq(HunkLine)
    PROVE  \A i \in 1 .. Len(HunksOf(s)) : IsPart(s, HunksOf(s)[i])
<1> DEFINE L == Len(s)
<1>1. PICK hunks : Hunking(hunks, s)
    BY HunksOfIs
<1>2. L \in Nat /\ L \in 0 .. L
    BY LenProperties
<1>3. /\ hunks[0] = <<>> /\ HunksOf(s) = hunks[L]
      /\ \A n \in 0 .. L : hunks[n] \in Seq(Hunk)
      /\ \A n \in 1 .. L : hunks[n] = IF Closes(s, n)
                                      THEN Append(hunks[n - 1], HunkOf(s, FirstShown(s, n), n))
                                      ELSE hunks[n - 1]
    BY <1>1 DEF Hunking
<1> DEFINE T == {n \in 0 .. L : \A i \in 1 .. Len(hunks[n]) : IsPart(s, hunks[n][i])}
<1>4. 0 \in T
    <2>1. Len(<<>>) = 0
        BY EmptySeq
    <2>2. \A i \in 1 .. Len(hunks[0]) : FALSE
        BY <1>3, <2>1
    <2>3. 0 \in 0 .. L
        BY <1>2
    <2> QED
        BY <2>2, <2>3
<1>5. ASSUME NEW n \in 0 .. (L - 1), n \in T PROVE n + 1 \in T
    <2>1. n + 1 \in 1 .. L /\ (n + 1) - 1 = n /\ n + 1 \in 0 .. L /\ n \in 0 .. L
        BY <1>2
    <2>2. CASE Closes(s, n + 1)
        <3> DEFINE f == FirstShown(s, n + 1)
                   h == HunkOf(s, f, n + 1)
                   hs == hunks[n]
        <3>1. f \in 1 .. n + 1 /\ h \in Hunk
            BY <2>1, <2>2, ClosingHunk
        <3>2. hunks[n + 1] = Append(hs, h) /\ hs \in Seq(Hunk)
            BY <1>3, <2>1, <2>2
        <3> HIDE DEF f
        <3>3. f - 1 \in 0 .. Len(s) /\ n + 1 \in (f - 1) .. Len(s) /\ (f - 1) + 1 = f
              /\ f - 1 < n + 1
            BY <1>2, <2>1, <3>1
        <3>4. h = HunkOf(s, (f - 1) + 1, n + 1)
            BY <3>3
        <3> HIDE DEF h
        <3>5. IsPart(s, h)
            BY <3>3, <3>4 DEF IsPart
        <3> HIDE DEF hs
        <3>6. /\ Len(Append(hs, h)) = Len(hs) + 1 /\ Len(hs) \in Nat
              /\ \A i \in 1 .. Len(hs) : Append(hs, h)[i] = hs[i]
              /\ Append(hs, h)[Len(hs) + 1] = h
            BY <3>1, <3>2, AppendProperties, LenProperties
        <3>7. \A i \in 1 .. Len(hs) : IsPart(s, hs[i])
            BY <1>5 DEF hs
        <3>8. \A i \in 1 .. Len(hs) + 1 : i \in 1 .. Len(hs) \/ i = Len(hs) + 1
            BY <3>6
        <3>9. \A i \in 1 .. Len(Append(hs, h)) : IsPart(s, Append(hs, h)[i])
            BY <3>5, <3>6, <3>7, <3>8
        <3> QED
            BY <2>1, <3>2, <3>9
    <2>3. CASE ~Closes(s, n + 1)
        <3>1. hunks[n + 1] = hunks[n]
            BY <1>3, <2>1, <2>3
        <3> QED
            BY <1>5, <2>1, <3>1
    <2> QED
        BY <2>2, <2>3
<1>6. L \in T
    <2> HIDE DEF L, T
    <2> QED
        BY <1>2, <1>4, <1>5, Induction
<1> QED
    BY <1>3, <1>6

LEMMA PartIs ==
    ASSUME NEW s \in Seq(HunkLine), NEW h, IsPart(s, h)
    PROVE  /\ Counted(h)
           /\ h.oldCount <= Len(OldTo(s)[Len(s)]) /\ h.newCount <= Len(NewTo(s)[Len(s)])
           /\ \A j \in 1 .. Len(h.lines) : \E i \in 1 .. Len(s) : h.lines[j] = s[i]
<1>1. PICK m \in 0 .. Len(s) : \E n \in m .. Len(s) : m < n /\ h = HunkOf(s, m + 1, n)
    BY DEF IsPart
<1>2. PICK n \in m .. Len(s) : m < n /\ h = HunkOf(s, m + 1, n)
    BY <1>1
<1>3. /\ Len(s) \in Nat /\ m \in Nat /\ n \in Nat /\ n <= Len(s) /\ m <= n
      /\ n \in 0 .. Len(s) /\ Len(s) \in n .. Len(s) /\ n - m # 0
    BY <1>2, LenProperties
<1>4. h.lines = SubSeq(s, m + 1, n)
    BY <1>2 DEF HunkOf
<1>5. Len(h.lines) = n - m /\ \A i \in 1 .. (n - m) : h.lines[i] = s[m + i]
    BY <1>3, <1>4, Slice
<1>6. /\ h \in Hunk
      /\ OldTo(s)[n] = OldTo(s)[m] \o Old(h) /\ NewTo(s)[n] = NewTo(s)[m] \o New(h)
    BY <1>2, HunkOfStands DEF OldTo, NewTo
<1>7. Counted(h)
    <2>1. h.oldCount = Len(Old(h)) /\ h.newCount = Len(New(h))
        BY <1>2 DEF HunkOf, CountOf, Old, New
    <2>2. h.lines # <<>>
        <3>1. Len(<<>>) = 0
            BY EmptySeq
        <3> QED
            BY <1>3, <1>5, <3>1
    <2> QED
        BY <1>6, <2>1, <2>2 DEF Counted
<1>8. /\ OldTo(s)[m] \in Seq(Line) /\ NewTo(s)[m] \in Seq(Line)
      /\ Len(OldTo(s)[m]) \in Nat /\ Len(NewTo(s)[m]) \in Nat
      /\ Old(h) \in Seq(Line) /\ New(h) \in Seq(Line)
      /\ Len(Old(h)) \in Nat /\ Len(New(h)) \in Nat
    BY <1>6, SidesTyped, OldTyped
<1>9. /\ Len(OldTo(s)[n]) = Len(OldTo(s)[m]) + Len(Old(h))
      /\ Len(NewTo(s)[n]) = Len(NewTo(s)[m]) + Len(New(h))
    <2>1. Len(OldTo(s)[m] \o Old(h)) = Len(OldTo(s)[m]) + Len(Old(h))
        BY <1>8, ConcatProperties
    <2>2. Len(NewTo(s)[m] \o New(h)) = Len(NewTo(s)[m]) + Len(New(h))
        BY <1>8, ConcatProperties
    <2> QED
        BY <1>6, <2>1, <2>2
<1>10. /\ Len(OldTo(s)[n]) <= Len(OldTo(s)[Len(s)])
       /\ Len(NewTo(s)[n]) <= Len(NewTo(s)[Len(s)])
    BY <1>3, LinesToGrow DEF BeginsWith, OldTo, NewTo
<1>11. /\ Len(OldTo(s)[Len(s)]) \in Nat /\ Len(NewTo(s)[Len(s)]) \in Nat
    <2>1. Len(s) \in 0 .. Len(s)
        BY <1>3
    <2> QED
        BY <2>1, SidesTyped
<1>12. h.oldCount <= Len(OldTo(s)[Len(s)]) /\ h.newCount <= Len(NewTo(s)[Len(s)])
    <2>1. \A x, y, z, w \in Nat : z = x + y /\ z <= w => y <= w
        OBVIOUS
    <2>2. h.oldCount = Len(Old(h)) /\ h.newCount = Len(New(h))
        BY <1>7 DEF Counted
    <2>3. Len(OldTo(s)[n]) \in Nat /\ Len(NewTo(s)[n]) \in Nat
        BY <1>3, SidesTyped
    <2>4. Len(Old(h)) <= Len(OldTo(s)[Len(s)])
        BY <1>8, <1>9, <1>10, <1>11, <2>1, <2>3
    <2>5. Len(New(h)) <= Len(NewTo(s)[Len(s)])
        BY <1>8, <1>9, <1>10, <1>11, <2>1, <2>3
    <2> QED
        BY <2>2, <2>4, <2>5
<1>13. ASSUME NEW j \in 1 .. Len(h.lines) PROVE \E i \in 1 .. Len(s) : h.lines[j] = s[i]
    <2>1. j \in 1 .. (n - m) /\ m + j \in 1 .. Len(s)
        BY <1>3, <1>5
    <2> QED
        BY <1>5, <2>1
<1> QED
    BY <1>7, <1>12, <1>13

\* What a script says of a file stands in the file.
LEMMA StandsIn ==
    ASSUME NEW s \in Seq(HunkLine), NEW ops, NEW i \in 1 .. Len(s), s[i].operation \in ops
    PROVE  s[i].content \in Range(LinesTo(s, ops)[Len(s)])
<1> DEFINE p == LinesTo(s, ops)
           c == s[i].content
           k == i - 1
           a == p[Len(s)]
<1>1. /\ Len(s) \in Nat /\ i \in 0 .. Len(s) /\ k \in 0 .. Len(s) /\ Len(s) \in i .. Len(s)
      /\ Len(s) \in 0 .. Len(s)
    BY LenProperties
<1>2. c \in Line
    BY LinesTyped
<1>3. Collected(p, s, ops)
    BY LinesToIs
<1>4. p[k] \in Seq(Line) /\ a \in Seq(Line)
    BY <1>1, <1>3 DEF Collected
<1>5. p[i] = Append(p[k], c)
    BY <1>3 DEF Collected
<1>6. BeginsWith(a, p[i])
    BY <1>1, LinesToGrow
<1> HIDE DEF p, c, k, a
<1>7. Len(Append(p[k], c)) = Len(p[k]) + 1 /\ Append(p[k], c)[Len(p[k]) + 1] = c
      /\ Len(p[k]) \in Nat
    BY <1>2, <1>4, AppendProperties, LenProperties
<1>8. Len(p[k]) + 1 \in 1 .. Len(p[k]) + 1 /\ Len(a) \in Nat
    BY <1>4, <1>7, LenProperties
<1>9. a[Len(p[k]) + 1] = c /\ Len(p[k]) + 1 <= Len(a)
    BY <1>5, <1>6, <1>7, <1>8 DEF BeginsWith
<1>10. Len(p[k]) + 1 \in DOMAIN a
    <2>1. DOMAIN a = 1 .. Len(a)
        BY <1>4, LenProperties
    <2> QED
        BY <1>7, <1>8, <1>9, <2>1
<1> QED
    BY <1>9, <1>10 DEF Range, a, p, c
-----------------------------------------------------------------------------
(* What is written of a file that build_diff can express.                  *)

\* A file as the task has it: cut into lines; one that is not there has none.
WellCut(file) ==
    /\ file \in File /\ Text(file.lines) = file.lines
    /\ ~file.exists => file.lines = <<>>

Expressed(before, after) ==
    /\ \A l \in Range(before.lines) \cup Range(after.lines) : l.end # "sep"
    /\ ~ \E l \in Range(before.lines) : HeaderLike("-", l)
    /\ ~ \E l \in Range(after.lines) : HeaderLike("+", l)
    /\ before.exists = after.exists \/ before.lines # after.lines

\* What looks like a header when it is marked is a line like a header, and
\* its mark says of which file.
LEMMA LooksLikeHeader ==
    ASSUME NEW l \in HunkLine, l.content.end = "none",
           ~IsDataLine(<<l.operation>> \o l.content.text)
    PROVE  \/ l.operation = "-" /\ HeaderLike("-", l.content)
           \/ l.operation = "+" /\ HeaderLike("+", l.content)
<1> DEFINE c == l.content.text
           t == <<l.operation>> \o c
<1>1. t \in Seq(Atoms) /\ t # <<>> /\ t[1] = l.operation /\ Tail(t) = c
    BY LineOfTyped
<1>2. c \in Seq(Atoms)
    BY DEF HunkLine, Line
<1>3. IsPrefix(OldHeader, t) \/ IsPrefix(NewHeader, t)
    BY DEF IsDataLine
<1> HIDE DEF t
<1>4. Len(t) >= 2 => c # <<>> /\ c[1] = t[2]
    <2>1. Len(Tail(t)) = Len(t) - 1 /\ \A i \in 1 .. Len(Tail(t)) : Tail(t)[i] = t[i + 1]
        BY <1>1, HeadTailProperties
    <2>2. Len(t) \in Nat
        BY <1>1, LenProperties
    <2>3. Len(t) >= 2 => Len(c) # 0 /\ 1 \in 1 .. Len(c) /\ 1 + 1 = 2
        BY <1>1, <2>1, <2>2
    <2> QED
        BY <1>1, <2>1, <2>3, EmptySeq
<1>5. CASE IsPrefix(OldHeader, t)
    <2>1. Len(t) >= 2 /\ t[1] = "-" /\ t[2] = "-- "
        BY <1>1, <1>5, HeaderIs
    <2>2. c # <<>> /\ c[1] = "-- "
        BY <1>4, <2>1
    <2> QED
        BY <1>1, <2>1, <2>2 DEF HeaderLike
<1>6. CASE IsPrefix(NewHeader, t)
    <2>1. Len(t) >= 2 /\ t[1] = "+" /\ t[2] = "++ "
        BY <1>1, <1>6, NewHeaderIs
    <2>2. c # <<>> /\ c[1] = "++ "
        BY <1>4, <2>1
    <2> QED
        BY <1>1, <2>1, <2>2 DEF HeaderLike
<1> QED
    BY <1>3, <1>5, <1>6

LEMMA ScriptSayable ==
    ASSUME NEW before \in File, NEW after \in File, Expressed(before, after),
           NEW s \in Scripts(before.lines, after.lines)
    PROVE  \A i \in 1 .. Len(s) : Sayable(s[i])
<1> SUFFICES ASSUME NEW i \in 1 .. Len(s) PROVE Sayable(s[i])
    OBVIOUS
<1> DEFINE l == s[i]
           a == before.lines
           b == after.lines
<1>1. a \in Seq(Line) /\ b \in Seq(Line)
    BY DEF File
<1>2. s \in Seq(HunkLine) /\ OldTo(s)[Len(s)] = a /\ NewTo(s)[Len(s)] = b
    BY <1>1, ScriptSides DEF OldTo, NewTo, LinesOf
<1>3. l \in HunkLine
    BY <1>2, LinesTyped
<1>4. l.operation \in {" ", "-"} => l.content \in Range(a)
    BY <1>2, StandsIn DEF OldTo
<1>5. l.operation \in {" ", "+"} => l.content \in Range(b)
    BY <1>2, StandsIn DEF NewTo
<1>6. l.operation \in {" ", "+", "-"}
    BY <1>3 DEF HunkLine
<1> HIDE DEF l, a, b
<1>7. l.content.end # "sep"
    <2>1. l.content \in Range(a) \cup Range(b)
        BY <1>4, <1>5, <1>6
    <2>2. \A c \in Range(a) \cup Range(b) : c.end # "sep"
        BY DEF Expressed, a, b
    <2> QED
        BY <2>1, <2>2
<1>8. ASSUME l.content.end = "none", ~IsDataLine(<<l.operation>> \o l.content.text)
      PROVE  FALSE
    <2>1. CASE l.operation = "-" /\ HeaderLike("-", l.content)
        BY <1>4, <2>1 DEF Expressed, a
    <2>2. CASE l.operation = "+" /\ HeaderLike("+", l.content)
        BY <1>5, <2>2 DEF Expressed, b
    <2> QED
        BY <1>3, <1>8, <2>1, <2>2, LooksLikeHeader
<1> QED
    BY <1>7, <1>8 DEF Sayable, l

\* A patch that turns one file into the other.
Makes(before, after, p) ==
    /\ Applies(before, p) /\ Patched(before.lines, p.hunks) = after.lines
    /\ p.operation = "delete" <=> ~after.exists

LEMMA ExpressedDiffers ==
    ASSUME NEW before, NEW after, WellCut(before), WellCut(after), before # after,
           Expressed(before, after)
    PROVE  before.lines # after.lines /\ (before.exists \/ after.exists)
<1>1. before \in File /\ after \in File
    BY DEF WellCut
<1>2. before.lines # after.lines
    BY <1>1 DEF Expressed, File
<1> QED
    BY <1>2 DEF WellCut

\* The hunks of such a file can be said, and they make the one file of the
\* other.
LEMMA ExpressedMakes ==
    ASSUME NEW before, NEW after, WellCut(before), WellCut(after), before # after,
           Expressed(before, after), NEW s \in Scripts(before.lines, after.lines),
           NEW path
    PROVE  LET hunks == HunksOf(s)
               operation == Operation(before, after)
           IN  /\ hunks \in Seq(Hunk)
               /\ \A i \in 1 .. Len(hunks) : SayableHunk(hunks[i])
               /\ Closable(operation, hunks)
               /\ Makes(before, after, [path |-> path, hunks |-> hunks,
                                        operation |-> operation])
<1> DEFINE a == before.lines
           b == after.lines
           hs == HunksOf(s)
           op == Operation(before, after)
           p == [path |-> path, hunks |-> hs, operation |-> op]
<1>1. before \in File /\ after \in File /\ a \in Seq(Line) /\ b \in Seq(Line)
    BY DEF WellCut, File
<1>2. a # b /\ (before.exists \/ after.exists)
    BY ExpressedDiffers
<1>3. s \in Seq(HunkLine) /\ OldTo(s)[Len(s)] = a /\ NewTo(s)[Len(s)] = b
    BY <1>1, ScriptSides DEF OldTo, NewTo, LinesOf
<1>4. Fits(a, hs) /\ Patched(a, hs) = b
    BY <1>1, HunksReproduce
<1>5. hs \in Seq(Hunk)
    BY <1>3, HunksOfTyped
<1>6. \A i \in 1 .. Len(s) : Sayable(s[i])
    BY <1>1, ScriptSayable
<1>7. \A i \in 1 .. Len(hs) : IsPart(s, hs[i])
    BY <1>3, HunksAreParts
<1> HIDE DEF hs
<1>8. ASSUME NEW i \in 1 .. Len(hs)
      PROVE  /\ SayableHunk(hs[i])
             /\ hs[i].oldCount \in Nat /\ hs[i].oldCount <= Len(a)
             /\ hs[i].newCount \in Nat /\ hs[i].newCount <= Len(b)
    <2> DEFINE h == hs[i]
    <2>1. IsPart(s, h)
        BY <1>7
    <2> HIDE DEF h
    <2>2. /\ Counted(h) /\ h.oldCount <= Len(a) /\ h.newCount <= Len(b)
          /\ \A j \in 1 .. Len(h.lines) : \E k \in 1 .. Len(s) : h.lines[j] = s[k]
        BY <1>3, <2>1, PartIs
    <2>3. \A j \in 1 .. Len(h.lines) : Sayable(h.lines[j])
        BY <1>6, <2>2
    <2>4. h.oldCount \in Nat /\ h.newCount \in Nat
        BY <2>2 DEF Counted, Hunk
    <2> QED
        BY <2>2, <2>3, <2>4 DEF SayableHunk, h
<1>9. hs # <<>>
    <2>1. ASSUME hs = <<>> PROVE Patched(a, hs) = a
        <3>1. Len(hs) = 0 /\ 0 \in Nat
            BY <2>1, EmptySeq
        <3>2. PatchedBy(0, hs, a) = a
            BY <3>1, PatchedByStep DEF LastFirst
        <3> QED
            BY <3>1, <3>2 DEF Patched
    <2> QED
        BY <1>2, <1>4, <2>1
<1>10. /\ op = "create" <=> ~before.exists
       /\ op = "delete" <=> ~after.exists
    BY <1>2 DEF Operation
<1>11. /\ ~before.exists => Len(a) = 0
       /\ ~after.exists => b = <<>> /\ Len(b) = 0
    BY EmptySeq DEF WellCut
<1> HIDE DEF op, a, b
<1>12. Closable(op, hs)
    <2>1. ASSUME op = "create", NEW i \in 1 .. Len(hs) PROVE hs[i].oldCount = 0
        BY <1>8, <1>10, <1>11, <2>1
    <2>2. ASSUME op = "delete", NEW i \in 1 .. Len(hs) PROVE hs[i].newCount = 0
        BY <1>8, <1>10, <1>11, <2>2
    <2> QED
        BY <1>9, <2>1, <2>2 DEF Closable
<1>13. p.hunks = hs /\ p.operation = op
    OBVIOUS
<1> HIDE DEF p
<1>14. Makes(before, after, p)
    <2>1. before.exists = (p.operation # "create")
        BY <1>1, <1>10, <1>13 DEF File
    <2>2. p.operation = "delete" => Text(Patched(before.lines, p.hunks)) = <<>>
        <3>1. Text(after.lines) = after.lines
            BY DEF WellCut
        <3> QED
            BY <1>4, <1>10, <1>11, <1>13, <3>1 DEF a, b
    <2>3. Applies(before, p)
        BY <1>4, <1>13, <2>1, <2>2 DEF Applies, a
    <2> QED
        BY <1>4, <1>10, <1>13, <2>3 DEF Makes, a, b
<1> QED
    BY <1>5, <1>8, <1>12, <1>14 DEF hs, op, p
-----------------------------------------------------------------------------
(* The diff of two workspaces.                                             *)

\* The patches ps are those of the first n paths whose files differ.
Covers(before, after, n, ps) ==
    /\ ps \in Seq(NamedPatch)
    /\ \A i \in 1 .. Len(ps) :
          /\ \E m \in 1 .. n : ps[i].path = PathOrder[m]
          /\ Makes(before[ps[i].path], after[ps[i].path], ps[i])
    /\ \A i, j \in 1 .. Len(ps) : ps[i].path = ps[j].path => i = j
    /\ \A m \in 1 .. n : before[PathOrder[m]] # after[PathOrder[m]] =>
          \E i \in 1 .. Len(ps) : ps[i].path = PathOrder[m]

\* What is written of the first n paths is read as such patches.
Exported(before, after, n, d) ==
    \E s, ps : /\ Reads(d, s) /\ AllRead(s, ps) /\ Covers(before, after, n, ps)
               /\ s.mode = "old" => d = <<>>

\* Two workspaces whose difference build_diff can express.
Comparable(before, after) ==
    /\ before \in [Paths -> File] /\ after \in [Paths -> File]
    /\ \A path \in Paths : WellCut(before[path]) /\ WellCut(after[path])
    /\ \A path \in Paths : before[path] # after[path] =>
          Expressed(before[path], after[path])

LEMMA OrderIs ==
    /\ Len(PathOrder) \in Nat
    /\ \A n \in 1 .. Len(PathOrder) : PathOrder[n] \in Paths
    /\ \A m, n \in 1 .. Len(PathOrder) : PathOrder[m] = PathOrder[n] => m = n
    /\ \A path \in Paths : \E n \in 1 .. Len(PathOrder) : path = PathOrder[n]
<1>1. PathOrder \in Seq(Paths) /\ ToSet(PathOrder) = Paths
    BY DiffAssumption
<1>2. DOMAIN PathOrder = 1 .. Len(PathOrder)
    BY <1>1, LenProperties
<1> QED
    BY <1>1, <1>2, DiffAssumption, ElementOfSeq, LenProperties DEF ToSet

LEMMA NothingCovered ==
    ASSUME NEW before, NEW after
    PROVE  Covers(before, after, 0, <<>>)
<1>1. <<>> \in Seq(NamedPatch) /\ Len(<<>>) = 0
    BY EmptySeq
<1>2. \A i \in 1 .. 0 : FALSE
    OBVIOUS
<1> QED
    BY <1>1, <1>2 DEF Covers

LEMMA NextSame ==
    ASSUME NEW before, NEW after, NEW n \in Nat, NEW ps, Covers(before, after, n, ps),
           before[PathOrder[n + 1]] = after[PathOrder[n + 1]]
    PROVE  Covers(before, after, n + 1, ps)
<1>1. \A m \in 1 .. n + 1 : m \in 1 .. n \/ m = n + 1
    OBVIOUS
<1>2. \A m \in 1 .. n : m \in 1 .. n + 1
    OBVIOUS
<1> QED
    BY <1>1, <1>2 DEF Covers

LEMMA NextDiffers ==
    ASSUME NEW before, NEW after, NEW n \in Nat, n + 1 <= Len(PathOrder),
           NEW ps, Covers(before, after, n, ps), NEW p \in NamedPatch,
           p.path = PathOrder[n + 1], Makes(before[p.path], after[p.path], p)
    PROVE  /\ Covers(before, after, n + 1, Append(ps, p))
           /\ \A i \in DOMAIN ps : ps[i].path # p.path
<1> DEFINE qs == Append(ps, p)
           k == Len(ps)
<1>1. ps \in Seq(NamedPatch) /\ k \in Nat /\ DOMAIN ps = 1 .. k
    BY LenProperties DEF Covers
<1>2. /\ qs \in Seq(NamedPatch) /\ Len(qs) = k + 1 /\ qs[k + 1] = p
      /\ \A i \in 1 .. k : qs[i] = ps[i]
    BY <1>1, AppendProperties
<1>3. \A i \in 1 .. k : ps[i].path # p.path
    <2> SUFFICES ASSUME NEW i \in 1 .. k, ps[i].path = p.path PROVE FALSE
        OBVIOUS
    <2>1. PICK m \in 1 .. n : ps[i].path = PathOrder[m]
        BY DEF Covers
    <2>2. m \in 1 .. Len(PathOrder) /\ n + 1 \in 1 .. Len(PathOrder) /\ m # n + 1
        BY OrderIs
    <2> QED
        BY <2>1, <2>2, OrderIs
<1> HIDE DEF qs, k
<1>4. \A i \in 1 .. k + 1 : i \in 1 .. k \/ i = k + 1
    BY <1>1
<1>5. \A m \in 1 .. n + 1 : m \in 1 .. n \/ m = n + 1
    OBVIOUS
<1>6. n + 1 \in 1 .. n + 1 /\ k + 1 \in 1 .. k + 1
      /\ (\A m \in 1 .. n : m \in 1 .. n + 1) /\ (\A i \in 1 .. k : i \in 1 .. k + 1)
    BY <1>1
<1>7. ASSUME NEW i \in 1 .. Len(qs)
      PROVE  /\ \E m \in 1 .. n + 1 : qs[i].path = PathOrder[m]
             /\ Makes(before[qs[i].path], after[qs[i].path], qs[i])
    <2>1. CASE i \in 1 .. k
        BY <1>2, <1>6, <2>1 DEF Covers, k
    <2>2. CASE i = k + 1
        BY <1>2, <1>6, <2>2
    <2> QED
        BY <1>2, <1>4, <2>1, <2>2
<1>8. ASSUME NEW i \in 1 .. Len(qs), NEW j \in 1 .. Len(qs), qs[i].path = qs[j].path
      PROVE  i = j
    <2>1. CASE i \in 1 .. k /\ j \in 1 .. k
        BY <1>2, <1>8, <2>1 DEF Covers, k
    <2>2. CASE i = k + 1 \/ j = k + 1
        BY <1>2, <1>3, <1>4, <1>8, <2>2
    <2> QED
        BY <1>2, <1>4, <2>1, <2>2
<1>9. ASSUME NEW m \in 1 .. n + 1, before[PathOrder[m]] # after[PathOrder[m]]
      PROVE  \E i \in 1 .. Len(qs) : qs[i].path = PathOrder[m]
    <2>1. CASE m \in 1 .. n
        <3>1. PICK i \in 1 .. k : ps[i].path = PathOrder[m]
            BY <1>9, <2>1 DEF Covers, k
        <3> QED
            BY <1>2, <1>6, <3>1
    <2>2. CASE m = n + 1
        BY <1>2, <1>6, <2>2
    <2> QED
        BY <1>5, <2>1, <2>2
<1>10. Covers(before, after, n + 1, qs)
    BY <1>2, <1>7, <1>8, <1>9 DEF Covers
<1> QED
    BY <1>1, <1>3, <1>10 DEF qs

\* One more file of the diff.
LEMMA NextExported ==
    ASSUME NEW before, NEW after, Comparable(before, after), NEW n \in Nat,
           n + 1 <= Len(PathOrder), NEW d, Exported(before, after, n, d),
           NEW e \in FileDiffs(PathOrder[n + 1], before[PathOrder[n + 1]],
                               after[PathOrder[n + 1]])
    PROVE  Exported(before, after, n + 1, d \o e)
<1> DEFINE path == PathOrder[n + 1]
           a == before[path]
           b == after[path]
<1>1. n + 1 \in 1 .. Len(PathOrder)
    BY OrderIs
<1>2. path \in Paths
    BY <1>1, OrderIs
<1>3. WellCut(a) /\ WellCut(b) /\ (a # b => Expressed(a, b))
    BY <1>2 DEF Comparable
<1>4. PICK s, ps : /\ Reads(d, s) /\ AllRead(s, ps) /\ Covers(before, after, n, ps)
                   /\ s.mode = "old" => d = <<>>
    BY DEF Exported
<1>5. d \in Seq(DiffPiece)
    BY <1>4 DEF Reads
<1> HIDE DEF path, a, b
<1>6. CASE a = b
    <2>1. e = <<>>
        BY <1>6 DEF FileDiffs, path, a, b
    <2>2. d \o e = d
        BY <1>5, <2>1, ConcatEmptySeq
    <2>3. Covers(before, after, n + 1, ps)
        BY <1>4, <1>6, NextSame DEF path, a, b
    <2> QED
        BY <1>4, <2>2, <2>3 DEF Exported
<1>7. CASE a # b
    <2>1. PICK script \in Scripts(a.lines, b.lines) :
              e = FileDiff(path, a, b, HunksOf(script))
        BY <1>7 DEF FileDiffs, path, a, b
    <2> DEFINE hs == HunksOf(script)
               op == Operation(a, b)
               p == [path |-> path, hunks |-> hs, operation |-> op]
    <2>2. /\ hs \in Seq(Hunk) /\ \A i \in 1 .. Len(hs) : SayableHunk(hs[i])
          /\ Closable(op, hs) /\ Makes(a, b, p)
        BY <1>3, <1>7, ExpressedMakes
    <2>3. a.exists \/ b.exists
        BY <1>3, <1>7, ExpressedDiffers
    <2> HIDE DEF hs
    <2>4. op \in {"create", "update", "delete"}
        BY DEF Operation
    <2>5. p \in NamedPatch /\ p.path = path
        BY <1>2, <2>2, <2>4 DEF NamedPatch, FilePatch
    <2> HIDE DEF p
    <2>6. /\ Covers(before, after, n + 1, Append(ps, p))
          /\ \A i \in DOMAIN ps : ps[i].path # path
        BY <1>4, <2>2, <2>5, NextDiffers DEF path, a, b
    <2>7. PICK t : Reads(d \o FileDiff(path, a, b, hs), t) /\ AllRead(t, Append(ps, p))
                   /\ t.mode # "old"
        BY <1>2, <1>4, <2>2, <2>3, <2>6, ReadsFile DEF p
    <2> QED
        BY <2>1, <2>6, <2>7 DEF Exported, hs
<1> QED
    BY <1>6, <1>7

\* What build_diff writes of two such workspaces is read as the patches that
\* turn the one into the other.
THEOREM DiffRoundTrip ==
    ASSUME NEW before, NEW after, Comparable(before, after),
           NEW diff \in Diffs(before, after), diff # <<>>
    PROVE  /\ Parsed(diff).mode = "old"
           /\ Covers(before, after, Len(PathOrder), Parsed(diff).patches)
<1> DEFINE L == Len(PathOrder)
           Path(n) == PathOrder[n]
           Of(n) == FileDiffs(Path(n), before[Path(n)], after[Path(n)])
<1>1. before \in [Paths -> File] /\ after \in [Paths -> File] /\ L \in Nat
    BY OrderIs DEF Comparable
<1>2. PICK diffs : Differing(diffs, before, after)
    BY <1>1, DiffsAre
<1>3. /\ diffs[0] = {<<>>} /\ diff \in diffs[L]
      /\ \A n \in 1 .. L : diffs[n] = Joined(diffs[n - 1], Of(n))
    BY <1>2 DEF Differing
<1> HIDE DEF L, Of, Path
<1> DEFINE T == {n \in 0 .. L : \A d \in diffs[n] : Exported(before, after, n, d)}
<1>4. 0 \in T
    <2>1. Exported(before, after, 0, <<>>)
        BY ReadsNothing, NothingComplete, NothingCovered DEF Exported
    <2>2. 0 \in 0 .. L
        BY <1>1
    <2> QED
        BY <1>3, <2>1, <2>2
<1>5. ASSUME NEW n \in 0 .. (L - 1), n \in T PROVE n + 1 \in T
    <2>1. n \in Nat /\ n + 1 \in 1 .. L /\ n + 1 \in 0 .. L /\ (n + 1) - 1 = n /\ n + 1 <= L
        BY <1>1
    <2>2. ASSUME NEW d \in diffs[n + 1] PROVE Exported(before, after, n + 1, d)
        <3>1. diffs[n + 1] = Joined(diffs[n], Of(n + 1))
            BY <1>3, <2>1
        <3>2. PICK c \in diffs[n], e \in Of(n + 1) : d = c \o e
            BY <3>1 DEF Joined
        <3>3. Exported(before, after, n, c)
            BY <1>5
        <3> QED
            BY <2>1, <3>2, <3>3, NextExported DEF Of, Path, L
    <2> QED
        BY <2>1, <2>2
<1>6. L \in T
    <2>1. L \in 0 .. L
        BY <1>1
    <2> HIDE DEF T
    <2> QED
        BY <1>1, <1>4, <1>5, <2>1, Induction
<1>7. PICK s, ps : /\ Reads(diff, s) /\ AllRead(s, ps) /\ Covers(before, after, L, ps)
                   /\ s.mode # "old"
    BY <1>3, <1>6 DEF Exported
<1>8. PICK fed : Feeds(fed, diff) /\ s = fed[Len(Text(diff))]
    BY <1>7 DEF Reads
<1>9. Parsed(diff) = Finished(s)
    <2>1. CASE s.mode = "hunks"
        <3>1. Parsed(diff) = CloseFile(s)
            BY <1>8, <2>1 DEF Feeds
        <3> QED
            BY <2>1, <3>1 DEF Finished, AtHunk
    <2>2. CASE s.mode = "tail"
        <3>1. Parsed(diff) = CloseFile(HunkClosed(s, s.lines))
            BY <1>8, <2>2 DEF Feeds
        <3> QED
            BY <2>2, <3>1 DEF Finished, AtHunk
    <2> QED
        BY <1>7, <2>1, <2>2 DEF AllRead
<1> QED
    BY <1>7, <1>9 DEF AllRead, L
-----------------------------------------------------------------------------
(* The composition: the copy is handed over, its files are patched.        *)

\* Nothing is being applied unless somebody applies it, and what is being
\* applied is the first of what is to go.
Resting ==
    /\ status = "none" => PatchInit
    /\ by = "nobody" => status = "none" /\ pending = <<>>
    /\ status \in {"hunks", "lines", "done"} => pending # <<>>

Reviewing == ReviewTypeOK /\ pending \in Seq(NamedPatch) /\ Resting

TaskInv == SnapshotInv /\ WithinQuota(copied) /\ IInv /\ WorkedOff /\ Reviewing

LEMMA NamedPatches ==
    ASSUME NEW ps \in Seq(NamedPatch)
    PROVE  ps \in Seq(FilePatch)
<1>1. Len(ps) \in Nat /\ \A i \in 1 .. Len(ps) : ps[i] \in NamedPatch
    BY ElementOfSeq, LenProperties
<1>2. \A i \in 1 .. Len(ps) : ps[i] \in FilePatch
    BY <1>1 DEF NamedPatch
<1>3. ps = [i \in 1 .. Len(ps) |-> ps[i]]
    BY LenProperties
<1> DEFINE qs == [i \in 1 .. Len(ps) |-> ps[i]]
<1>4. qs \in Seq(FilePatch)
    BY <1>1, <1>2
<1> HIDE DEF qs
<1> QED
    BY <1>3, <1>4 DEF qs

-----------------------------------------------------------------------------
(* The quota.                                                              *)

LEMMA NothingFits == WithinQuota(Nothing)
<1>1. FilesIn(Nothing) = {}
    BY DEF FilesIn, Nothing
<1>2. Cardinality({}) = 0
    BY FS_EmptySet
<1> QED
    BY <1>1, <1>2, SnapshotAssumption DEF WithinQuota

LEMMA QuotaKept ==
    ASSUME WithinQuota(copied), [SnapshotNext]_snapshotVars
    PROVE  WithinQuota(copied')
<1>1. CASE copied' = copied
    BY <1>1
<1>2. CASE copied' = Nothing
    BY <1>2, NothingFits
<1>3. ASSUME NEW n, NEW contents, Keep(n, contents) PROVE WithinQuota(copied')
    <2>1. CASE copied' = [copied EXCEPT ![n] = {contents}]
               /\ WithinQuota([copied EXCEPT ![n] = {contents}])
        BY <2>1
    <2> QED
        BY <1>2, <1>3, <2>1 DEF Keep
<1>4. CASE UserStep
    <2>1. copied' = copied
        BY <1>4 DEF UserStep, Delete, Rewrite, Replace, Edit
    <2> QED
        BY <1>1, <2>1
<1>5. CASE OpenFails \/ Changed \/ LateRules \/ \E n \in Names : InspectFails(n)
    <2>1. copied' = Nothing
        BY <1>5 DEF OpenFails, Changed, LateRules, InspectFails, Failed
    <2> QED
        BY <1>2, <2>1
<1>6. CASE FileCopied \/ CopyRules
    <2>1. copied' = copied \/ \E n, contents : Keep(n, contents)
        BY <1>6 DEF FileCopied, CopyRules
    <2> QED
        BY <1>1, <1>3, <2>1
<1>7. CASE \/ InspectRules \/ Open \/ Read \/ EndOfFile \/ RulesRead \/ List
           \/ (\E n \in Names : Inspect(n)) \/ Complete \/ Interrupt
           \/ UNCHANGED snapshotVars
    <2>1. copied' = copied
        BY <1>7 DEF InspectRules, Open, Read, EndOfFile, RulesRead, List, Inspect,
                    Complete, Interrupt, snapshotVars
    <2> QED
        BY <1>1, <2>1
<1> QED
    BY <1>4, <1>5, <1>6, <1>7 DEF SnapshotNext, CopyStep

-----------------------------------------------------------------------------
(* Generation 0.                                                           *)

LEMMA NoFileTyped == NoFile \in File /\ NoFiles \in [Paths -> File]
<1>1. <<>> \in Seq(Line)
    BY EmptySeq
<1> QED
    BY <1>1 DEF NoFile, NoFiles, File

LEMMA GenerationZeroTyped ==
    ASSUME SnapshotTypeOK
    PROVE  GenerationZero \in [Paths -> File]
<1> SUFFICES ASSUME NEW n \in Paths
             PROVE  GenerationZero[n] \in File
    BY DEF GenerationZero
<1> DEFINE c == CHOOSE x \in copied[n] : TRUE
<1>1. copied[n] \subseteq Seq(Seq(Line))
    BY WorkspaceAssumption DEF SnapshotTypeOK
<1>2. CASE copied[n] = {}
    BY <1>2, NoFileTyped DEF GenerationZero
<1>3. CASE copied[n] # {}
    <2>1. c \in Seq(Seq(Line))
        BY <1>1, <1>3
    <2> HIDE DEF c
    <2>2. Text(FlattenSeq(c)) \in Seq(Line)
        BY <2>1, FlattenTyped, TextTyped, GluesLine
    <2>3. GenerationZero[n] = [exists |-> TRUE, lines |-> Text(FlattenSeq(c))]
        BY <1>3 DEF GenerationZero, c
    <2> QED
        BY <2>2, <2>3 DEF File
<1> QED
    BY <1>2, <1>3

\* The copy's own state ends as it might have begun.
LEMMA HandOverSnapshot ==
    ASSUME SnapshotInv, HandOver
    PROVE  SnapshotInv' /\ WithinQuota(copied')
<1> USE DEF HandOver, Closed
<1>1. copied' = Nothing /\ held' = Nothing /\ Nothing \in [Names -> SUBSET Seq(Seq(Line))]
    BY DEF Nothing
<1>2. inode' \in [Inodes -> Inode] /\ \A i \in Inodes : inode'[i].time = 0
    <2>1. <<>> \in Seq(Seq(Line)) /\ 0 \in Nat
        BY EmptySeq
    <2> QED
        BY <2>1 DEF Inode
<1>3. dir' \in [Names -> Inodes \cup {0}] /\ \A n \in Names : dir'[n] = 0
    OBVIOUS
<1>4. SnapshotTypeOK'
    <2>1. <<>> \in Seq(Seq(Line))
        BY EmptySeq
    <2> QED
        BY <1>1, <1>2, <1>3, <2>1, SnapshotAssumption DEF SnapshotTypeOK, Running
<1>5. Linked' /\ Holding' /\ Timed'
    <2>1. edits' = 0
        OBVIOUS
    <2>2. ASSUME NEW i \in Inodes PROVE inode'[i].time <= edits'
        <3>1. inode'[i].time = 0
            BY <1>2
        <3> HIDE DEF HandOver
        <3> QED
            BY <2>1, <3>1
    <2> HIDE DEF HandOver
    <2> QED
        BY <1>3, <2>2 DEF Linked, Holding, Timed
<1>6. ReadSoFar' /\ Early'
    BY DEF ReadSoFar, Early, Handling
<1>7. Copying' /\ Excluding'
    BY <1>1, SnapshotAssumption DEF Copying, CopiedWhole, Excluding, Nothing, Handling
<1> QED
    BY <1>1, <1>4, <1>5, <1>6, <1>7, NothingFits DEF SnapshotInv

LEMMA HandOverKeeps ==
    ASSUME TaskInv, HandOver
    PROVE  TaskInv'
<1>1. SnapshotInv' /\ WithinQuota(copied')
    BY HandOverSnapshot DEF TaskInv
<1>2. UNCHANGED patchVars /\ UNCHANGED <<staging, pending, by, patches>>
      /\ original' = GenerationZero /\ tree' = GenerationZero
    BY DEF HandOver
<1>3. GenerationZero \in [Paths -> File]
    BY GenerationZeroTyped DEF TaskInv, SnapshotInv
<1>4. IInv' /\ WorkedOff'
    BY <1>2, EndIInv, NextWritten DEF TaskInv
<1>5. Reviewing'
    BY <1>2, <1>3 DEF TaskInv, Reviewing, ReviewTypeOK, Resting, PatchInit, patchVars
<1> QED
    BY <1>1, <1>4, <1>5 DEF TaskInv
-----------------------------------------------------------------------------
(* What the task and its user do with the workspace.                       *)

Applying == IInv /\ WorkedOff

LEMMA InitApplying == PatchInit => Applying
<1>1. PatchInit => WorkedOff
    BY DEF PatchInit, WorkedOff, AppliesAsWritten
<1> QED
    BY <1>1, InitIInv DEF Applying

LEMMA RestApplying == PatchInit' => Applying'
BY InitApplying, PTL

LEMMA SamePatch ==
    ASSUME Applying, UNCHANGED patchVars
    PROVE  Applying' /\ (PatchInit' <=> PatchInit)
<1>1. IInv' /\ WorkedOff'
    BY EndIInv, NextWritten DEF Applying
<1> QED
    BY <1>1 DEF Applying, PatchInit, patchVars

LEMMA ProposeKeeps ==
    ASSUME Applying, Reviewing, NEW payload \in Proposals, Propose(payload)
    PROVE  Applying' /\ Reviewing'
<1> DEFINE parsed == Parsed(payload)
<1>1. Applying' /\ (PatchInit' <=> PatchInit) /\ status' = status
    BY SamePatch DEF Propose, patchVars
<1>2. parsed.patches \in Seq(NamedPatch)
    <2>1. payload \in Seq(DiffPiece)
        BY ReviewAssumption
    <2> QED
        BY <2>1, ParsedTyped
<1>3. /\ original' = original /\ tree' = tree
      /\ by = "nobody" /\ patches < MaxPatches /\ patches' = patches + 1
      /\ \/ by' = "agent" /\ staging' = tree /\ pending' = parsed.patches
         \/ UNCHANGED <<staging, pending, by>>
    BY DEF Propose
<1> HIDE DEF parsed
<1>4. pending' \in Seq(NamedPatch)
    BY <1>2, <1>3 DEF Reviewing
<1>5. pending' \in Seq(FilePatch)
    BY <1>4, NamedPatches
<1>6. patches' \in 0 .. MaxPatches
    BY <1>3, ReviewAssumption DEF Reviewing, ReviewTypeOK
<1>7. ReviewTypeOK'
    BY <1>3, <1>5, <1>6 DEF Reviewing, ReviewTypeOK
<1>8. Resting'
    BY <1>1, <1>3 DEF Reviewing, Resting
<1> QED
    BY <1>1, <1>4, <1>7, <1>8 DEF Reviewing

LEMMA StartKeeps ==
    ASSUME Applying, Reviewing, StartFile
    PROVE  Applying' /\ Reviewing'
<1> DEFINE p == Head(pending)
           file == staging[p.path]
<1>1. pending \in Seq(NamedPatch) /\ pending # <<>> /\ Begin(file, p) /\ UNCHANGED reviewVars
    BY DEF StartFile, Reviewing
<1>2. p \in NamedPatch
    BY <1>1, HeadTailProperties
<1>3. p \in FilePatch /\ p.path \in Paths
    BY <1>2 DEF NamedPatch
<1> HIDE DEF p
<1>4. file \in File
    BY <1>3 DEF Reviewing, ReviewTypeOK
<1> HIDE DEF file
<1>5. Applying'
    BY <1>1, <1>3, <1>4, BeginIInv, BeginWritten DEF Applying
<1>6. status' # "none"
    BY <1>1 DEF Begin
<1>7. by # "nobody"
    BY <1>1 DEF Reviewing, Resting
<1> QED
    BY <1>1, <1>5, <1>6, <1>7 DEF Reviewing, ReviewTypeOK, Resting, reviewVars

LEMMA IdleRests == Idle => PatchInit'
BY DEF Idle, PatchInit

LEMMA ResultingTyped ==
    ASSUME PatchTypeOK
    PROVE  Resulting \in File
<1>1. Text(output) \in Seq(Line)
    BY TextTyped, GluesLine DEF PatchTypeOK
<1>2. [exists |-> TRUE, lines |-> Text(output)] \in File
    BY <1>1 DEF File
<1> QED
    BY <1>2, NoFileTyped DEF Resulting

LEMMA FinishKeeps ==
    ASSUME Applying, Reviewing, FinishFile
    PROVE  Applying' /\ Reviewing'
<1>1. /\ staging' = [staging EXCEPT ![patch.path] = Resulting]
      /\ pending' = Tail(pending) /\ PatchInit' /\ Applying' /\ status = "done"
      /\ UNCHANGED <<original, tree, by, patches>>
    BY IdleRests, RestApplying DEF FinishFile
<1>2. Resulting \in File
    BY ResultingTyped DEF Applying, IInv
<1>3. staging' \in [Paths -> File]
    BY <1>1, <1>2 DEF Reviewing, ReviewTypeOK
<1>4. by # "nobody"
    BY <1>1 DEF Reviewing, Resting
<1>5. pending' \in Seq(NamedPatch)
    <2>1. pending \in Seq(NamedPatch) /\ pending # <<>>
        BY <1>1 DEF Reviewing, Resting
    <2> QED
        BY <1>1, <2>1, HeadTailProperties
<1>6. pending' \in Seq(FilePatch)
    BY <1>5, NamedPatches
<1>7. ReviewTypeOK'
    BY <1>1, <1>3, <1>6 DEF Reviewing, ReviewTypeOK
<1>8. status' = "none"
    BY <1>1 DEF PatchInit
<1> QED
    BY <1>1, <1>4, <1>5, <1>7, <1>8 DEF Reviewing, Resting

LEMMA PublishKeeps ==
    ASSUME Applying, Reviewing, Publish
    PROVE  Applying' /\ Reviewing'
<1>1. Applying' /\ (PatchInit' <=> PatchInit) /\ status' = status
    BY SamePatch DEF Publish, patchVars
<1>2. /\ tree' = staging /\ staging' = NoFiles /\ by' = "nobody"
      /\ status = "none" /\ pending = <<>> /\ UNCHANGED <<original, pending, patches>>
    BY DEF Publish
<1>3. ReviewTypeOK'
    BY <1>2, NoFileTyped DEF Reviewing, ReviewTypeOK
<1> QED
    BY <1>1, <1>2, <1>3 DEF Reviewing, Resting

LEMMA RefuseKeeps ==
    ASSUME Applying, Reviewing, Refuse
    PROVE  Applying' /\ Reviewing'
<1>1. /\ staging' = NoFiles /\ pending' = <<>> /\ by' = "nobody"
      /\ PatchInit' /\ Applying' /\ UNCHANGED <<original, tree, patches>>
    BY IdleRests, RestApplying DEF Refuse
<1>2. <<>> \in Seq(NamedPatch) /\ <<>> \in Seq(FilePatch)
    BY EmptySeq
<1>3. ReviewTypeOK'
    BY <1>1, <1>2, NoFileTyped DEF Reviewing, ReviewTypeOK
<1>4. status' = "none"
    BY <1>1 DEF PatchInit
<1> QED
    BY <1>1, <1>2, <1>3, <1>4 DEF Reviewing, Resting

\* A diff that is no patch is refused with nothing begun: there is no file a
\* patch that creates none could be of.
LEMMA ExportKeeps ==
    ASSUME Applying, Reviewing, Export
    PROVE  Applying' /\ Reviewing'
<1>1. by = "nobody" /\ status = "none" /\ PatchInit /\ by' = "human" /\ staging' = original
      /\ UNCHANGED <<original, tree, patches, source, patch, hunk, line, cursor, output,
                     origin, removed>>
    BY DEF Export, Reviewing, Resting
<1>2. PICK diff \in Diffs(original, tree) :
          /\ pending' = IF Parsed(diff).mode = "old" THEN Parsed(diff).patches ELSE <<>>
          /\ status' = IF Parsed(diff).mode = "old" THEN "none" ELSE "refused"
    BY DEF Export
<1>3. Parsed(diff).patches \in Seq(NamedPatch)
    <2>1. diff \in Seq(DiffPiece)
        BY DiffsTyped DEF Reviewing, ReviewTypeOK
    <2> QED
        BY <2>1, ParsedTyped
<1>4. pending' \in Seq(NamedPatch)
    BY <1>2, <1>3, EmptySeq
<1>5. pending' \in Seq(FilePatch)
    BY <1>4, NamedPatches
<1>6. ReviewTypeOK'
    BY <1>1, <1>5 DEF Reviewing, ReviewTypeOK
<1>7. CASE status' = "none"
    <2>1. PatchInit'
        BY <1>1, <1>7 DEF PatchInit
    <2>2. Applying'
        BY <2>1, RestApplying
    <2> QED
        BY <1>1, <1>4, <1>6, <1>7, <2>1, <2>2 DEF Reviewing, Resting
<1>8. CASE status' = "refused"
    <2>1. IInv'
        BY <1>1, <1>8 DEF Applying, IInv, PatchTypeOK, Placed
    <2>2. ~Applies(source, patch)'
        BY <1>1 DEF PatchInit, NoFile, NoPatch, Applies
    <2>3. WorkedOff'
        BY <1>8, <2>2 DEF WorkedOff, AppliesAsWritten
    <2> QED
        BY <1>1, <1>4, <1>6, <1>8, <2>1, <2>3 DEF Applying, Reviewing, Resting
<1> QED
    BY <1>2, <1>7, <1>8

LEMMA ApplyKeeps ==
    ASSUME Applying, Reviewing, ApplyStep, UNCHANGED reviewVars
    PROVE  Applying' /\ Reviewing'
<1>1. Applying'
    BY NextIInv, NextWritten DEF Applying, PatchNext
<1>2. status \in {"hunks", "lines"} /\ status' # "none"
    BY DEF ApplyStep, OpenHunk, RefuseHunk, AddLine, KeepLine, DropLine, RefuseLine,
           CloseHunk, Finish, Reading
<1>3. ReviewTypeOK' /\ pending' \in Seq(NamedPatch)
    BY DEF Reviewing, ReviewTypeOK, reviewVars
<1>4. Resting'
    BY <1>2 DEF Reviewing, Resting, reviewVars
<1> QED
    BY <1>1, <1>3, <1>4 DEF Reviewing

LEMMA ReviewKeeps ==
    ASSUME Applying, Reviewing, ReviewNext
    PROVE  Applying' /\ Reviewing'
BY ProposeKeeps, StartKeeps, FinishKeeps, PublishKeeps, RefuseKeeps, ExportKeeps,
   ApplyKeeps DEF ReviewNext
-----------------------------------------------------------------------------
LEMMA InitTask == Init => TaskInv
<1> SUFFICES ASSUME Init PROVE TaskInv
    OBVIOUS
<1>1. SnapshotInv /\ Applying
    BY InitHolds, InitApplying DEF Init
<1>2. WithinQuota(copied)
    BY NothingFits DEF Init, SnapshotInit
<1>3. <<>> \in Seq(NamedPatch) /\ <<>> \in Seq(FilePatch) /\ 0 \in 0 .. MaxPatches
    BY EmptySeq, ReviewAssumption
<1>4. ReviewTypeOK
    BY <1>3, NoFileTyped DEF Init, ReviewInit, ReviewTypeOK
<1>5. Reviewing
    BY <1>3, <1>4 DEF Init, ReviewInit, PatchInit, Reviewing, Resting
<1> QED
    BY <1>1, <1>2, <1>5 DEF TaskInv, Applying

LEMMA NextTask == TaskInv /\ [Next]_vars => TaskInv'
<1> SUFFICES ASSUME TaskInv, [Next]_vars PROVE TaskInv'
    OBVIOUS
<1>1. CASE UNCHANGED <<patchVars, reviewVars>> /\ [SnapshotNext]_snapshotVars
    <2>1. SnapshotInv' /\ WithinQuota(copied')
        BY <1>1, StepKeeps, QuotaKept DEF TaskInv
    <2>2. Applying' /\ (PatchInit' <=> PatchInit)
        BY <1>1, SamePatch DEF TaskInv, Applying
    <2>3. Reviewing'
        BY <1>1, <2>2 DEF TaskInv, Reviewing, ReviewTypeOK, Resting, patchVars, reviewVars
    <2> QED
        BY <2>1, <2>2, <2>3 DEF TaskInv, Applying
<1>2. CASE HandOver
    BY <1>2, HandOverKeeps
<1>3. CASE ReviewNext /\ UNCHANGED snapshotVars
    <2>1. SnapshotInv' /\ WithinQuota(copied')
        BY <1>3, StepKeeps, QuotaKept DEF TaskInv
    <2>2. Applying' /\ Reviewing'
        BY <1>3, ReviewKeeps DEF TaskInv, Applying
    <2> QED
        BY <2>1, <2>2 DEF TaskInv, Applying
<1> QED
    BY <1>1, <1>2, <1>3 DEF Next, vars

LEMMA TaskInvHolds == Spec => []TaskInv
BY InitTask, NextTask, PTL DEF Spec

\* Every variable of the composition keeps its type: what was read of the
\* user's files, whatever the model proposes and what is read of the exported
\* diff are lines and patches of files of the workspace; and the copy is never
\* larger than the quota (SnapshotWorkspaceManager.create).
THEOREM TaskTypeCorrect == Spec => []TypeOK
<1>1. TaskInv => TypeOK
    BY DEF TaskInv, SnapshotInv, IInv, Reviewing, TypeOK, WithinQuota
<1> QED
    BY <1>1, TaskInvHolds, PTL

\* In a whole task, too, no text is handed over that the file did not have at
\* some moment of the copy.
THEOREM TaskNothingTorn == Spec => []CopiedWhole
<1>1. TaskInv => CopiedWhole
    BY DEF TaskInv, SnapshotInv, Copying
<1> QED
    BY <1>1, TaskInvHolds, PTL

\* What the copied .gitignore leaves out never gets into the task.
THEOREM TaskObeysRules == Spec => []IgnoredStaysOut
<1>1. TaskInv => IgnoredStaysOut
    BY DEF TaskInv, SnapshotInv, Excluding, IgnoredStaysOut, LeftOut
<1> QED
    BY <1>1, TaskInvHolds, PTL

\* Whichever patches the model proposes and the user applies, and whatever the
\* ones before them left, every line passed is kept once or was dropped.
THEOREM TaskLosesNoLine == Spec => []EveryLineAccounted
<1>1. TaskInv => EveryLineAccounted
    BY DEF TaskInv, IInv, Accounted, EveryLineAccounted
<1> QED
    BY <1>1, TaskInvHolds, PTL

\* Every one of those patches is accepted exactly if it fits the file as the
\* patches before it left it, and then does what it says.
THEOREM TaskPatchesAsWritten == Spec => []AppliesAsWritten
<1>1. TaskInv => AppliesAsWritten
    BY DEF TaskInv, WorkedOff
<1> QED
    BY <1>1, TaskInvHolds, PTL
-----------------------------------------------------------------------------
(* What goes back to the user.                                             *)

AllCut == \A path \in Paths : WellCut(original[path]) /\ WellCut(tree[path])
                                  /\ WellCut(staging[path])

HandedOver == by # "nobody" => step = "handed over"

CanGoBack == \A path \in Paths : original[path] # tree[path] => Expressible(path)

IsLeft(path) == \E i \in 1 .. Len(pending) : pending[i].path = path

\* Each path that is left has one patch, which makes the last workspace's file
\* of the first one's; the others are done.  The patch being applied is the
\* first of those that are left.
ToGo ==
    /\ \A i \in 1 .. Len(pending) :
          Makes(original[pending[i].path], tree[pending[i].path], pending[i])
    /\ \A i, j \in 1 .. Len(pending) : pending[i].path = pending[j].path => i = j
    /\ \A path \in Paths :
          staging[path] = IF IsLeft(path) THEN original[path] ELSE tree[path]
    /\ status # "none" =>
          pending # <<>> /\ patch = Head(pending) /\ source = original[patch.path]

Returning == by = "human" /\ CanGoBack => status # "refused" /\ ToGo

ReturnInv == HandedOver /\ AllCut /\ Returning

LEMMA NoFileCut == WellCut(NoFile) /\ \A path \in Paths : WellCut(NoFiles[path])
<1>1. Text(<<>>) = <<>>
    <2>1. <<>> \in Seq(Line) /\ Len(<<>>) = 0
        BY EmptySeq
    <2>2. PICK f : Joining(f, <<>>, Line)
        BY <2>1, GluesLine, TextIs
    <2> QED
        BY <2>1, <2>2 DEF Joining
<1>2. WellCut(NoFile)
    BY <1>1, NoFileTyped DEF WellCut, NoFile
<1> QED
    BY <1>2 DEF NoFiles

LEMMA GenerationZeroCut ==
    ASSUME SnapshotTypeOK
    PROVE  \A path \in Paths : WellCut(GenerationZero[path])
<1> SUFFICES ASSUME NEW n \in Paths PROVE WellCut(GenerationZero[n])
    OBVIOUS
<1> DEFINE c == CHOOSE x \in copied[n] : TRUE
<1>1. copied[n] \subseteq Seq(Seq(Line))
    BY WorkspaceAssumption DEF SnapshotTypeOK
<1>2. CASE copied[n] = {}
    BY <1>2, NoFileCut DEF GenerationZero
<1>3. CASE copied[n] # {}
    <2>1. c \in Seq(Seq(Line))
        BY <1>1, <1>3
    <2> HIDE DEF c
    <2>2. FlattenSeq(c) \in Seq(Line)
        BY <2>1, FlattenTyped
    <2>3. Text(Text(FlattenSeq(c))) = Text(FlattenSeq(c))
        BY <2>2, TextTwice
    <2>4. GenerationZero[n] = [exists |-> TRUE, lines |-> Text(FlattenSeq(c))]
        BY <1>3 DEF GenerationZero, c
    <2>5. GenerationZero[n] \in File
        BY GenerationZeroTyped
    <2> QED
        BY <2>3, <2>4, <2>5 DEF WellCut
<1> QED
    BY <1>2, <1>3

LEMMA ResultingCut ==
    ASSUME PatchTypeOK
    PROVE  WellCut(Resulting)
<1>1. output \in Seq(Line)
    BY DEF PatchTypeOK
<1>2. Text(Text(output)) = Text(output)
    BY <1>1, TextTwice
<1>3. Resulting \in File
    BY ResultingTyped
<1> QED
    BY <1>2, <1>3, NoFileCut DEF WellCut, Resulting

\* What makes a file is not refused.
Made == \E after : Makes(source, after, patch)

LEMMA NotRefused == Applying /\ Made => status # "refused"
BY DEF Applying, WorkedOff, AppliesAsWritten, Made, Makes

LEMMA StillNotRefused == (Applying /\ Made => status # "refused")'
BY NotRefused, PTL

LEMMA Compared ==
    ASSUME Reviewing, AllCut, CanGoBack
    PROVE  Comparable(original, tree)
<1>1. original \in [Paths -> File] /\ tree \in [Paths -> File]
    BY DEF Reviewing, ReviewTypeOK
<1>2. \A path \in Paths : Expressible(path) => Expressed(original[path], tree[path])
    BY DEF Expressible, Expressed
<1> QED
    BY <1>1, <1>2 DEF AllCut, CanGoBack, Comparable

LEMMA FirstLeft ==
    ASSUME Reviewing, pending # <<>>
    PROVE  /\ pending[1] = Head(pending) /\ 1 \in 1 .. Len(pending)
           /\ Head(pending) \in NamedPatch /\ Head(pending).path \in Paths
           /\ Len(Tail(pending)) = Len(pending) - 1 /\ Len(pending) \in Nat
           /\ \A i \in 1 .. Len(pending) - 1 : Tail(pending)[i] = pending[i + 1]
<1>1. pending \in Seq(NamedPatch)
    BY DEF Reviewing
<1>2. /\ Head(pending) \in NamedPatch /\ Head(pending) = pending[1]
      /\ Len(Tail(pending)) = Len(pending) - 1
      /\ \A i \in 1 .. Len(Tail(pending)) : Tail(pending)[i] = pending[i + 1]
      /\ Len(pending) \in Nat /\ Len(pending) # 0
    BY <1>1, HeadTailProperties, LenProperties, EmptySeq
<1> QED
    BY <1>2 DEF NamedPatch

LEMMA ExportReturns ==
    ASSUME Applying, Reviewing, AllCut, Export
    PROVE  Returning'
<1>1. /\ status = "none" /\ by' = "human" /\ staging' = original
      /\ original' = original /\ tree' = tree
    BY DEF Export, Reviewing, Resting
<1>2. PICK diff \in Diffs(original, tree) :
          /\ diff # <<>>
          /\ pending' = IF Parsed(diff).mode = "old" THEN Parsed(diff).patches ELSE <<>>
          /\ status' = IF Parsed(diff).mode = "old" THEN "none" ELSE "refused"
    BY DEF Export
<1> SUFFICES ASSUME CanGoBack' PROVE (status # "refused" /\ ToGo)'
    BY DEF Returning
<1>3. CanGoBack
    BY <1>1 DEF CanGoBack, Expressible
<1>4. Comparable(original, tree)
    BY <1>3, Compared
<1>5. /\ Parsed(diff).mode = "old"
      /\ Covers(original, tree, Len(PathOrder), Parsed(diff).patches)
    BY <1>2, <1>4, DiffRoundTrip
<1>6. status' = "none" /\ Covers(original, tree, Len(PathOrder), pending')
    BY <1>2, <1>5
<1>7. ASSUME NEW path \in Paths
      PROVE  staging'[path] = IF IsLeft(path)' THEN original'[path] ELSE tree'[path]
    <2>1. PICK n \in 1 .. Len(PathOrder) : path = PathOrder[n]
        BY OrderIs
    <2>2. original[path] # tree[path] => IsLeft(path)'
        BY <1>6, <2>1 DEF Covers, IsLeft
    <2> QED
        BY <1>1, <2>2
<1> QED
    BY <1>1, <1>6, <1>7 DEF ToGo, Covers

LEMMA StartReturns ==
    ASSUME Applying, Reviewing, Returning, StartFile
    PROVE  Returning'
<1> SUFFICES ASSUME by' = "human", CanGoBack' PROVE (status # "refused" /\ ToGo)'
    BY DEF Returning
<1>1. pending # <<>> /\ Begin(staging[Head(pending).path], Head(pending))
      /\ UNCHANGED reviewVars
    BY DEF StartFile
<1>2. by = "human" /\ CanGoBack
    BY <1>1 DEF reviewVars, CanGoBack, Expressible
<1>3. ToGo
    BY <1>2 DEF Returning
<1>4. pending[1] = Head(pending) /\ 1 \in 1 .. Len(pending) /\ Head(pending).path \in Paths
    BY <1>1, FirstLeft
<1>5. IsLeft(Head(pending).path)
    BY <1>4 DEF IsLeft
<1>6. staging[Head(pending).path] = original[Head(pending).path]
    BY <1>3, <1>4, <1>5 DEF ToGo
<1>7. patch' = Head(pending) /\ source' = original[Head(pending).path]
    BY <1>1, <1>6 DEF Begin
<1>8. /\ pending' = pending /\ staging' = staging /\ original' = original /\ tree' = tree
    BY <1>1 DEF reviewVars
<1>9. Makes(source', tree[Head(pending).path], patch')
    BY <1>3, <1>4, <1>7 DEF ToGo
<1>10. Applying'
    BY StartKeeps
<1>11. status' # "refused"
    BY <1>9, <1>10, StillNotRefused DEF Made
<1>12. ToGo'
    BY <1>1, <1>3, <1>7, <1>8 DEF ToGo, IsLeft
<1> QED
    BY <1>11, <1>12

LEMMA ApplyReturns ==
    ASSUME Applying, Reviewing, Returning, ApplyStep, UNCHANGED reviewVars
    PROVE  Returning'
<1> SUFFICES ASSUME by' = "human", CanGoBack' PROVE (status # "refused" /\ ToGo)'
    BY DEF Returning
<1>1. status # "none" /\ source' = source /\ patch' = patch
    BY DEF ApplyStep, OpenHunk, RefuseHunk, AddLine, KeepLine, DropLine, RefuseLine,
           CloseHunk, Finish, Reading
<1>2. /\ pending' = pending /\ staging' = staging /\ original' = original
      /\ tree' = tree /\ by' = by
    BY DEF reviewVars
<1>3. ToGo
    BY <1>2 DEF Returning, CanGoBack, Expressible
<1>4. pending # <<>> /\ patch = Head(pending) /\ source = original[patch.path]
    BY <1>1, <1>3 DEF ToGo
<1>5. Makes(source', tree[patch.path], patch')
    BY <1>1, <1>3, <1>4, FirstLeft DEF ToGo
<1>6. Applying'
    BY ApplyKeeps
<1>7. status' # "refused"
    BY <1>5, <1>6, StillNotRefused DEF Made
<1>8. ToGo'
    BY <1>1, <1>2, <1>3, <1>4 DEF ToGo, IsLeft
<1> QED
    BY <1>7, <1>8

\* The file that was patched is the last workspace's.
LEMMA ResultingIs ==
    ASSUME Applying, Reviewing, AllCut, ToGo, status = "done"
    PROVE  Resulting = tree[patch.path]
<1> DEFINE a == original[patch.path]
           b == tree[patch.path]
<1>1. pending # <<>> /\ patch = Head(pending) /\ source = a
    BY DEF ToGo
<1>2. patch.path \in Paths /\ Makes(a, b, patch)
    BY <1>1, FirstLeft DEF ToGo
<1>3. b \in File /\ Text(b.lines) = b.lines /\ (~b.exists => b.lines = <<>>)
    BY <1>2 DEF AllCut, WellCut
<1>4. output = b.lines
    <2>1. output = Patched(source.lines, patch.hunks)
        BY DEF Applying, WorkedOff, AppliesAsWritten
    <2> QED
        BY <1>1, <1>2, <2>1 DEF Makes
<1>5. patch.operation = "delete" <=> ~b.exists
    BY <1>2 DEF Makes
<1> HIDE DEF b
<1>6. Resulting = [exists |-> b.exists, lines |-> b.lines]
    BY <1>3, <1>4, <1>5 DEF Resulting, NoFile, File
<1>7. b = [exists |-> b.exists, lines |-> b.lines]
    BY <1>3 DEF File
<1> QED
    BY <1>6, <1>7 DEF b

LEMMA FinishReturns ==
    ASSUME Applying, Reviewing, AllCut, Returning, FinishFile
    PROVE  Returning'
<1> SUFFICES ASSUME by' = "human", CanGoBack' PROVE (status # "refused" /\ ToGo)'
    BY DEF Returning
<1> DEFINE q == Head(pending).path
           k == Len(pending)
           ps == Tail(pending)
<1>1. /\ status = "done" /\ status' = "none" /\ pending' = ps
      /\ staging' = [staging EXCEPT ![patch.path] = Resulting]
      /\ original' = original /\ tree' = tree /\ by' = by
    BY DEF FinishFile, Idle
<1>2. ToGo
    BY <1>1 DEF Returning, CanGoBack, Expressible
<1>3. pending # <<>> /\ patch.path = q
    BY <1>1, <1>2 DEF ToGo
<1>4. /\ pending[1].path = q /\ 1 \in 1 .. k /\ q \in Paths
      /\ Len(ps) = k - 1 /\ k \in Nat /\ \A i \in 1 .. k - 1 : ps[i] = pending[i + 1]
    BY <1>3, FirstLeft
<1>5. Resulting = tree[q]
    BY <1>1, <1>2, <1>3, ResultingIs
<1>6. staging \in [Paths -> File]
    BY DEF Reviewing, ReviewTypeOK
<1> HIDE DEF q, k, ps
<1>7. \A i \in 1 .. k - 1 : i + 1 \in 1 .. k
    BY <1>4
<1>8. \A i \in 1 .. k - 1 : Makes(original[ps[i].path], tree[ps[i].path], ps[i])
    BY <1>2, <1>4, <1>7 DEF ToGo, k
<1>9. ASSUME NEW i \in 1 .. k - 1, NEW j \in 1 .. k - 1, ps[i].path = ps[j].path
      PROVE  i = j
    <2>1. i + 1 \in 1 .. k /\ j + 1 \in 1 .. k /\ pending[i + 1].path = pending[j + 1].path
        BY <1>4, <1>7, <1>9
    <2>2. i + 1 = j + 1
        BY <1>2, <2>1 DEF ToGo, k
    <2> QED
        BY <1>4, <2>2
<1>10. ASSUME NEW path \in Paths
       PROVE  staging'[path] = IF IsLeft(path)' THEN original[path] ELSE tree[path]
    <2>1. IsLeft(path)' <=> \E i \in 1 .. k - 1 : ps[i].path = path
        BY <1>1, <1>4 DEF IsLeft
    <2>2. CASE path = q
        <3>1. ASSUME NEW i \in 1 .. k - 1, ps[i].path = q PROVE FALSE
            <4>1. pending[i + 1].path = pending[1].path /\ i + 1 \in 1 .. k /\ i + 1 # 1
                BY <1>4, <1>7, <3>1
            <4> QED
                BY <1>2, <1>4, <4>1 DEF ToGo, k
        <3>2. staging'[path] = tree[q]
            BY <1>1, <1>3, <1>5, <1>6, <2>2
        <3> QED
            BY <2>1, <2>2, <3>1, <3>2
    <2>3. CASE path # q
        <3>1. IsLeft(path) <=> \E i \in 1 .. k - 1 : ps[i].path = path
            <4>1. ASSUME NEW i \in 1 .. k, pending[i].path = path
                  PROVE  \E j \in 1 .. k - 1 : ps[j].path = path
                <5>1. i # 1
                    BY <1>4, <2>3, <4>1
                <5>2. i - 1 \in 1 .. k - 1 /\ (i - 1) + 1 = i
                    BY <1>4, <5>1
                <5> QED
                    BY <1>4, <4>1, <5>2
            <4>2. ASSUME NEW i \in 1 .. k - 1, ps[i].path = path
                  PROVE  \E j \in 1 .. k : pending[j].path = path
                BY <1>4, <1>7, <4>2
            <4> QED
                BY <4>1, <4>2 DEF IsLeft, k
        <3>2. staging'[path] = staging[path]
            BY <1>1, <1>3, <1>6, <2>3
        <3> QED
            BY <1>2, <2>1, <3>1, <3>2 DEF ToGo
    <2> QED
        BY <2>2, <2>3
<1>11. ToGo'
    BY <1>1, <1>4, <1>8, <1>9, <1>10 DEF ToGo
<1> QED
    BY <1>1, <1>11

LEMMA ReviewReturns ==
    ASSUME TaskInv, ReturnInv, step = "handed over", ReviewNext, UNCHANGED snapshotVars
    PROVE  ReturnInv'
<1>1. Applying /\ Reviewing /\ AllCut /\ Returning
    BY DEF TaskInv, Applying, ReturnInv
<1>2. HandedOver'
    BY DEF HandedOver, snapshotVars
<1>3. CASE \E payload \in Proposals : Propose(payload)
    BY <1>1, <1>2, <1>3 DEF Propose, ReturnInv, AllCut, Returning
<1>4. CASE StartFile
    BY <1>1, <1>2, <1>4, StartReturns DEF StartFile, reviewVars, ReturnInv, AllCut
<1>5. CASE FinishFile
    <2>1. WellCut(Resulting) /\ staging \in [Paths -> File]
        BY <1>1, ResultingCut DEF Applying, IInv, Reviewing, ReviewTypeOK
    <2>2. /\ staging' = [staging EXCEPT ![patch.path] = Resulting]
          /\ original' = original /\ tree' = tree
        BY <1>5 DEF FinishFile
    <2>3. AllCut'
        BY <1>1, <2>1, <2>2 DEF AllCut
    <2> QED
        BY <1>1, <1>2, <1>5, <2>3, FinishReturns DEF ReturnInv
<1>6. CASE Publish \/ Refuse
    BY <1>1, <1>2, <1>6, NoFileCut DEF Publish, Refuse, ReturnInv, AllCut, Returning
<1>7. CASE Export
    BY <1>1, <1>2, <1>7, ExportReturns DEF Export, ReturnInv, AllCut
<1>8. CASE ApplyStep /\ UNCHANGED reviewVars
    BY <1>1, <1>2, <1>8, ApplyReturns DEF reviewVars, ReturnInv, AllCut
<1> QED
    BY <1>3, <1>4, <1>5, <1>6, <1>7, <1>8 DEF ReviewNext

\* No step of the copy follows the handing over.
LEMMA CopyIsOver ==
    ASSUME [SnapshotNext]_snapshotVars, step = "handed over"
    PROVE  step' = "handed over"
BY DEF SnapshotNext, CopyStep, UserStep, Delete, Rewrite, Replace, Edit, OpenFails,
       Changed, LateRules, InspectFails, Failed, FileCopied, CopyRules, InspectRules,
       Open, Read, EndOfFile, RulesRead, List, Inspect, Complete, Interrupt, Running,
       snapshotVars

LEMMA InitReturn == Init => ReturnInv
BY NoFileCut DEF Init, ReviewInit, ReturnInv, HandedOver, AllCut, Returning

LEMMA NextReturn == TaskInv /\ ReturnInv /\ [Next]_vars => ReturnInv'
<1> SUFFICES ASSUME TaskInv, ReturnInv, [Next]_vars PROVE ReturnInv'
    OBVIOUS
<1>1. CASE UNCHANGED <<patchVars, reviewVars>> /\ [SnapshotNext]_snapshotVars
    <2>1. HandedOver'
        BY <1>1, CopyIsOver DEF ReturnInv, HandedOver, reviewVars
    <2> QED
        BY <1>1, <2>1 DEF ReturnInv, AllCut, Returning, CanGoBack, Expressible, ToGo,
                          IsLeft, patchVars, reviewVars
<1>2. CASE HandOver
    <2>1. by = "nobody" /\ by' = by
        BY <1>2 DEF HandOver, ReturnInv, HandedOver
    <2>2. original' = GenerationZero /\ tree' = GenerationZero /\ staging' = staging
        BY <1>2 DEF HandOver
    <2>3. AllCut'
        BY <2>2, GenerationZeroCut DEF TaskInv, SnapshotInv, ReturnInv, AllCut
    <2> QED
        BY <2>1, <2>3 DEF ReturnInv, HandedOver, Returning
<1>3. CASE step = "handed over" /\ ReviewNext /\ UNCHANGED snapshotVars
    BY <1>3, ReviewReturns
<1> QED
    BY <1>1, <1>2, <1>3 DEF Next, vars

LEMMA ReturnInvHolds == Spec => []ReturnInv
BY TaskInvHolds, InitReturn, NextReturn, PTL DEF Spec

\* A user who applies the exported diff to what the task started from is never
\* refused and gets exactly the files the task ended with, whatever the task
\* did with texts a unified diff can express (build_diff, parse_unified_diff
\* and FilePatch.apply together).
THEOREM TaskExportReproduces == Spec => []ExportReproduces
<1>1. TaskInv /\ ReturnInv => ExportReproduces
    <2> SUFFICES ASSUME Reviewing, Returning, CanGoBack, by = "human"
                 PROVE  status # "refused"
                        /\ (pending = <<>> /\ status = "none" => staging = tree)
        BY DEF TaskInv, ReturnInv, ExportReproduces, Reproduces, CanGoBack
    <2>1. status # "refused" /\ ToGo
        BY DEF Returning
    <2>2. ASSUME pending = <<>> PROVE staging = tree
        <3>1. \A path \in Paths : ~IsLeft(path)
            <4>1. Len(pending) = 0
                BY <2>2, EmptySeq
            <4> QED
                BY <4>1 DEF IsLeft
        <3>2. \A path \in Paths : staging[path] = tree[path]
            BY <2>1, <3>1 DEF ToGo
        <3>3. staging \in [Paths -> File] /\ tree \in [Paths -> File]
            BY DEF Reviewing, ReviewTypeOK
        <3> QED
            BY <3>2, <3>3
    <2> QED
        BY <2>1, <2>2
<1> QED
    BY <1>1, TaskInvHolds, ReturnInvHolds, PTL
-----------------------------------------------------------------------------
(* What a proposal does.                                                   *)

\* What a file patch that fits makes of a file.
Outcome(file, p) ==
    IF p.operation = "delete" THEN NoFile
    ELSE [exists |-> TRUE, lines |-> Text(Patched(file.lines, p.hunks))]

\* The first k of the patches ps, each of which fits what those before it
\* left, lead from files by way of `through'.
Leads(files, ps, k, through) ==
    /\ through[0] = files
    /\ \A i \in 1 .. k :
          /\ Applies(through[i - 1][ps[i].path], ps[i])
          /\ through[i] = [through[i - 1] EXCEPT ![ps[i].path] =
                              Outcome(through[i - 1][ps[i].path], ps[i])]

\* The last workspace becomes what all patches of the proposal make of it.
Taken(ps) == \E through : Leads(tree, ps, Len(ps), through) /\ tree' = through[Len(ps)]

\* One of its patches does not fit, and nothing changes.
Rejected(ps) ==
    /\ UNCHANGED tree
    /\ \E k \in 0 .. Len(ps) - 1 : \E through :
          /\ Leads(tree, ps, k, through)
          /\ ~Applies(through[k][ps[k + 1].path], ps[k + 1])

\* A proposal takes effect as a whole or, if one of its patches does not fit,
\* not at all; nothing else changes the last workspace once there is one.
AllOrNothing ==
    /\ by = "agent" /\ by' # "agent" =>
          \E payload \in Proposals :
              /\ Parsed(payload).mode = "old"
              /\ Taken(Parsed(payload).patches) \/ Rejected(Parsed(payload).patches)
    /\ tree' # tree => HandOver \/ (by = "agent" /\ by' # "agent")

\* The first k of the patches ps have been applied.
AppliedSoFar(ps, k) ==
    /\ ps \in Seq(NamedPatch) /\ k <= Len(ps)
    /\ Len(pending) = Len(ps) - k
    /\ \A i \in 1 .. Len(ps) - k : pending[i] = ps[k + i]
    /\ \E through : Leads(tree, ps, k, through) /\ staging = through[k]
    /\ status # "none" => /\ k < Len(ps) /\ patch = ps[k + 1]
                          /\ source = staging[ps[k + 1].path]

AsProposed ==
    by = "agent" =>
        \E payload \in Proposals : \E k \in Nat :
            Parsed(payload).mode = "old" /\ AppliedSoFar(Parsed(payload).patches, k)

LEMMA ProposeAsProposed ==
    ASSUME Reviewing, AsProposed, NEW payload \in Proposals, Propose(payload)
    PROVE  AsProposed'
<1> DEFINE ps == Parsed(payload).patches
           through == [i \in 0 .. 0 |-> tree]
<1>1. CASE Parsed(payload).mode = "old"
    <2>1. /\ by' = "agent" /\ staging' = tree /\ pending' = ps
          /\ tree' = tree /\ status' = "none"
        BY <1>1 DEF Propose, patchVars, Reviewing, Resting
    <2>2. ps \in Seq(NamedPatch)
        BY ReviewAssumption, ParsedTyped
    <2> HIDE DEF ps
    <2>3. Len(ps) \in Nat /\ Len(ps) - 0 = Len(ps) /\ 0 <= Len(ps) /\ 0 \in Nat
          /\ \A i \in 1 .. Len(ps) : 0 + i = i
        BY <2>2, LenProperties
    <2>4. Leads(tree, ps, 0, through) /\ through[0] = tree
        <3>1. \A i \in 1 .. 0 : FALSE
            OBVIOUS
        <3>2. through[0] = tree
            OBVIOUS
        <3> HIDE DEF through
        <3> QED
            BY <3>1, <3>2 DEF Leads
    <2> HIDE DEF through
    <2>5. AppliedSoFar(ps, 0)'
        BY <2>1, <2>2, <2>3, <2>4 DEF AppliedSoFar
    <2> QED
        BY <1>1, <2>3, <2>5 DEF AsProposed, ps
<1>2. CASE Parsed(payload).mode # "old"
    BY <1>2 DEF Propose, AsProposed
<1> QED
    BY <1>1, <1>2

LEMMA StartAsProposed ==
    ASSUME Reviewing, NEW ps, NEW k \in Nat, AppliedSoFar(ps, k), StartFile
    PROVE  AppliedSoFar(ps, k)'
<1>1. /\ pending # <<>> /\ Begin(staging[Head(pending).path], Head(pending))
      /\ pending' = pending /\ staging' = staging /\ tree' = tree
    BY DEF StartFile, reviewVars
<1>2. /\ Len(pending) = Len(ps) - k /\ \A i \in 1 .. Len(ps) - k : pending[i] = ps[k + i]
      /\ ps \in Seq(NamedPatch) /\ Len(ps) \in Nat
    BY LenProperties DEF AppliedSoFar
<1>3. pending[1] = Head(pending) /\ 1 \in 1 .. Len(pending)
    BY <1>1, FirstLeft
<1>4. k < Len(ps) /\ Head(pending) = ps[k + 1]
    BY <1>2, <1>3
<1>5. patch' = Head(pending) /\ source' = staging[Head(pending).path]
    BY <1>1 DEF Begin
<1> QED
    BY <1>1, <1>4, <1>5 DEF AppliedSoFar

LEMMA ApplyAsProposed ==
    ASSUME NEW ps, NEW k \in Nat, AppliedSoFar(ps, k), ApplyStep, UNCHANGED reviewVars
    PROVE  AppliedSoFar(ps, k)'
<1>1. status # "none" /\ source' = source /\ patch' = patch
    BY DEF ApplyStep, OpenHunk, RefuseHunk, AddLine, KeepLine, DropLine, RefuseLine,
           CloseHunk, Finish, Reading
<1> QED
    BY <1>1 DEF AppliedSoFar, reviewVars

LEMMA FinishAsProposed ==
    ASSUME Applying, Reviewing, NEW ps, NEW k \in Nat, AppliedSoFar(ps, k), FinishFile
    PROVE  AppliedSoFar(ps, k + 1)'
<1> DEFINE p == ps[k + 1]
<1>1. /\ status = "done" /\ status' = "none" /\ pending' = Tail(pending)
      /\ staging' = [staging EXCEPT ![patch.path] = Resulting] /\ tree' = tree
    BY DEF FinishFile, Idle
<1>2. /\ ps \in Seq(NamedPatch) /\ Len(ps) \in Nat /\ k < Len(ps)
      /\ Len(pending) = Len(ps) - k /\ \A i \in 1 .. Len(ps) - k : pending[i] = ps[k + i]
      /\ patch = p /\ source = staging[p.path]
    BY <1>1, LenProperties DEF AppliedSoFar
<1>3. PICK before : Leads(tree, ps, k, before) /\ staging = before[k]
    BY DEF AppliedSoFar
<1> HIDE DEF p
<1>4. Applies(staging[p.path], p) /\ Resulting = Outcome(staging[p.path], p)
    <2>1. Applies(source, patch) /\ output = Patched(source.lines, patch.hunks)
        BY <1>1 DEF Applying, WorkedOff, AppliesAsWritten
    <2> QED
        BY <1>2, <2>1 DEF Resulting, Outcome
<1> DEFINE through == [i \in 0 .. k + 1 |-> IF i = k + 1 THEN staging' ELSE before[i]]
<1>5. through[k + 1] = staging' /\ \A i \in 0 .. k : through[i] = before[i]
    <2>1. k + 1 \in 0 .. k + 1 /\ \A i \in 0 .. k : i \in 0 .. k + 1 /\ i # k + 1
        OBVIOUS
    <2> QED
        BY <2>1
<1> HIDE DEF through
<1>6. Leads(tree, ps, k + 1, through)
    <2>1. through[0] = tree
        <3>1. 0 \in 0 .. k
            OBVIOUS
        <3> QED
            BY <1>3, <1>5, <3>1 DEF Leads
    <2>2. ASSUME NEW i \in 1 .. k + 1
          PROVE  /\ Applies(through[i - 1][ps[i].path], ps[i])
                 /\ through[i] = [through[i - 1] EXCEPT ![ps[i].path] =
                                     Outcome(through[i - 1][ps[i].path], ps[i])]
        <3>1. CASE i = k + 1
            <4>1. i - 1 = k /\ k \in 0 .. k
                BY <3>1
            <4>2. through[i - 1] = staging
                BY <1>3, <1>5, <4>1
            <4> QED
                BY <1>1, <1>2, <1>4, <1>5, <3>1, <4>2 DEF p
        <3>2. CASE i # k + 1
            <4>1. i \in 1 .. k /\ i \in 0 .. k /\ i - 1 \in 0 .. k
                BY <3>2
            <4>2. through[i] = before[i] /\ through[i - 1] = before[i - 1]
                BY <1>5, <4>1
            <4> QED
                BY <1>3, <4>1, <4>2 DEF Leads
        <3> QED
            BY <3>1, <3>2
    <2> QED
        BY <2>1, <2>2 DEF Leads
<1>7. Len(pending') = Len(ps) - (k + 1)
      /\ \A i \in 1 .. Len(ps) - (k + 1) : pending'[i] = ps[(k + 1) + i]
    <2>1. pending # <<>>
        BY <1>1 DEF Reviewing, Resting
    <2>2. /\ Len(Tail(pending)) = Len(pending) - 1
          /\ \A i \in 1 .. Len(pending) - 1 : Tail(pending)[i] = pending[i + 1]
        BY <2>1, FirstLeft
    <2>3. ASSUME NEW i \in 1 .. Len(ps) - (k + 1) PROVE Tail(pending)[i] = ps[(k + 1) + i]
        <3>1. i \in 1 .. Len(pending) - 1 /\ i + 1 \in 1 .. Len(ps) - k
              /\ k + (i + 1) = (k + 1) + i
            BY <1>2
        <3> QED
            BY <1>2, <2>2, <3>1
    <2>4. Len(pending) - 1 = Len(ps) - (k + 1)
        BY <1>2
    <2> QED
        BY <1>1, <2>2, <2>3, <2>4
<1>8. k + 1 <= Len(ps)
    BY <1>2
<1> QED
    BY <1>1, <1>2, <1>5, <1>6, <1>7, <1>8 DEF AppliedSoFar

LEMMA ReviewAsProposed ==
    ASSUME Applying, Reviewing, AsProposed, ReviewNext
    PROVE  AsProposed'
<1>1. CASE \E payload \in Proposals : Propose(payload)
    BY <1>1, ProposeAsProposed
<1>2. CASE StartFile
    BY <1>2, StartAsProposed DEF StartFile, reviewVars, AsProposed
<1>3. CASE FinishFile
    <2>1. \A k \in Nat : k + 1 \in Nat
        OBVIOUS
    <2> QED
        BY <1>3, <2>1, FinishAsProposed DEF FinishFile, AsProposed
<1>4. CASE Publish \/ Refuse \/ Export
    BY <1>4 DEF Publish, Refuse, Export, AsProposed
<1>5. CASE ApplyStep /\ UNCHANGED reviewVars
    BY <1>5, ApplyAsProposed DEF reviewVars, AsProposed
<1> QED
    BY <1>1, <1>2, <1>3, <1>4, <1>5 DEF ReviewNext

LEMMA NextAsProposed ==
    TaskInv /\ ReturnInv /\ AsProposed /\ [Next]_vars => AsProposed'
<1> SUFFICES ASSUME TaskInv, ReturnInv, AsProposed, [Next]_vars PROVE AsProposed'
    OBVIOUS
<1>1. CASE UNCHANGED <<patchVars, reviewVars>>
    BY <1>1 DEF AsProposed, AppliedSoFar, patchVars, reviewVars
<1>2. CASE HandOver
    <2>1. by = "nobody" /\ by' = by
        BY <1>2 DEF HandOver, ReturnInv, HandedOver
    <2> QED
        BY <2>1 DEF AsProposed
<1>3. CASE ReviewNext
    BY <1>3, ReviewAsProposed DEF TaskInv, Applying
<1> QED
    BY <1>1, <1>2, <1>3 DEF Next, vars

LEMMA AsProposedHolds == Spec => []AsProposed
<1>1. Init => AsProposed
    BY DEF Init, ReviewInit, AsProposed
<1> QED
    BY <1>1, NextAsProposed, TaskInvHolds, ReturnInvHolds, PTL DEF Spec

LEMMA PublishTakes ==
    ASSUME NEW ps, NEW k \in Nat, AppliedSoFar(ps, k), Publish
    PROVE  Taken(ps)
<1>1. pending = <<>> /\ tree' = staging
    BY DEF Publish
<1>2. k = Len(ps)
    <2>1. Len(pending) = 0
        BY <1>1, EmptySeq
    <2>2. Len(ps) \in Nat /\ Len(pending) = Len(ps) - k
        BY LenProperties DEF AppliedSoFar
    <2> QED
        BY <2>1, <2>2
<1> QED
    BY <1>1, <1>2 DEF AppliedSoFar, Taken

LEMMA RefuseRejects ==
    ASSUME Applying, NEW ps, NEW k \in Nat, AppliedSoFar(ps, k), Refuse
    PROVE  Rejected(ps)
<1>1. status = "refused" /\ tree' = tree
    BY DEF Refuse
<1>2. k < Len(ps) /\ patch = ps[k + 1] /\ source = staging[ps[k + 1].path]
    BY <1>1 DEF AppliedSoFar
<1>3. ~Applies(source, patch)
    BY <1>1 DEF Applying, WorkedOff, AppliesAsWritten
<1>4. k \in 0 .. Len(ps) - 1
    <2>1. Len(ps) \in Nat
        BY LenProperties DEF AppliedSoFar
    <2> QED
        BY <1>2, <2>1
<1>5. PICK through : Leads(tree, ps, k, through) /\ staging = through[k]
    BY DEF AppliedSoFar
<1> QED
    BY <1>1, <1>2, <1>3, <1>4, <1>5 DEF Rejected

LEMMA StepAllOrNothing ==
    TaskInv /\ AsProposed /\ [Next]_vars => AllOrNothing \/ UNCHANGED vars
<1> SUFFICES ASSUME TaskInv, AsProposed, Next PROVE AllOrNothing
    OBVIOUS
<1>1. CASE UNCHANGED reviewVars
    BY <1>1 DEF AllOrNothing, reviewVars
<1>2. CASE HandOver
    <2>1. by' = by
        BY <1>2 DEF HandOver
    <2> QED
        BY <1>2, <2>1 DEF AllOrNothing
<1>3. CASE Publish \/ Refuse
    <2>1. by = "agent" /\ by' # "agent"
        BY <1>3 DEF Publish, Refuse
    <2>2. PICK payload \in Proposals, k \in Nat :
              Parsed(payload).mode = "old" /\ AppliedSoFar(Parsed(payload).patches, k)
        BY <2>1 DEF AsProposed
    <2>3. Taken(Parsed(payload).patches) \/ Rejected(Parsed(payload).patches)
        BY <1>3, <2>2, PublishTakes, RefuseRejects DEF TaskInv, Applying
    <2> QED
        BY <2>1, <2>2, <2>3 DEF AllOrNothing
<1>4. CASE (\E payload \in Proposals : Propose(payload)) \/ StartFile \/ FinishFile \/ Export
    <2>1. tree' = tree /\ (by = "agent" => by' = "agent")
        BY <1>4 DEF Propose, StartFile, FinishFile, Export, reviewVars
    <2> QED
        BY <2>1 DEF AllOrNothing
<1> QED
    BY <1>1, <1>2, <1>3, <1>4 DEF Next, ReviewNext

\* WorkspaceEditor.apply: several patches of several files are one change of
\* the workspace, and a proposal of which any patch does not fit is none.
THEOREM TaskAllOrNothing == Spec => [][AllOrNothing]_vars
BY StepAllOrNothing, TaskInvHolds, AsProposedHolds, PTL DEF Spec

-----------------------------------------------------------------------------
(* What the task starts from.                                              *)

\* The first workspace is set once the copy is complete; each of its files
\* reads as the user's file did at some moment of the copy, and none is there
\* that the .gitignore which was copied leaves out.
StartsAsWritten ==
    original' # original =>
        /\ step = "copied" /\ step' = "handed over"
        /\ \A n \in Names : original'[n].exists =>
              /\ \E contents \in held[n] : original'[n].lines = Text(FlattenSeq(contents))
              /\ \A contents \in copied[Ignore] : ~Ignored(contents, n)

LEMMA StepStartsAsWritten ==
    TaskInv /\ [Next]_vars => StartsAsWritten \/ UNCHANGED vars
<1> SUFFICES ASSUME TaskInv, Next PROVE StartsAsWritten
    OBVIOUS
<1>1. CASE original' = original
    BY <1>1 DEF StartsAsWritten
<1>2. CASE HandOver
    <2>1. step = "copied" /\ step' = "handed over" /\ original' = GenerationZero
        BY <1>2 DEF HandOver
    <2> SUFFICES ASSUME NEW n \in Names, GenerationZero[n].exists
                 PROVE  /\ \E contents \in held[n] :
                              GenerationZero[n].lines = Text(FlattenSeq(contents))
                        /\ \A contents \in copied[Ignore] : ~Ignored(contents, n)
        BY <2>1 DEF StartsAsWritten
    <2> DEFINE c == CHOOSE x \in copied[n] : TRUE
    <2>2. copied[n] # {}
        BY WorkspaceAssumption DEF GenerationZero, NoFile
    <2>3. c \in copied[n]
        BY <2>2
    <2>4. GenerationZero[n].lines = Text(FlattenSeq(c))
        BY <2>2, WorkspaceAssumption DEF GenerationZero
    <2> HIDE DEF c
    <2>5. c \in held[n]
        BY <2>3 DEF TaskInv, SnapshotInv, Copying, CopiedWhole
    <2>6. \A contents \in copied[Ignore] : ~Ignored(contents, n)
        BY <2>2 DEF TaskInv, SnapshotInv, Excluding, LeftOut
    <2> QED
        BY <2>4, <2>5, <2>6
<1>3. CASE ReviewNext \/ UNCHANGED reviewVars
    BY <1>1, <1>3 DEF ReviewNext, Propose, StartFile, FinishFile, Publish, Refuse, Export,
                      reviewVars
<1> QED
    BY <1>1, <1>2, <1>3 DEF Next

\* SnapshotWorkspaceManager.create and the opening of generation 0 together:
\* the task works on texts the user really had.
THEOREM TaskStartsAsWritten == Spec => [][StartsAsWritten]_vars
BY StepStartsAsWritten, TaskInvHolds, PTL DEF Spec
=============================================================================
