-------------------------- MODULE GenerationsProofs --------------------------
(* Proofs about the generations on disk, for every generation limit.  The  *)
(* invariant says of each step what the step relies on: nothing lies past  *)
(* the successor of the recorded generation, and a step of `apply' that    *)
(* could take something away takes it from an unpublished successor.       *)
EXTENDS Generations, TLAPS

\* What a process has in hand at each step, and what may lie around it.
Reached ==
    /\ pc # "down" => current \in {recorded, recorded + 1}
    /\ \A g \in Gens : g <= recorded => Complete(g)
    /\ pc # "down" => \A g \in Gens : g <= current => Complete(g)

\* Leftovers lie at the successor of the recorded generation and nowhere
\* else; one that is staged is not published.
Leftovers ==
    /\ \A g \in dirs : g <= recorded + 1
    /\ \A g \in Gens : manifest[g] # "absent" => g <= recorded + 1
    /\ \A g \in staging : g = recorded + 1 /\ manifest[g] = "absent"

\* What a sweep or an unwinding step removes is unpublished.
Sweeping ==
    /\ pc \in {"sweepFinal", "sweepStaging"} =>
           current < MaxGenerations /\ manifest[next] = "absent"
    /\ pc = "sweepStaging" => next \notin dirs
    /\ pc = "ready" =>
           /\ staging = {} /\ next \notin dirs
           /\ \A g \in Gens : g > current => manifest[g] = "absent"

InApply ==
    /\ pc \in Applying \cup Unwinding \cup {"returned"} =>
           recorded = current /\ current < MaxGenerations
    /\ pc \in {"copy", "patch"} =>
           manifest[next] = "absent" /\ next \notin dirs
    /\ pc = "copy" => staging = {}
    /\ pc = "patch" => staging = {next}
    /\ pc = "rename" => staging = {next} /\ manifest[next] = "absent" /\ next \notin dirs
    /\ pc = "open" => manifest[next] = "absent" /\ next \in dirs /\ staging = {}
    /\ pc = "fill" => manifest[next] = "partial" /\ next \in dirs /\ staging = {}
    /\ pc \in {"written", "returned"} => Complete(next) /\ staging = {}
    /\ pc = "unwindManifest" => manifest[next] = "partial" /\ staging = {} /\ raised = "none"
    /\ pc = "unwindFinal" => staging = {}
    /\ raised = "PatchError" => /\ pc \in {"unwindStaging", "unwindFinal"}
                                /\ manifest[next] = "absent"

IInv == TypeOK /\ Reached /\ Leftovers /\ Sweeping /\ InApply

LEMMA InitIInv == Init => IInv
<1> SUFFICES ASSUME Init PROVE IInv
    OBVIOUS
<1> USE MaxGenerationsAssumption DEF Init, Applying, Unwinding, Gens
<1>1. TypeOK    BY SMT DEF TypeOK
<1>2. Reached   BY SMT DEF Reached, Complete
<1>3. Leftovers BY SMT DEF Leftovers
<1>4. Sweeping  BY SMT DEF Sweeping
<1>5. InApply   BY SMT DEF InApply
<1> QED
    BY <1>1, <1>2, <1>3, <1>4, <1>5 DEF IInv

\* Recovery reads the disk and moves to what it finds.
LEMMA RecoveryStep ==
    ASSUME IInv, Start \/ Adopt \/ Refuse \/ WalkEnds \/ RecordRecovered
    PROVE  IInv'
<1> USE MaxGenerationsAssumption DEF IInv, TypeOK, Applying, Unwinding, Gens, next
<1>1. CASE Start
    <2> USE <1>1 DEF Start
    <2>1. TypeOK'    BY SMT DEF Reached, InApply, Sweeping, Complete
    <2>2. Reached'   BY SMT DEF Reached, InApply, Sweeping, Complete
    <2>3. Leftovers' BY SMT DEF Reached, Leftovers, InApply, Complete
    <2>4. Sweeping'  BY SMT DEF Reached, Leftovers, Sweeping, InApply, Complete
    <2>5. InApply'   BY SMT DEF Reached, Leftovers, Sweeping, InApply, Complete
    <2> QED
        BY <2>1, <2>2, <2>3, <2>4, <2>5
<1>2. CASE Adopt
    <2> USE <1>2 DEF Adopt
    <2>1. TypeOK'    BY SMT DEF Reached, InApply, Sweeping, Complete
    <2>2. Reached'   BY SMT DEF Reached, Leftovers, Complete
    <2>3. Leftovers' BY SMT DEF Reached, Leftovers, InApply, Complete
    <2>4. Sweeping'  BY SMT DEF Reached, Leftovers, Sweeping, InApply, Complete
    <2>5. InApply'   BY SMT DEF Reached, Leftovers, Sweeping, InApply, Complete
    <2> QED
        BY <2>1, <2>2, <2>3, <2>4, <2>5
<1>3. CASE Refuse
    <2> USE <1>3 DEF Refuse, Refused
    <2>1. TypeOK'    BY SMT DEF Reached, InApply, Sweeping, Complete
    <2>2. Reached'   BY SMT DEF Reached, InApply, Sweeping, Complete
    <2>3. Leftovers' BY SMT DEF Reached, Leftovers, InApply, Complete
    <2>4. Sweeping'  BY SMT DEF Reached, Leftovers, Sweeping, InApply, Complete
    <2>5. InApply'   BY SMT DEF Reached, Leftovers, Sweeping, InApply, Complete
    <2> QED
        BY <2>1, <2>2, <2>3, <2>4, <2>5
<1>4. CASE WalkEnds
    <2> USE <1>4 DEF WalkEnds
    <2>1. TypeOK'    BY SMT DEF Reached, InApply, Sweeping, Complete
    <2>2. Reached'   BY SMT DEF Reached, InApply, Sweeping, Complete
    <2>3. Leftovers' BY SMT DEF Reached, Leftovers, InApply, Complete
    <2>4. Sweeping'  BY SMT DEF Reached, Leftovers, Sweeping, InApply, Complete
    <2>5. InApply'   BY SMT DEF Reached, Leftovers, Sweeping, InApply, Complete
    <2> QED
        BY <2>1, <2>2, <2>3, <2>4, <2>5
<1>5. CASE RecordRecovered
    <2> USE <1>5 DEF RecordRecovered
    <2>1. TypeOK'    BY SMT DEF Reached, InApply, Sweeping, Complete
    <2>2. Reached'   BY SMT DEF Reached, InApply, Sweeping, Complete
    <2>3. Leftovers' BY SMT DEF Reached, Leftovers, InApply, Complete
    <2>4. Sweeping'  BY SMT DEF Reached, Leftovers, Sweeping, InApply, Complete
    <2>5. InApply'   BY SMT DEF Reached, Leftovers, Sweeping, InApply, Complete
    <2> QED
        BY <2>1, <2>2, <2>3, <2>4, <2>5
<1> QED
    BY <1>1, <1>2, <1>3, <1>4, <1>5

\* What recovery sweeps lies past the generation it recovered.
LEMMA SweepStep ==
    ASSUME IInv, SweepFinal \/ SweepStaging
    PROVE  IInv'
<1> USE MaxGenerationsAssumption DEF IInv, TypeOK, Applying, Unwinding, Gens, next
<1>1. CASE SweepFinal
    <2> USE <1>1 DEF SweepFinal, Swept
    <2>1. TypeOK'    BY SMT DEF Reached, InApply, Sweeping, Complete
    <2>2. Reached'   BY SMT DEF Reached, InApply, Sweeping, Complete
    <2>3. Leftovers' BY SMT DEF Reached, Leftovers, InApply, Complete
    <2>4. Sweeping'  BY SMT DEF Reached, Leftovers, Sweeping, InApply, Complete
    <2>5. InApply'   BY SMT DEF Reached, Leftovers, Sweeping, InApply, Complete
    <2> QED
        BY <2>1, <2>2, <2>3, <2>4, <2>5
<1>2. CASE SweepStaging
    <2> USE <1>2 DEF SweepStaging, Swept
    <2>1. TypeOK'    BY SMT DEF Reached, InApply, Sweeping, Complete
    <2>2. Reached'   BY SMT DEF Reached, InApply, Sweeping, Complete
    <2>3. Leftovers' BY SMT DEF Reached, Leftovers, InApply, Complete
    <2>4. Sweeping'  BY SMT DEF Reached, Leftovers, Sweeping, InApply, Complete
    <2>5. InApply'   BY SMT DEF Reached, Leftovers, Sweeping, InApply, Complete
    <2> QED
        BY <2>1, <2>2, <2>3, <2>4, <2>5
<1> QED
    BY <1>1, <1>2

\* Every step of apply touches the successor only.
LEMMA ApplyStep ==
    ASSUME IInv, BeginApply \/ CopyGeneration \/ ApplyFilePatches \/ RenameStaging \/ CreateManifest \/ FillManifest \/ LeaveTry \/ Return
    PROVE  IInv'
<1> USE MaxGenerationsAssumption DEF IInv, TypeOK, Applying, Unwinding, Gens, next
<1>1. CASE BeginApply
    <2> USE <1>1 DEF BeginApply, Recorded, WithinLimit, Swept
    <2>1. TypeOK'    BY SMT DEF Reached, InApply, Sweeping, Complete
    <2>2. Reached'   BY SMT DEF Reached, InApply, Sweeping, Complete
    <2>3. Leftovers' BY SMT DEF Reached, Leftovers, InApply, Complete
    <2>4. Sweeping'  BY SMT DEF Reached, Leftovers, Sweeping, InApply, Complete
    <2>5. InApply'   BY SMT DEF Reached, Leftovers, Sweeping, InApply, Complete
    <2> QED
        BY <2>1, <2>2, <2>3, <2>4, <2>5
<1>2. CASE CopyGeneration
    <2> USE <1>2 DEF CopyGeneration
    <2>0. staging' = {next}
        BY Zenon DEF InApply, CopyGeneration
    <2>1. TypeOK'    BY SMT DEF Reached, InApply, Sweeping, Complete
    <2>2. Reached'   BY SMT DEF Reached, InApply, Sweeping, Complete
    <2>3. Leftovers' BY SMT DEF Reached, Leftovers, InApply, Complete
    <2>4. Sweeping'  BY SMT DEF Reached, Leftovers, Sweeping, InApply, Complete
    <2>5. InApply'   BY <2>0, SMT DEF Reached, Leftovers, Sweeping, InApply, Complete
    <2> QED
        BY <2>1, <2>2, <2>3, <2>4, <2>5
<1>3. CASE ApplyFilePatches
    <2> USE <1>3 DEF ApplyFilePatches
    <2>1. TypeOK'    BY SMT DEF Reached, InApply, Sweeping, Complete
    <2>2. Reached'   BY SMT DEF Reached, InApply, Sweeping, Complete
    <2>3. Leftovers' BY SMT DEF Reached, Leftovers, InApply, Complete
    <2>4. Sweeping'  BY SMT DEF Reached, Leftovers, Sweeping, InApply, Complete
    <2>5. InApply'   BY SMT DEF Reached, Leftovers, Sweeping, InApply, Complete
    <2> QED
        BY <2>1, <2>2, <2>3, <2>4, <2>5
<1>4. CASE RenameStaging
    <2> USE <1>4 DEF RenameStaging
    <2>1. TypeOK'    BY SMT DEF Reached, InApply, Sweeping, Complete
    <2>2. Reached'   BY SMT DEF Reached, InApply, Sweeping, Complete
    <2>3. Leftovers' BY SMT DEF Reached, Leftovers, InApply, Complete
    <2>4. Sweeping'  BY SMT DEF Reached, Leftovers, Sweeping, InApply, Complete
    <2>5. InApply'   BY SMT DEF Reached, Leftovers, Sweeping, InApply, Complete
    <2> QED
        BY <2>1, <2>2, <2>3, <2>4, <2>5
<1>5. CASE CreateManifest
    <2> USE <1>5 DEF CreateManifest
    <2>1. TypeOK'    BY SMT DEF Reached, InApply, Sweeping, Complete
    <2>2. Reached'   BY SMT DEF Reached, InApply, Sweeping, Complete
    <2>3. Leftovers' BY SMT DEF Reached, Leftovers, InApply, Complete
    <2>4. Sweeping'  BY SMT DEF Reached, Leftovers, Sweeping, InApply, Complete
    <2>5. InApply'   BY SMT DEF Reached, Leftovers, Sweeping, InApply, Complete
    <2> QED
        BY <2>1, <2>2, <2>3, <2>4, <2>5
<1>6. CASE FillManifest
    <2> USE <1>6 DEF FillManifest
    <2>1. TypeOK'    BY SMT DEF Reached, InApply, Sweeping, Complete
    <2>2. Reached'   BY SMT DEF Reached, InApply, Sweeping, Complete
    <2>3. Leftovers' BY SMT DEF Reached, Leftovers, InApply, Complete
    <2>4. Sweeping'  BY SMT DEF Reached, Leftovers, Sweeping, InApply, Complete
    <2>5. InApply'   BY SMT DEF Reached, Leftovers, Sweeping, InApply, Complete
    <2> QED
        BY <2>1, <2>2, <2>3, <2>4, <2>5
<1>7. CASE LeaveTry
    <2> USE <1>7 DEF LeaveTry
    <2>1. TypeOK'    BY SMT DEF Reached, InApply, Sweeping, Complete
    <2>2. Reached'   BY SMT DEF Reached, InApply, Sweeping, Complete
    <2>3. Leftovers' BY SMT DEF Reached, Leftovers, InApply, Complete
    <2>4. Sweeping'  BY SMT DEF Reached, Leftovers, Sweeping, InApply, Complete
    <2>5. InApply'   BY SMT DEF Reached, Leftovers, Sweeping, InApply, Complete
    <2> QED
        BY <2>1, <2>2, <2>3, <2>4, <2>5
<1>8. CASE Return
    <2> USE <1>8 DEF Return
    <2>1. TypeOK'    BY SMT DEF Reached, InApply, Sweeping, Complete
    <2>2. Reached'   BY SMT DEF Reached, InApply, Sweeping, Complete
    <2>3. Leftovers' BY SMT DEF Reached, Leftovers, InApply, Complete
    <2>4. Sweeping'  BY SMT DEF Reached, Leftovers, Sweeping, InApply, Complete
    <2>5. InApply'   BY SMT DEF Reached, Leftovers, Sweeping, InApply, Complete
    <2> QED
        BY <2>1, <2>2, <2>3, <2>4, <2>5
<1> QED
    BY <1>1, <1>2, <1>3, <1>4, <1>5, <1>6, <1>7, <1>8

\* Unwinding removes the successor only, whatever step it starts from.
LEMMA FailureStep ==
    ASSUME IInv, Interrupt \/ UnwindManifest \/ UnwindStaging \/ UnwindFinal \/ Kill
    PROVE  IInv'
<1> USE MaxGenerationsAssumption DEF IInv, TypeOK, Applying, Unwinding, Gens, next
<1>1. CASE Interrupt
    <2> USE <1>1 DEF Interrupt, UnwindFrom
    <2>1. TypeOK'    BY SMT DEF Reached, InApply, Sweeping, Complete
    <2>2. Reached'   BY SMT DEF Reached, InApply, Sweeping, Complete
    <2>3. Leftovers' BY SMT DEF Reached, Leftovers, InApply, Complete
    <2>4. Sweeping'  BY SMT DEF Reached, Leftovers, Sweeping, InApply, Complete
    <2>5. InApply'   BY SMT DEF Reached, Leftovers, Sweeping, InApply, Complete
    <2> QED
        BY <2>1, <2>2, <2>3, <2>4, <2>5
<1>2. CASE UnwindManifest
    <2> USE <1>2 DEF UnwindManifest
    <2>1. TypeOK'    BY SMT DEF Reached, InApply, Sweeping, Complete
    <2>2. Reached'   BY SMT DEF Reached, InApply, Sweeping, Complete
    <2>3. Leftovers' BY SMT DEF Reached, Leftovers, InApply, Complete
    <2>4. Sweeping'  BY SMT DEF Reached, Leftovers, Sweeping, InApply, Complete
    <2>5. InApply'   BY SMT DEF Reached, Leftovers, Sweeping, InApply, Complete
    <2> QED
        BY <2>1, <2>2, <2>3, <2>4, <2>5
<1>3. CASE UnwindStaging
    <2> USE <1>3 DEF UnwindStaging, Swept
    <2>1. TypeOK'    BY SMT DEF Reached, InApply, Sweeping, Complete
    <2>2. Reached'   BY SMT DEF Reached, InApply, Sweeping, Complete
    <2>3. Leftovers' BY SMT DEF Reached, Leftovers, InApply, Complete
    <2>4. Sweeping'  BY SMT DEF Reached, Leftovers, Sweeping, InApply, Complete
    <2>5. InApply'   BY SMT DEF Reached, Leftovers, Sweeping, InApply, Complete
    <2> QED
        BY <2>1, <2>2, <2>3, <2>4, <2>5
<1>4. CASE UnwindFinal
    <2> USE <1>4 DEF UnwindFinal, Swept
    <2>1. TypeOK'    BY SMT DEF Reached, InApply, Sweeping, Complete
    <2>2. Reached'   BY SMT DEF Reached, InApply, Sweeping, Complete
    <2>3. Leftovers' BY SMT DEF Reached, Leftovers, InApply, Complete
    <2>4. Sweeping'  BY SMT DEF Reached, Leftovers, Sweeping, InApply, Complete
    <2>5. InApply'   BY SMT DEF Reached, Leftovers, Sweeping, InApply, Complete
    <2> QED
        BY <2>1, <2>2, <2>3, <2>4, <2>5
<1>5. CASE Kill
    <2> USE <1>5 DEF Kill
    <2>1. TypeOK'    BY SMT DEF Reached, InApply, Sweeping, Complete
    <2>2. Reached'   BY SMT DEF Reached, InApply, Sweeping, Complete
    <2>3. Leftovers' BY SMT DEF Reached, Leftovers, InApply, Complete
    <2>4. Sweeping'  BY SMT DEF Reached, Leftovers, Sweeping, InApply, Complete
    <2>5. InApply'   BY SMT DEF Reached, Leftovers, Sweeping, InApply, Complete
    <2> QED
        BY <2>1, <2>2, <2>3, <2>4, <2>5
<1> QED
    BY <1>1, <1>2, <1>3, <1>4, <1>5

LEMMA NextIInv == IInv /\ [Next]_vars => IInv'
<1> SUFFICES ASSUME IInv, [Next]_vars PROVE IInv'
    OBVIOUS
<1>1. CASE UNCHANGED vars
    BY <1>1 DEF vars, IInv, TypeOK, Reached, Leftovers, Sweeping, InApply, Complete, next
<1>2. CASE Next
    BY <1>2, RecoveryStep, SweepStep, ApplyStep, FailureStep DEF Next
<1> QED
    BY <1>1, <1>2

THEOREM Invariance == Spec => []IInv
BY InitIInv, NextIInv, PTL DEF Spec

-----------------------------------------------------------------------------

\* The state stays within its types, for every generation limit.
THEOREM TypeCorrect == Spec => []TypeOK
<1>1. IInv => TypeOK
    BY DEF IInv
<1> QED
    BY <1>1, Invariance, PTL

\* No crash, interruption or sweep costs a task a generation it acknowledged
\* or one that a running session works on.
THEOREM AcknowledgedGenerationsSurvive == Spec => []AcknowledgedSurvive
<1>1. IInv => AcknowledgedSurvive
    BY SMT DEF IInv, Reached, AcknowledgedSurvive
<1> QED
    BY <1>1, Invariance, PTL

\* Recovery has at most one generation to adopt.
THEOREM RecordLagsByOne == Spec => []AtMostOneAhead
<1>1. IInv => AtMostOneAhead
    BY SMT DEF IInv, Leftovers, AtMostOneAhead, Complete
<1> QED
    BY <1>1, Invariance, PTL

\* A session that is ready to apply a patch finds no trace of an earlier
\* attempt, however that attempt ended.
THEOREM AttemptsDoNotLeak == Spec => []ReadyIsClean
<1>1. ASSUME IInv, pc = "ready" PROVE dirs = 0 .. current
    <2> USE <1>1, MaxGenerationsAssumption DEF IInv, TypeOK, Gens
    <2>1. ASSUME NEW g \in dirs PROVE g \in 0 .. current
        <3>1. g \in Nat /\ g <= recorded + 1 /\ g # next
            BY SMT DEF Leftovers, Sweeping
        <3>2. current \in {recorded, recorded + 1}
            BY SMT DEF Reached
        <3> QED
            BY <3>1, <3>2, SMT DEF next
    <2>2. ASSUME NEW g \in 0 .. current PROVE g \in dirs
        BY SMT DEF Reached, Complete
    <2> QED
        BY <2>1, <2>2, Zenon
<1>2. IInv => ReadyIsClean
    BY <1>1, SMT DEF IInv, Sweeping, ReadyIsClean
<1> QED
    BY <1>2, Invariance, PTL

-----------------------------------------------------------------------------
(* The refinement.  A step of the file system publishes when it completes  *)
(* the manifest, takes back when it removes the directory of an interrupted*)
(* attempt, and acknowledges when the record moves; no other step is seen. *)

LEMMA InitPublication == Init => Publication!Init
BY MaxGenerationsAssumption, SMT DEF Init, Publication!Init, Complete, Gens

LEMMA RecoveryPublication ==
    ASSUME IInv, Start \/ Adopt \/ Refuse \/ WalkEnds \/ SweepFinal \/ SweepStaging
    PROVE  UNCHANGED Publication!pubVars
BY MaxGenerationsAssumption, SMT
   DEF Start, Adopt, Refuse, WalkEnds, SweepFinal, SweepStaging, Swept, Publication!pubVars,
       IInv, TypeOK, Reached, Leftovers, Sweeping, Complete, Gens, next

LEMMA RecordPublication ==
    ASSUME IInv, RecordRecovered \/ Return
    PROVE  Publication!Acknowledge
BY MaxGenerationsAssumption, SMT
   DEF RecordRecovered, Return, Publication!Acknowledge, Applying, Unwinding,
       IInv, TypeOK, Reached, Leftovers, Sweeping, InApply, Complete, Gens, next

LEMMA ApplyPublication ==
    ASSUME IInv,
           \/ BeginApply \/ CopyGeneration \/ ApplyFilePatches \/ RenameStaging
           \/ CreateManifest \/ FillManifest \/ LeaveTry
    PROVE  [Publication!Next]_(Publication!pubVars)
<1> USE MaxGenerationsAssumption
    DEF IInv, TypeOK, Reached, Leftovers, InApply, Complete, Gens, next, Applying,
        Unwinding, Publication!pubVars
<1>1. CASE BeginApply
    BY <1>1, SMT DEF BeginApply, Recorded, WithinLimit, Swept
<1>2. CASE CopyGeneration \/ ApplyFilePatches \/ LeaveTry
    BY <1>2, SMT DEF CopyGeneration, ApplyFilePatches, LeaveTry
<1>3. CASE RenameStaging \/ CreateManifest
    BY <1>3, SMT DEF RenameStaging, CreateManifest
<1>4. CASE FillManifest
    <2>1. Publication!Publish
        BY <1>4, SMT DEF FillManifest, Publication!Publish
    <2> QED
        BY <2>1 DEF Publication!Next
<1> QED
    BY <1>1, <1>2, <1>3, <1>4

LEMMA FailurePublication ==
    ASSUME IInv, Interrupt \/ UnwindManifest \/ UnwindStaging \/ UnwindFinal \/ Kill
    PROVE  [Publication!Next]_(Publication!pubVars)
<1> USE MaxGenerationsAssumption
    DEF IInv, TypeOK, Reached, Leftovers, InApply, Complete, Gens, next, Applying,
        Unwinding, Publication!pubVars
<1>1. CASE Interrupt \/ UnwindStaging \/ Kill
    BY <1>1, SMT DEF Interrupt, UnwindStaging, Kill
<1>2. CASE UnwindManifest
    BY <1>2, SMT DEF UnwindManifest
<1>3. CASE UnwindFinal
    <2>1. CASE Complete(next)
        <3>1. Publication!TakeBack
            BY <1>3, <2>1, SMT DEF UnwindFinal, Swept, Publication!TakeBack
        <3> QED
            BY <3>1 DEF Publication!Next
    <2>2. CASE ~Complete(next)
        BY <1>3, <2>2, SMT DEF UnwindFinal, Swept
    <2> QED
        BY <2>1, <2>2
<1> QED
    BY <1>1, <1>2, <1>3

LEMMA StepPublication == IInv /\ [Next]_vars => [Publication!Next]_(Publication!pubVars)
<1> SUFFICES ASSUME IInv, [Next]_vars PROVE [Publication!Next]_(Publication!pubVars)
    OBVIOUS
<1>1. CASE UNCHANGED vars
    BY <1>1 DEF vars, Publication!pubVars, Complete
<1>2. CASE Next
    BY <1>2, RecoveryPublication, RecordPublication, ApplyPublication, FailurePublication
       DEF Next, Publication!Next
<1> QED
    BY <1>1, <1>2

\* Staging, renaming, manifests and recovery implement atomic publication,
\* for every generation limit.
THEOREM PublicationImplemented == Spec => ImplementsPublication
<1>1. Spec => Publication!Spec
    BY InitPublication, StepPublication, Invariance, PTL DEF Spec, Publication!Spec
<1> QED
    BY <1>1 DEF ImplementsPublication
=============================================================================
