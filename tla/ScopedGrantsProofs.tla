-------------------------- MODULE ScopedGrantsProofs --------------------------
(* Proofs about the approval grants of one task, for any identifiers,      *)
(* recipes, limits and lifetimes.                                          *)
EXTENDS ScopedGrants, FiniteSetTheorems, TLAPS

(***************************************************************************)
(* Type correctness, with the fact that the controller consumes a grant it *)
(* has chosen.                                                             *)
(***************************************************************************)
HasChosen == pc \in {"existing", "issued", "granted"} => chosen \in GrantIds
TypeInv == TypeOK /\ HasChosen

\* A task starts without grants.
LEMMA InitTypeInv == Init => TypeInv
    BY DEF Init, TypeInv, TypeOK, HasChosen

\* Every operation of the store and every step of the controller keeps the
\* types.
LEMMA NextTypeInv == TypeInv /\ [Next]_vars => TypeInv'
<1> SUFFICES ASSUME TypeInv, [Next]_vars PROVE TypeInv'
    OBVIOUS
<1> USE DEF TypeInv, TypeOK, HasChosen
<1>1. ASSUME NEW r \in Recipes \cup {NoRecipe}, Restart(r)
      PROVE  TypeInv'
    <2>1. records' \in [GrantIds -> Records \cup {None}]
        BY <1>1 DEF Restart, Without
    <2>2. withdrawn' \subseteq GrantIds
        BY <1>1 DEF Restart, RecipeRecords
    <2> QED BY <1>1, <2>1, <2>2 DEF Restart
<1>2. ASSUME NEW req \in Requests, Propose(req)
      PROVE  TypeInv'
    <2>1. CASE req.recipe \in Recipes /\ recipeGrants[req.recipe] # None
        BY <1>2, <2>1 DEF Propose
    <2>2. CASE ~(req.recipe \in Recipes /\ recipeGrants[req.recipe] # None)
        BY <1>2, <2>2 DEF Propose
    <2> QED BY <2>1, <2>2
<1>3. CASE Deny
    BY <1>3 DEF Deny
<1>4. ASSUME NEW g \in GrantIds, NEW scope \in ActionIds \cup Recipes, Approve(g, scope)
      PROVE  TypeInv'
    <2>1. now + Ttl \in Nat
        BY ConstantsAssumption
    <2>2. [scope |-> scope, expires |-> now + Ttl, ids |-> {}] \in Records
        BY <2>1 DEF Records
    <2>3. records' \in [GrantIds -> Records \cup {None}]
        BY <1>4, <2>2 DEF Approve
    <2>4. recipeGrants' \in [Recipes -> GrantIds \cup {None}]
        BY <1>4 DEF Approve
    <2> QED BY <1>4, <2>3, <2>4 DEF Approve
<1>5. CASE Consume
    <2>1. chosen \in GrantIds /\ records[chosen] \in Records
        BY <1>5 DEF Consume, Consumable, Usable
    <2>2. request.id \in ActionIds
        BY DEF Requests
    <2>3. Consumed(records[chosen], request.id) \in Records
        BY <2>1, <2>2 DEF Consumed, Records
    <2>4. records' \in [GrantIds -> Records \cup {None}]
        BY <1>5, <2>3 DEF Consume
    <2> QED BY <1>5, <2>1, <2>4 DEF Consume
<1>6. CASE Reject
    <2>1. recipeGrants' \in [Recipes -> GrantIds \cup {None}]
        BY <1>6 DEF Reject
    <2> QED BY <1>6, <2>1 DEF Reject
<1>7. CASE Perform
    <2>1. chosen \in GrantIds /\ request.id \in ActionIds
        BY <1>7 DEF Perform, Requests
    <2>2. Append(history[chosen], request.id) \in Seq(ActionIds)
        BY <2>1
    <2>3. history' = [history EXCEPT ![chosen] = Append(history[chosen], request.id)]
        BY <1>7 DEF Perform
    <2>4. history' \in [GrantIds -> Seq(ActionIds)]
        BY <2>2, <2>3
    <2> QED BY <1>7, <2>4 DEF Perform
<1>8. CASE Crash
    BY <1>8 DEF Crash
<1>9. CASE Tick
    BY <1>9 DEF Tick
<1>10. CASE UNCHANGED vars
    BY <1>10 DEF vars
<1> QED
    BY <1>1, <1>2, <1>3, <1>4, <1>5, <1>6, <1>7, <1>8, <1>9, <1>10 DEF Next

\* Every reachable state of the store and its controller is well typed.
THEOREM TypeCorrect == Spec => []TypeOK
<1>1. TypeInv => TypeOK
    BY DEF TypeInv
<1> QED BY <1>1, InitTypeInv, NextTypeInv, PTL DEF Spec

(***************************************************************************)
(* No replay.  A stored grant knows every action performed on it; a grant  *)
(* that is neither stored nor withdrawn was never used; and an action that *)
(* is authorised but not yet performed is known to its grant and new to    *)
(* its history.                                                            *)
(***************************************************************************)
FreshGrantsUnused ==
    \A g \in GrantIds : records[g] = None /\ g \notin withdrawn => history[g] = <<>>
GrantedIsNew ==
    pc = "granted" =>
        /\ records[chosen] # None
        /\ request.id \in records[chosen].ids
        /\ request.id \notin PerformedIds(chosen)
UseInv == UsesAreDurable /\ FreshGrantsUnused /\ GrantedIsNew /\ NoReplay

\* A step that neither writes the snapshot nor performs keeps what is known.
LEMMA UseInvUnchanged ==
    ASSUME UseInv, UNCHANGED <<records, history, withdrawn>>,
           pc' = "granted" => UNCHANGED <<pc, chosen, request>>
    PROVE  UseInv'
    BY DEF UseInv, UsesAreDurable, FreshGrantsUnused, GrantedIsNew, NoReplay, PerformedIds

\* Appending an identifier the history lacks keeps it free of repetitions.
LEMMA AppendDistinct ==
    ASSUME NEW h \in Seq(ActionIds), NEW a \in ActionIds,
           \A i, j \in DOMAIN h : h[i] = h[j] => i = j,
           \A i \in DOMAIN h : h[i] # a
    PROVE  LET k == Append(h, a)
           IN  /\ \A i, j \in DOMAIN k : k[i] = k[j] => i = j
               /\ {k[i] : i \in DOMAIN k} = {h[i] : i \in DOMAIN h} \cup {a}
<1> DEFINE k == Append(h, a)
<1>1. /\ DOMAIN h = 1 .. Len(h) /\ Len(h) \in Nat
      /\ DOMAIN k = 1 .. (Len(h) + 1)
      /\ k[Len(h) + 1] = a
      /\ \A i \in 1 .. Len(h) : k[i] = h[i]
    OBVIOUS
<1> HIDE DEF k
<1>2. \A i, j \in DOMAIN k : k[i] = k[j] => i = j
    BY <1>1
<1>3. {k[i] : i \in DOMAIN k} = {h[i] : i \in DOMAIN h} \cup {a}
    BY <1>1
<1> QED BY <1>2, <1>3 DEF k

\* Every step keeps the histories free of repetitions.
LEMMA NextUseInv == TypeInv /\ UseInv /\ [Next]_vars => UseInv'
<1> SUFFICES ASSUME TypeInv, UseInv, [Next]_vars PROVE UseInv'
    OBVIOUS
<1>1. ASSUME NEW r \in Recipes \cup {NoRecipe}, Restart(r)
      PROVE  UseInv'
    <2>1. /\ history' = history /\ pc' = "ready" /\ withdrawn \subseteq withdrawn'
          /\ \A g \in GrantIds : \/ records'[g] = records[g]
                                 \/ records'[g] = None /\ g \in withdrawn'
        BY <1>1 DEF Restart, Without, RecipeRecords, TypeInv, TypeOK
    <2> QED BY <2>1 DEF UseInv, UsesAreDurable, FreshGrantsUnused, GrantedIsNew, NoReplay,
                        PerformedIds
<1>2. ASSUME NEW g \in GrantIds, NEW scope \in ActionIds \cup Recipes, Approve(g, scope)
      PROVE  UseInv'
    <2>1. /\ history' = history /\ withdrawn' = withdrawn /\ pc' = "issued"
          /\ records' = [records EXCEPT ![g] =
                            [scope |-> scope, expires |-> now + Ttl, ids |-> {}]]
          /\ records[g] = None /\ g \notin withdrawn
        BY <1>2 DEF Approve
    <2>2. history[g] = <<>>
        BY <2>1 DEF UseInv, FreshGrantsUnused
    <2>3. PerformedIds(g)' = {}
        BY <2>1, <2>2 DEF PerformedIds
    <2>4. UsesAreDurable'
        <3> SUFFICES ASSUME NEW h \in GrantIds, records'[h] # None
                     PROVE  PerformedIds(h)' \subseteq records'[h].ids
            BY DEF UsesAreDurable
        <3>1. CASE h = g
            BY <3>1, <2>3
        <3>2. CASE h # g
            BY <3>2, <2>1 DEF UseInv, UsesAreDurable, PerformedIds, TypeInv, TypeOK
        <3> QED BY <3>1, <3>2
    <2>5. FreshGrantsUnused'
        BY <2>1, <2>2 DEF UseInv, FreshGrantsUnused, TypeInv, TypeOK
    <2> QED BY <2>1, <2>4, <2>5 DEF UseInv, GrantedIsNew, NoReplay
<1>3. CASE Consume
    <2>1. /\ chosen \in GrantIds /\ records[chosen] \in Records /\ records[chosen] # None
          /\ request.id \notin records[chosen].ids
          /\ UNCHANGED <<history, withdrawn, chosen, request>>
          /\ records' = [records EXCEPT ![chosen] = Consumed(records[chosen], request.id)]
        BY <1>3 DEF Consume, Consumable, Usable, TypeInv, TypeOK, HasChosen
    <2>2. Consumed(records[chosen], request.id).ids = records[chosen].ids \cup {request.id}
        BY <2>1 DEF Consumed, Records
    <2>3. Consumed(records[chosen], request.id) # None
        <3>1. Consumed(records[chosen], request.id) \in Records
            BY <2>1 DEF Consumed, Records, TypeInv, TypeOK, Requests
        <3> QED BY <3>1, NoneAssumption
    <2>4. UsesAreDurable'
        BY <2>1, <2>2 DEF UseInv, UsesAreDurable, PerformedIds, TypeInv, TypeOK
    <2>5. FreshGrantsUnused'
        BY <2>1, <2>3 DEF UseInv, FreshGrantsUnused, TypeInv, TypeOK
    <2>6. GrantedIsNew'
        BY <2>1, <2>2, <2>3 DEF UseInv, UsesAreDurable, GrantedIsNew, PerformedIds, TypeInv,
                                TypeOK
    <2> QED BY <2>1, <2>4, <2>5, <2>6 DEF UseInv, NoReplay
<1>4. CASE Perform
    <2> DEFINE h == history[chosen]
               a == request.id
    <2>1. /\ chosen \in GrantIds /\ h \in Seq(ActionIds) /\ a \in ActionIds
          /\ records[chosen] # None /\ a \in records[chosen].ids
          /\ \A i \in DOMAIN h : h[i] # a
          /\ \A i, j \in DOMAIN h : h[i] = h[j] => i = j
        BY <1>4 DEF Perform, UseInv, GrantedIsNew, NoReplay, PerformedIds, TypeInv, TypeOK,
                    HasChosen, Requests
    <2>2. /\ history' = [history EXCEPT ![chosen] = Append(h, a)]
          /\ UNCHANGED <<records, withdrawn>> /\ pc' = "ready"
        BY <1>4 DEF Perform
    <2>3. /\ history'[chosen] = Append(h, a)
          /\ \A g \in GrantIds \ {chosen} : history'[g] = history[g]
        BY <2>1, <2>2 DEF TypeInv, TypeOK
    <2>4. /\ \A i, j \in DOMAIN history'[chosen] :
                history'[chosen][i] = history'[chosen][j] => i = j
          /\ {history'[chosen][i] : i \in DOMAIN history'[chosen]}
                = {h[i] : i \in DOMAIN h} \cup {a}
        BY <2>1, <2>3, AppendDistinct
    <2> HIDE DEF h, a
    <2>5. NoReplay'
        BY <2>3, <2>4 DEF UseInv, NoReplay
    <2>6. UsesAreDurable'
        <3> SUFFICES ASSUME NEW g \in GrantIds, records[g] # None
                     PROVE  {history'[g][i] : i \in DOMAIN history'[g]} \subseteq records[g].ids
            BY <2>2 DEF UsesAreDurable, PerformedIds
        <3>1. CASE g = chosen
            <4>1. PerformedIds(chosen) \subseteq records[chosen].ids
                BY <3>1 DEF UseInv, UsesAreDurable
            <4>2. {h[i] : i \in DOMAIN h} \subseteq records[chosen].ids
                BY <4>1 DEF PerformedIds, h
            <4>3. {h[i] : i \in DOMAIN h} \cup {a} \subseteq records[chosen].ids
                BY <4>2, <2>1
            <4>4. {history'[chosen][i] : i \in DOMAIN history'[chosen]}
                      \subseteq records[chosen].ids
                BY <4>3, <2>4
            <4> QED BY <3>1, <4>4
        <3>2. CASE g # chosen
            BY <3>2, <2>3 DEF UseInv, UsesAreDurable, PerformedIds
        <3> QED BY <3>1, <3>2
    <2>7. FreshGrantsUnused'
        BY <2>1, <2>2, <2>3 DEF UseInv, FreshGrantsUnused
    <2> QED BY <2>2, <2>5, <2>6, <2>7 DEF UseInv, GrantedIsNew
<1>5. ASSUME NEW req \in Requests, Propose(req)
      PROVE  UseInv'
    BY <1>5, UseInvUnchanged DEF Propose
<1>6. CASE Deny
    BY <1>6, UseInvUnchanged DEF Deny
<1>7. CASE Reject
    BY <1>7, UseInvUnchanged DEF Reject
<1>8. CASE Crash
    BY <1>8, UseInvUnchanged DEF Crash
<1>9. CASE Tick
    BY <1>9, UseInvUnchanged DEF Tick
<1>10. CASE UNCHANGED vars
    BY <1>10, UseInvUnchanged DEF vars
<1> QED
    BY <1>1, <1>2, <1>3, <1>4, <1>5, <1>6, <1>7, <1>8, <1>9, <1>10 DEF Next

\* The invariant holds from the start of the task on.
LEMMA UseInvariant == Spec => [](TypeInv /\ UseInv)
<1>1. Init => UseInv
    BY DEF Init, UseInv, UsesAreDurable, FreshGrantsUnused, GrantedIsNew, NoReplay, PerformedIds
<1> QED BY <1>1, InitTypeInv, NextTypeInv, NextUseInv, PTL DEF Spec

\* No grant pays twice for one action identifier.
THEOREM GrantsAreNotReplayed == Spec => []NoReplay
<1>1. UseInv => NoReplay
    BY DEF UseInv
<1> QED BY <1>1, UseInvariant, PTL

\* Every use of a stored grant is on disk before its action is performed.
THEOREM GrantUsesAreDurable == Spec => []UsesAreDurable
<1>1. UseInv => UsesAreDurable
    BY DEF UseInv
<1> QED BY <1>1, UseInvariant, PTL

(***************************************************************************)
(* The store implements BoundedCapability.  A stored grant has at least as *)
(* many uses on disk as actions were performed on it, and one more while   *)
(* an action is authorised and not yet performed.                          *)
(***************************************************************************)
WithdrawnGone == \A g \in withdrawn : records[g] = None
IdsFinite == \A g \in GrantIds : records[g] # None => IsFiniteSet(records[g].ids)
PaidFirst ==
    /\ \A g \in GrantIds :
           records[g] # None => Len(history[g]) <= Cardinality(records[g].ids)
    /\ pc = "granted" => Len(history[chosen]) < Cardinality(records[chosen].ids)
PaidInv == WithdrawnGone /\ IdsFinite /\ PaidFirst

\* The step that pays writes one use more than there were.
LEMMA ConsumeCounts ==
    ASSUME TypeInv, PaidInv, Consume
    PROVE  LET n == Cardinality(records[chosen].ids)
           IN  /\ chosen \in GrantIds /\ records[chosen] # None /\ n \in Nat /\ n < MaxUses
               /\ records'[chosen] # None
               /\ IsFiniteSet(records'[chosen].ids)
               /\ Cardinality(records'[chosen].ids) = n + 1
               /\ \A g \in GrantIds \ {chosen} : records'[g] = records[g]
<1> DEFINE rec == records[chosen]
           a == request.id
<1>1. /\ chosen \in GrantIds /\ rec \in Records /\ rec # None /\ a \notin rec.ids
      /\ Cardinality(rec.ids) < Limit(rec)
      /\ records' = [records EXCEPT ![chosen] = Consumed(rec, a)]
    BY DEF Consume, Consumable, Usable, TypeInv, TypeOK, HasChosen
<1>2. IsFiniteSet(rec.ids) /\ Cardinality(rec.ids) \in Nat
    BY <1>1, FS_CardinalityType DEF PaidInv, IdsFinite
<1>3. Limit(rec) <= MaxUses /\ Limit(rec) \in Nat
    BY ConstantsAssumption DEF Limit
<1>4. records'[chosen] = Consumed(rec, a)
    BY <1>1 DEF TypeInv, TypeOK
<1>5. Consumed(rec, a).ids = rec.ids \cup {a}
    BY <1>1 DEF Consumed, Records
<1>6. IsFiniteSet(rec.ids \cup {a}) /\ Cardinality(rec.ids \cup {a}) = Cardinality(rec.ids) + 1
    BY <1>1, <1>2, FS_AddElement
<1>7. Consumed(rec, a) # None
    <2>1. Consumed(rec, a) \in Records
        BY <1>1 DEF Consumed, Records, TypeInv, TypeOK, Requests
    <2> QED BY <2>1, NoneAssumption
<1>8. \A g \in GrantIds \ {chosen} : records'[g] = records[g]
    BY <1>1 DEF TypeInv, TypeOK
<1>9. Cardinality(rec.ids) < MaxUses
    BY <1>1, <1>2, <1>3, ConstantsAssumption
<1> HIDE DEF a
<1> QED BY <1>1, <1>2, <1>4, <1>5, <1>6, <1>7, <1>8, <1>9

\* The step that performs makes the history of its grant one longer.
LEMMA PerformCounts ==
    ASSUME TypeInv, Perform
    PROVE  /\ chosen \in GrantIds /\ Len(history[chosen]) \in Nat
           /\ Len(history'[chosen]) = Len(history[chosen]) + 1
           /\ \A g \in GrantIds \ {chosen} : history'[g] = history[g]
           /\ UNCHANGED <<records, withdrawn>> /\ pc = "granted" /\ pc' = "ready"
<1>1. /\ chosen \in GrantIds /\ request.id \in ActionIds /\ history[chosen] \in Seq(ActionIds)
      /\ history' = [history EXCEPT ![chosen] = Append(history[chosen], request.id)]
    BY DEF Perform, TypeInv, TypeOK, HasChosen, Requests
<1>2. history'[chosen] = Append(history[chosen], request.id)
    BY <1>1 DEF TypeInv, TypeOK
<1>3. \A g \in GrantIds \ {chosen} : history'[g] = history[g]
    BY <1>1 DEF TypeInv, TypeOK
<1> QED BY <1>1, <1>2, <1>3 DEF Perform

\* A step that neither writes the snapshot nor performs keeps the counts.
LEMMA PaidInvUnchanged ==
    ASSUME PaidInv, UNCHANGED <<records, history, withdrawn>>,
           pc' = "granted" => UNCHANGED <<pc, chosen>>
    PROVE  PaidInv'
    BY DEF PaidInv, WithdrawnGone, IdsFinite, PaidFirst

\* Every step keeps performed actions paid for.
LEMMA NextPaidInv == TypeInv /\ UseInv /\ PaidInv /\ [Next]_vars => PaidInv'
<1> SUFFICES ASSUME TypeInv, UseInv, PaidInv, [Next]_vars PROVE PaidInv'
    OBVIOUS
<1>1. ASSUME NEW r \in Recipes \cup {NoRecipe}, Restart(r)
      PROVE  PaidInv'
    <2> DEFINE revoked == RecipeRecords(r)
    <2>1. /\ history' = history /\ pc' = "ready" /\ withdrawn' = withdrawn \cup revoked
          /\ revoked \subseteq GrantIds
          /\ \A g \in GrantIds : records'[g] = IF g \in revoked THEN None ELSE records[g]
        BY <1>1 DEF Restart, Without, RecipeRecords
    <2> HIDE DEF revoked
    <2> QED BY <2>1 DEF PaidInv, WithdrawnGone, IdsFinite, PaidFirst, TypeInv, TypeOK
<1>2. ASSUME NEW g \in GrantIds, NEW scope \in ActionIds \cup Recipes, Approve(g, scope)
      PROVE  PaidInv'
    <2>1. /\ history' = history /\ withdrawn' = withdrawn /\ pc' = "issued"
          /\ records[g] = None /\ g \notin withdrawn
          /\ records'[g].ids = {}
          /\ \A h \in GrantIds \ {g} : records'[h] = records[h]
        BY <1>2 DEF Approve, TypeInv, TypeOK
    <2>2. Len(history[g]) = 0 /\ IsFiniteSet({}) /\ Cardinality({}) = 0
        BY <2>1, FS_EmptySet DEF UseInv, FreshGrantsUnused
    <2>3. WithdrawnGone'
        BY <2>1 DEF PaidInv, WithdrawnGone, TypeInv, TypeOK
    <2>4. ASSUME NEW h \in GrantIds, records'[h] # None
          PROVE  IsFiniteSet(records'[h].ids) /\ Len(history'[h]) <= Cardinality(records'[h].ids)
        <3>1. CASE h = g
            BY <3>1, <2>1, <2>2
        <3>2. CASE h # g
            BY <3>2, <2>1, <2>4 DEF PaidInv, IdsFinite, PaidFirst
        <3> QED BY <3>1, <3>2
    <2>5. IdsFinite' /\ PaidFirst'
        BY <2>1, <2>4 DEF IdsFinite, PaidFirst
    <2> QED BY <2>3, <2>5 DEF PaidInv
<1>3. CASE Consume
    <2>1. /\ UNCHANGED <<history, withdrawn, chosen>>
          /\ \A g \in GrantIds : Len(history[g]) \in Nat
        BY <1>3 DEF Consume, TypeInv, TypeOK
    <2>2. WithdrawnGone'
        BY <1>3, <2>1, ConsumeCounts DEF PaidInv, WithdrawnGone, TypeInv, TypeOK
    <2>3. IdsFinite'
        BY <1>3, ConsumeCounts DEF PaidInv, IdsFinite
    <2>4. PaidFirst'
        BY <1>3, <2>1, ConsumeCounts DEF PaidInv, PaidFirst
    <2> QED BY <2>2, <2>3, <2>4 DEF PaidInv
<1>4. CASE Perform
    <2>1. \A g \in GrantIds : records[g] # None => Cardinality(records[g].ids) \in Nat
        BY FS_CardinalityType DEF PaidInv, IdsFinite
    <2>2. PaidFirst'
        BY <1>4, <2>1, PerformCounts DEF PaidInv, PaidFirst
    <2> QED BY <1>4, <2>2, PerformCounts DEF PaidInv, WithdrawnGone, IdsFinite
<1>5. ASSUME NEW req \in Requests, Propose(req)
      PROVE  PaidInv'
    BY <1>5, PaidInvUnchanged DEF Propose
<1>6. CASE Deny \/ Reject \/ Crash \/ Tick
    BY <1>6, PaidInvUnchanged DEF Deny, Reject, Crash, Tick
<1>7. CASE UNCHANGED vars
    BY <1>7, PaidInvUnchanged DEF vars
<1> QED
    BY <1>1, <1>2, <1>3, <1>4, <1>5, <1>6, <1>7 DEF Next

\* What the variables of the capability are in a state of the store; its clock
\* is now.
barStatus ==
    [g \in GrantIds |-> IF g \in withdrawn THEN "withdrawn"
                        ELSE IF records[g] = None THEN "unissued" ELSE "live"]
barPaid ==
    [g \in GrantIds |-> IF records[g] = None THEN Len(history[g])
                                             ELSE Cardinality(records[g].ids)]
barPerformed == [g \in GrantIds |-> Len(history[g])]
barExpiry == [g \in GrantIds |-> IF records[g] = None THEN 0 ELSE records[g].expires]

\* Steps that change none of the observed parts are stutters.
LEMMA CapabilityStutters ==
    ASSUME UNCHANGED <<now, records, history, withdrawn>>
    PROVE  UNCHANGED Capability!capVars
    BY DEF Capability!capVars

\* Approving issues a grant.
LEMMA ApproveIssues ==
    ASSUME TypeInv, UseInv, PaidInv, NEW g \in GrantIds, NEW scope, Approve(g, scope)
    PROVE  Capability!Issue(g)
<1>1. /\ history' = history /\ withdrawn' = withdrawn
      /\ records[g] = None /\ g \notin withdrawn
      /\ records'[g] = [scope |-> scope, expires |-> now + Ttl, ids |-> {}]
      /\ \A h \in GrantIds \ {g} : records'[h] = records[h]
    BY DEF Approve, TypeInv, TypeOK
<1>2. records'[g] # None
    <2>1. scope \in ActionIds \cup Recipes /\ now + Ttl \in Nat
        BY ConstantsAssumption DEF Approve, TypeInv, TypeOK, Requests
    <2>2. records'[g] \in Records
        BY <1>1, <2>1 DEF Records
    <2> QED BY <2>2, NoneAssumption
<1>3. Len(history[g]) = 0 /\ Cardinality(records'[g].ids) = 0
    BY <1>1, FS_EmptySet DEF UseInv, FreshGrantsUnused
<1>4. barStatus' = [barStatus EXCEPT ![g] = "live"] /\ barStatus[g] = "unissued"
    BY <1>1, <1>2 DEF barStatus
<1>5. barPaid' = barPaid /\ barPerformed' = barPerformed
    BY <1>1, <1>2, <1>3 DEF barPaid, barPerformed
<1>6. barExpiry' = [barExpiry EXCEPT ![g] = now + Ttl] /\ now' = now
    <2>1. barExpiry' = [h \in GrantIds |-> IF h = g THEN now + Ttl ELSE barExpiry[h]]
        <3>1. ASSUME NEW h \in GrantIds
              PROVE  (IF records'[h] = None THEN 0 ELSE records'[h].expires)
                     = IF h = g THEN now + Ttl ELSE barExpiry[h]
            BY <1>1, <1>2 DEF barExpiry
        <3> QED BY <3>1, Zenon DEF barExpiry
    <2>2. DOMAIN barExpiry = GrantIds
        BY DEF barExpiry
    <2>3. now' = now
        BY DEF Approve
    <2> QED BY <2>1, <2>2, <2>3
<1> QED BY <1>4, <1>5, <1>6
        DEF Capability!Issue, barStatus, barPaid, barPerformed, barExpiry

\* Consuming pays.
LEMMA ConsumePays ==
    ASSUME TypeInv, PaidInv, Consume
    PROVE  \E g \in GrantIds : Capability!Pay(g)
<1>1. UNCHANGED <<history, withdrawn>>
    BY DEF Consume
<1>2. barStatus' = barStatus /\ barStatus[chosen] = "live"
    BY <1>1, ConsumeCounts DEF barStatus, PaidInv, WithdrawnGone
<1>3. barPaid' = [barPaid EXCEPT ![chosen] = @ + 1] /\ barPaid[chosen] < MaxUses
    BY <1>1, ConsumeCounts DEF barPaid
<1>4. barPerformed' = barPerformed
    BY <1>1 DEF barPerformed
<1>5. PICK g \in GrantIds : g = chosen
    BY ConsumeCounts
<1>6. barExpiry' = barExpiry /\ now < barExpiry[chosen] /\ now' = now
    <2>1. /\ records[chosen] \in Records /\ now < records[chosen].expires
          /\ records'[chosen] = Consumed(records[chosen], request.id) /\ now' = now
        BY ConsumeCounts DEF Consume, Consumable, Usable, TypeInv, TypeOK
    <2>2. records'[chosen].expires = records[chosen].expires
        BY <2>1 DEF Consumed, Records
    <2> QED BY <2>1, <2>2, ConsumeCounts DEF barExpiry
<1>7. Capability!Pay(g)
    BY <1>2, <1>3, <1>4, <1>5, <1>6
    DEF Capability!Pay, barStatus, barPaid, barPerformed, barExpiry
<1> QED BY <1>7

\* Performing is performing.
LEMMA PerformPerforms ==
    ASSUME TypeInv, UseInv, PaidInv, Perform
    PROVE  \E g \in GrantIds : Capability!Perform(g)
<1>1. records[chosen] # None /\ Len(history[chosen]) < Cardinality(records[chosen].ids)
    BY PerformCounts DEF UseInv, GrantedIsNew, PaidInv, PaidFirst
<1>2. barStatus' = barStatus /\ barStatus[chosen] = "live"
    BY <1>1, PerformCounts DEF barStatus, PaidInv, WithdrawnGone
<1>3. barPaid' = barPaid /\ barPerformed[chosen] < barPaid[chosen]
    BY <1>1, PerformCounts DEF barPaid, barPerformed
<1>4. barPerformed' = [barPerformed EXCEPT ![chosen] = @ + 1]
    BY PerformCounts DEF barPerformed
<1>5. PICK g \in GrantIds : g = chosen
    BY PerformCounts
<1>6. barExpiry' = barExpiry /\ now' = now
    BY PerformCounts DEF barExpiry, Perform
<1>7. Capability!Perform(g)
    BY <1>2, <1>3, <1>4, <1>5, <1>6
    DEF Capability!Perform, barStatus, barPaid, barPerformed, barExpiry
<1> QED BY <1>7

\* Restarting withdraws the grants of the interrupted recipe.
LEMMA RestartWithdraws ==
    ASSUME TypeInv, PaidInv, NEW r \in Recipes \cup {NoRecipe}, Restart(r)
    PROVE  \E S \in SUBSET GrantIds : Capability!Withdraw(S)
<1> PICK S \in SUBSET GrantIds : S = RecipeRecords(r)
    BY DEF RecipeRecords
<1>1. /\ history' = history /\ withdrawn' = withdrawn \cup S /\ S \subseteq GrantIds
      /\ \A g \in GrantIds : records'[g] = IF g \in S THEN None ELSE records[g]
      /\ \A g \in S : records[g] # None
    BY DEF Restart, Without, RecipeRecords
<1>2. \A g \in S : barStatus[g] = "live"
    BY <1>1 DEF barStatus, PaidInv, WithdrawnGone
<1>3. barStatus' = [g \in GrantIds |-> IF g \in S THEN "withdrawn" ELSE barStatus[g]]
    BY <1>1 DEF barStatus
<1>4. barPaid' = [g \in GrantIds |-> IF g \in S THEN barPerformed[g] ELSE barPaid[g]]
    BY <1>1 DEF barPaid, barPerformed
<1>5. barPerformed' = barPerformed
    BY <1>1 DEF barPerformed
<1>6. barExpiry' = [g \in GrantIds |-> IF g \in S THEN 0 ELSE barExpiry[g]] /\ now' = now
    BY <1>1 DEF barExpiry, Restart
<1>7. Capability!Withdraw(S)
    BY <1>2, <1>3, <1>4, <1>5, <1>6
    DEF Capability!Withdraw, barStatus, barPaid, barPerformed, barExpiry
<1> QED BY <1>7

\* The clock of the store is the clock of the capability.
LEMMA TickAdvances ==
    ASSUME TypeInv, Tick
    PROVE  Capability!Advance
    BY DEF Tick, TypeInv, TypeOK, Capability!Advance

\* The store with its crashes and restarts implements bounded capabilities
\* that expire, for any number of grants, uses and identifiers.
THEOREM CapabilityImplemented == Spec => ImplementsCapability
<1>1. Init => PaidInv
    BY DEF Init, PaidInv, WithdrawnGone, IdsFinite, PaidFirst
<1>2. TypeInv /\ UseInv /\ PaidInv /\ [Next]_vars => PaidInv'
    BY NextPaidInv
<1>3. Init => Capability!Init
    BY DEF Init, Capability!Init
<1>4. TypeInv /\ UseInv /\ PaidInv /\ [Next]_vars
      => [Capability!Next]_(Capability!capVars)
    <2> SUFFICES ASSUME TypeInv, UseInv, PaidInv, [Next]_vars
                 PROVE  [Capability!Next]_(Capability!capVars)
        OBVIOUS
    <2>1. ASSUME NEW r \in Recipes \cup {NoRecipe}, Restart(r)
          PROVE  Capability!Next
        BY <2>1, RestartWithdraws DEF Capability!Next
    <2>2. ASSUME NEW g \in GrantIds, NEW scope \in ActionIds \cup Recipes, Approve(g, scope)
          PROVE  Capability!Next
        BY <2>2, ApproveIssues DEF Capability!Next
    <2>3. CASE Consume
        BY <2>3, ConsumePays DEF Capability!Next
    <2>4. CASE Perform
        BY <2>4, PerformPerforms DEF Capability!Next
    <2>5. ASSUME NEW req \in Requests, Propose(req)
          PROVE  UNCHANGED Capability!capVars
        BY <2>5, CapabilityStutters DEF Propose
    <2>6. CASE Deny \/ Reject \/ Crash
        BY <2>6, CapabilityStutters DEF Deny, Reject, Crash
    <2>7. CASE UNCHANGED vars
        BY <2>7, CapabilityStutters DEF vars
    <2>8. CASE Tick
        BY <2>8, TickAdvances DEF Capability!Next
    <2> QED BY <2>1, <2>2, <2>3, <2>4, <2>5, <2>6, <2>7, <2>8 DEF Next
<1>5. Spec => Capability!Spec
    BY <1>1, <1>2, <1>3, <1>4, UseInvariant, PTL DEF Spec, Capability!Spec
<1> QED BY <1>5 DEF ImplementsCapability
=============================================================================
