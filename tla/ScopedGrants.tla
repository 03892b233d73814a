----------------------------- MODULE ScopedGrants -----------------------------
(***************************************************************************)
(* The approval grants of one task: ScopedGrantStore (approval/grants.py)   *)
(* with its durable snapshot, and the part of the controller that asks,    *)
(* issues and consumes (controller.py _authorize and _consume_grant),      *)
(* over crashes and restarts of the process.                               *)
(*                                                                         *)
(* records is the durable snapshot.  Every operation of the store commits  *)
(* the candidate snapshot before it changes its memory, and an exception   *)
(* from the commit ends the session, so while a session runs its memory    *)
(* equals the snapshot and one variable stands for both; a failed commit   *)
(* is Crash, before or after the step whose snapshot reached the disk.     *)
(* A record keeps the consumed action identifiers; its number of uses is   *)
(* their number (GrantRecord.validate_consumption).  Configuration and     *)
(* task are constant: a session refuses to start under another             *)
(* configuration, and a store serves one task.                             *)
(*                                                                         *)
(* history[g] observes the actions performed on the authority of g, and    *)
(* withdrawn the grants revoke_recipe removed.                             *)
(***************************************************************************)
EXTENDS Integers, Sequences, FiniteSets

CONSTANTS
    GrantIds,   \* identifiers uuid4 may draw
    ActionIds,  \* identifiers of the model's actions
    Recipes,    \* allowlisted recipes
    NoRecipe,   \* the action is apply_patch
    None,       \* no record, no grant
    MaxUses,    \* tools.run_task.grant_max_uses
    Ttl,        \* seconds a grant lives
    MaxTime     \* bound on the clock

VARIABLES now, records, recipeGrants, pc, request, chosen, history, withdrawn

vars == <<now, records, recipeGrants, pc, request, chosen, history, withdrawn>>

ASSUME ConstantsAssumption ==
    /\ NoRecipe \notin Recipes
    /\ ActionIds \cap Recipes = {}
    /\ None \notin GrantIds
    /\ MaxUses \in Nat \ {0} /\ Ttl \in Nat \ {0} /\ MaxTime \in Nat

Requests == [id : ActionIds, recipe : Recipes \cup {NoRecipe}]
\* scope: the exact action, or the recipe.
Records == [scope : ActionIds \cup Recipes, expires : Nat, ids : SUBSET ActionIds]

ASSUME NoneAssumption == None \notin Records

TypeOK ==
    /\ now \in Nat
    /\ records \in [GrantIds -> Records \cup {None}]
    /\ recipeGrants \in [Recipes -> GrantIds \cup {None}]
    /\ pc \in {"down", "ready", "prompt", "existing", "issued", "granted"}
    /\ request \in Requests
    /\ chosen \in GrantIds \cup {None}
    /\ history \in [GrantIds -> Seq(ActionIds)]
    /\ withdrawn \subseteq GrantIds

Init ==
    /\ now = 0
    /\ records = [g \in GrantIds |-> None]
    /\ recipeGrants = [r \in Recipes |-> None]
    /\ pc = "down"
    /\ request \in Requests
    /\ chosen = None
    /\ history = [g \in GrantIds |-> <<>>]
    /\ withdrawn = {}

-----------------------------------------------------------------------------
Limit(rec) == IF rec.scope \in Recipes THEN MaxUses ELSE 1

\* _validated_common: found, not expired, not exhausted, not replayed.
MutantUsableAtExpiry(rec, a) ==
    /\ rec # None
    /\ now <= rec.expires
    /\ Cardinality(rec.ids) < Limit(rec)
    /\ a \notin rec.ids
MutantUsable(rec, a) ==
    rec # None /\ now < rec.expires /\ Cardinality(rec.ids) < Limit(rec)
Usable(rec, a) ==
    /\ rec # None
    /\ now < rec.expires
    /\ Cardinality(rec.ids) < Limit(rec)
    /\ a \notin rec.ids

\* consume_recipe for the grant remembered for the recipe, else consume_action.
Covers(rec, req, byRecipe) ==
    rec.scope = IF byRecipe THEN req.recipe ELSE req.id

RecipeRecords(recipe) == {g \in GrantIds : records[g] # None /\ records[g].scope = recipe}

\* active_recipe_grants keeps one live grant for every recipe that has any.
Active(snapshot, r) ==
    {g \in GrantIds : /\ snapshot[g] # None /\ snapshot[g].scope = r
                      /\ snapshot[g].expires > now
                      /\ Cardinality(snapshot[g].ids) < MaxUses}

\* _consume: what the candidate snapshot says of the grant that pays.
MutantConsumed(rec, a) == rec
MutantConsumedScope(rec, a) == [rec EXCEPT !.ids = @ \cup {rec.scope}]
Consumed(rec, a) == [rec EXCEPT !.ids = @ \cup {a}]

\* The candidate snapshot of revoke_recipe.
MutantWithout(snapshot, S) == snapshot
Without(snapshot, S) == [g \in GrantIds |-> IF g \in S THEN None ELSE snapshot[g]]

-----------------------------------------------------------------------------
\* A session starts: it loads the snapshot, revokes the grants of a recipe
\* whose run was interrupted, and restores the recipe grants that are left.
Restart(interruptedRecipe) ==
    /\ pc = "down"
    /\ LET revoked == RecipeRecords(interruptedRecipe)
       IN  /\ records' = Without(records, revoked)
           /\ withdrawn' = withdrawn \cup revoked
    /\ recipeGrants' \in [Recipes -> GrantIds \cup {None}]
    /\ \A r \in Recipes :
        IF Active(records', r) = {} THEN recipeGrants'[r] = None
                                    ELSE recipeGrants'[r] \in Active(records', r)
    /\ pc' = "ready"
    /\ UNCHANGED <<now, request, chosen, history>>

\* The policy answers ASK for the model's next action.
Propose(req) ==
    /\ pc = "ready"
    /\ request' = req
    /\ IF req.recipe \in Recipes /\ recipeGrants[req.recipe] # None
       THEN pc' = "existing" /\ chosen' = recipeGrants[req.recipe]
       ELSE pc' = "prompt" /\ chosen' = None
    /\ UNCHANGED <<now, records, recipeGrants, history, withdrawn>>

Deny ==
    /\ pc = "prompt"
    /\ pc' = "ready"
    /\ UNCHANGED <<now, records, recipeGrants, request, chosen, history, withdrawn>>

\* The user approves this action, or the recipe for later actions too.
Approve(g, scope) ==
    /\ pc = "prompt" /\ records[g] = None /\ g \notin withdrawn
    /\ scope \in {request.id} \cup ({request.recipe} \cap Recipes)
    /\ records' = [records EXCEPT ![g] = [scope |-> scope, expires |-> now + Ttl, ids |-> {}]]
    /\ recipeGrants' = IF scope \in Recipes THEN [recipeGrants EXCEPT ![scope] = g]
                                            ELSE recipeGrants
    /\ chosen' = g /\ pc' = "issued"
    /\ UNCHANGED <<now, request, history, withdrawn>>

ByRecipe == request.recipe \in Recipes /\ recipeGrants[request.recipe] = chosen

Consumable ==
    Usable(records[chosen], request.id) /\ Covers(records[chosen], request, ByRecipe)

Consume ==
    /\ pc \in {"existing", "issued"} /\ Consumable
    /\ records' = [records EXCEPT ![chosen] = Consumed(@, request.id)]
    /\ pc' = "granted"
    /\ UNCHANGED <<now, recipeGrants, request, chosen, history, withdrawn>>

\* A remembered grant that no longer pays is forgotten and the user is asked;
\* a grant rejected right after it was issued denies the action.
Reject ==
    /\ pc \in {"existing", "issued"} /\ ~Consumable
    /\ IF pc = "existing"
       THEN /\ recipeGrants' = [recipeGrants EXCEPT ![request.recipe] = None]
            /\ pc' = "prompt"
       ELSE pc' = "ready" /\ UNCHANGED recipeGrants
    /\ UNCHANGED <<now, records, request, chosen, history, withdrawn>>

\* The controller goes on to execute the authorised action.
Perform ==
    /\ pc = "granted"
    /\ history' = [history EXCEPT ![chosen] = Append(@, request.id)]
    /\ pc' = "ready"
    /\ UNCHANGED <<now, records, recipeGrants, request, chosen, withdrawn>>

\* The session ends, fails or is killed.
Crash ==
    /\ pc # "down"
    /\ pc' = "down" /\ recipeGrants' = [r \in Recipes |-> None] /\ chosen' = None
    /\ UNCHANGED <<now, records, request, history, withdrawn>>

Tick ==
    /\ now < MaxTime
    /\ now' = now + 1
    /\ UNCHANGED <<records, recipeGrants, pc, request, chosen, history, withdrawn>>

Next ==
    \/ \E r \in Recipes \cup {NoRecipe} : Restart(r)
    \/ \E req \in Requests : Propose(req)
    \/ Deny
    \/ \E g \in GrantIds, scope \in ActionIds \cup Recipes : Approve(g, scope)
    \/ Consume \/ Reject \/ Perform \/ Crash \/ Tick

Spec == Init /\ [][Next]_vars

-----------------------------------------------------------------------------
(* Properties.                                                             *)

PerformedIds(g) == {history[g][i] : i \in DOMAIN history[g]}

\* One grant never pays twice for the same action identifier, whatever
\* restarts lie between the two requests.
NoReplay ==
    \A g \in GrantIds : \A i, j \in DOMAIN history[g] :
        history[g][i] = history[g][j] => i = j

\* What was performed on a stored grant is on disk: a restart cannot forget a
\* use (ADR 0005: consumption writes the snapshot before anything executes).
UsesAreDurable ==
    \A g \in GrantIds : records[g] # None => PerformedIds(g) \subseteq records[g].ids

\* The snapshot and the observed executions behave as bounded capabilities.
Capability == INSTANCE BoundedCapability WITH
    Grants <- GrantIds,
    status <- [g \in GrantIds |-> IF g \in withdrawn THEN "withdrawn"
                                  ELSE IF records[g] = None THEN "unissued" ELSE "live"],
    clock <- now,
    expiry <- [g \in GrantIds |-> IF records[g] = None THEN 0 ELSE records[g].expires],
    paid <- [g \in GrantIds |-> IF records[g] = None THEN Len(history[g])
                                                     ELSE Cardinality(records[g].ids)],
    performed <- [g \in GrantIds |-> Len(history[g])]

\* The store with its crashes and restarts implements BoundedCapability.
ImplementsCapability == Capability!Spec
=============================================================================
