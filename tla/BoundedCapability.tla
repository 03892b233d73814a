-------------------------- MODULE BoundedCapability --------------------------
(* What an approval grant promises, without saying how: a grant is issued  *)
(* once, each use is paid for before the action it pays for is performed,  *)
(* it pays for at most MaxUses actions in its whole life, for none from    *)
(* the instant it expires, and for none at all after it was withdrawn.     *)
(* Paid uses may be lost, never performed twice.                           *)
EXTENDS Naturals

CONSTANTS Grants, MaxUses, Ttl

VARIABLES
    status,     \* [Grants -> {"unissued", "live", "withdrawn"}]
    clock,
    expiry,     \* the instant from which a live grant pays no more
    paid,       \* uses taken from the grant
    performed   \* actions performed on its authority

capVars == <<status, clock, expiry, paid, performed>>

Init ==
    /\ status = [g \in Grants |-> "unissued"]
    /\ clock = 0 /\ expiry = [g \in Grants |-> 0]
    /\ paid = [g \in Grants |-> 0]
    /\ performed = [g \in Grants |-> 0]

Issue(g) ==
    /\ status[g] = "unissued"
    /\ status' = [status EXCEPT ![g] = "live"]
    /\ expiry' = [expiry EXCEPT ![g] = clock + Ttl]
    /\ UNCHANGED <<clock, paid, performed>>

Pay(g) ==
    /\ status[g] = "live" /\ clock < expiry[g] /\ paid[g] < MaxUses
    /\ paid' = [paid EXCEPT ![g] = @ + 1]
    /\ UNCHANGED <<status, clock, expiry, performed>>

Perform(g) ==
    /\ status[g] = "live" /\ performed[g] < paid[g]
    /\ performed' = [performed EXCEPT ![g] = @ + 1]
    /\ UNCHANGED <<status, clock, expiry, paid>>

\* Uses that were paid and not performed are gone with the grant.
Withdraw(S) ==
    /\ \A g \in S : status[g] = "live"
    /\ status' = [g \in Grants |-> IF g \in S THEN "withdrawn" ELSE status[g]]
    /\ paid' = [g \in Grants |-> IF g \in S THEN performed[g] ELSE paid[g]]
    /\ expiry' = [g \in Grants |-> IF g \in S THEN 0 ELSE expiry[g]]
    /\ UNCHANGED <<clock, performed>>

Advance ==
    /\ clock' > clock
    /\ UNCHANGED <<status, expiry, paid, performed>>

Next ==
    \/ \E g \in Grants : Issue(g) \/ Pay(g) \/ Perform(g)
    \/ \E S \in SUBSET Grants : Withdraw(S)
    \/ Advance

Spec == Init /\ [][Next]_capVars
=============================================================================
