---------------------------- MODULE MCScopedGrants ----------------------------
(* Two grants, two action identifiers, one recipe, three ticks.            *)
EXTENDS ScopedGrants, TLC

CONSTANTS g1, g2, a1, a2, build

MCGrantIds == {g1, g2}
MCActionIds == {a1, a2}
MCRecipes == {build}
=============================================================================
