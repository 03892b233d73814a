--------------------------- MODULE MCTaskLifecycle ---------------------------
(* Two action identifiers, one recipe, two generations.                    *)
EXTENDS TaskLifecycle

CONSTANTS a1, a2, build

MCActionIds == {a1, a2}
MCRecipes == {build}
=============================================================================
