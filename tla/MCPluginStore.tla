--------------------------- MODULE MCPluginStore ---------------------------
(* Two shell processes and two versions of one plugin, the first in two    *)
(* builds of which one is untrusted and asks for full trust.               *)
EXTENDS PluginStore, TLC

CONSTANTS p, q, v1, v2, built, rebuilt, next

MCVersionOf == built :> v1 @@ rebuilt :> v1 @@ next :> v2

Symmetry == Permutations(Processes)
=============================================================================
