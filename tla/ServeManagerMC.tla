--------------------------- MODULE ServeManagerMC ---------------------------
(* ServeManager on small instances: two configs that are interchangeable. *)
EXTENDS ServeManager, TLC

ConfigSymmetry == Permutations(Config)

=============================================================================
