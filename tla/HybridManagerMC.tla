--------------------------- MODULE HybridManagerMC ---------------------------
(***************************************************************************)
(* Small instances of HybridManager for TLC: prompts that share a boundary *)
(* with a snapshot, fork before it, or carry an image.                     *)
(***************************************************************************)
EXTENDS HybridManager

Ask(prompt, output) == [prompt |-> prompt, output |-> output, image |-> FALSE]
Image(prompt, output) == [prompt |-> prompt, output |-> output, image |-> TRUE]

Asked == {Ask(<<"a", "a", "b">>, 2), Ask(<<"a">>, 3), Image(<<"a">>, 1)}

Symmetry == Permutations(Req)
=============================================================================
