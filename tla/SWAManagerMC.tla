---------------------------- MODULE SWAManagerMC ----------------------------
(***************************************************************************)
(* Small instances of SWAManager for TLC.                                  *)
(***************************************************************************)
EXTENDS SWAManager

Ask(prompt, output) == [prompt |-> prompt, output |-> output, image |-> FALSE]
Image(prompt, output) == [prompt |-> prompt, output |-> output, image |-> TRUE]

Forks == {Ask(<<"a", "a", "b", "b", "b">>, 1), Ask(<<"a", "b", "b">>, 2)}

ForksAndImage == Forks \cup {Image(<<"b", "b", "b", "b">>, 4)}

Nested == {Ask(<<"a", "a">>, 2), Ask(<<"a", "a", "a", "b">>, 1)}

Symmetry == Permutations(Req)
=============================================================================
