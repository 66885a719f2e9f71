--------------------------- MODULE CacheManagerMC ---------------------------
(***************************************************************************)
(* Small instances of CacheManager for TLC: prompts that share prefixes of *)
(* one or two pages, fork inside a cached edge, or carry an image.         *)
(***************************************************************************)
EXTENDS CacheManager, TLC

Ask(prompt, output) == [prompt |-> prompt, output |-> output, image |-> FALSE]

Image(prompt, output) == [prompt |-> prompt, output |-> output, image |-> TRUE]

\* Over two-token pages: prompts that fork at a page boundary and inside a page,
\* one apart from them, and an image whose placeholders are the others' first tokens.
ForkShapes ==
    {Ask(<<"a", "a", "a", "b", "b">>, 1), Ask(<<"a", "a", "a">>, 2), Ask(<<"b", "a", "a">>, 1),
     Image(<<"a", "a", "a">>, 1)}

Symmetry == Permutations(Req) \cup Permutations(Page)
=============================================================================
