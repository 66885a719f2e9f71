---------------------------- MODULE SchedulerMC ----------------------------
(***************************************************************************)
(* Small instances of Scheduler for TLC: prompts of two or three tokens,   *)
(* outputs of one or four.                                                 *)
(***************************************************************************)
EXTENDS Scheduler, TLC

Ask(in, out) == [input |-> in, output |-> out]

MCShapes == {Ask(3, 1), Ask(2, 4)}

\* With four-token pages: two pages and one, six and two tokens.
RoundingShapes == {Ask(5, 1), Ask(1, 1)}

Symmetry == Permutations(Uid)

\* The scheduler hears of the uids in their order; they are alike, so that this
\* leaves out only what another naming of them shows.
Heard(u) == u \in received \/ abortsSeen[u] > 0
InOrder == \A u, v \in Uid : u < v /\ Heard(v) => Heard(u)

\* Bound: aborts and rebuilds in a behaviour, of either kind or of both.
MaxDisturbances == 2
Bounded == InOrder /\ MapThenSumSet(LAMBDA u : abortsSeen[u], Uid) + rebuildsSeen <= MaxDisturbances
=============================================================================
