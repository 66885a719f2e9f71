-------------------------- MODULE OffloadMoeCacheMC --------------------------
(***************************************************************************)
(* Small instances of OffloadMoeCache for TLC.                             *)
(***************************************************************************)
EXTENDS OffloadMoeCache

Deploy(movement, unpinned, cpu, short, sizes) ==
    [movement |-> movement, unpinned |-> unpinned, cpu |-> cpu, short |-> short, sizes |-> sizes]

\* Every movement, locked layers, pools with and without slots beside the buffers;
\* short chunks on demand where every layer is pinned or none is streamed.
Deployed ==
    {Deploy("whole", {}, {}, FALSE, {2, 4}), Deploy("whole", {1}, {1}, TRUE, {4}),
     Deploy("full", {}, {}, TRUE, {4}), Deploy("full", {0}, {0}, FALSE, {4}),
     Deploy("sparse", {}, {}, FALSE, {4}),
     Deploy("split", {1}, {1}, FALSE, {3, 5}), Deploy("split", {}, {1}, FALSE, {5})}
=============================================================================
