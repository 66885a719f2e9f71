---------------------------- MODULE RequestLife ----------------------------
(***************************************************************************)
(* What the scheduler promises about each request, whatever it does to     *)
(* batch, chunk, overlap and rebuild: a request is queued, then holds      *)
(* resources, then lets go of them for good.  Only a request that holds    *)
(* resources publishes anything, a terminal reply and the release of the   *)
(* resources are one step, and an abort is acknowledged only for a request *)
(* that holds nothing and never will again.                                *)
(***************************************************************************)
EXTENDS Integers

CONSTANTS Uid,
          Limits   \* values of max_tokens

VARIABLES stage,    \* uid -> "new" | "queued" | "held" | "gone"
          limit,    \* uid -> max_tokens, 0 before the request is taken
          admits, tokens, ended   \* what was published: prompt, tokens, terminals

life == <<stage, limit, admits, tokens, ended>>

Init ==
    /\ stage = [u \in Uid |-> "new"] /\ limit = [u \in Uid |-> 0]
    /\ admits = [u \in Uid |-> 0] /\ tokens = [u \in Uid |-> 0]
    /\ ended = [u \in Uid |-> {}]

Becomes(u, s) == stage' = [stage EXCEPT ![u] = s]

\* A request is taken, unless its abort was acknowledged before it came.
Submit(u) ==
    /\ stage[u] = "new" /\ ended[u] = {} /\ Becomes(u, "queued")
    /\ \E n \in Limits : limit' = [limit EXCEPT ![u] = n]
    /\ UNCHANGED <<admits, tokens, ended>>

Reject(u) ==
    /\ stage[u] = "new" /\ ended[u] = {} /\ Becomes(u, "gone")
    /\ ended' = [ended EXCEPT ![u] = {"error"}]
    /\ UNCHANGED <<limit, admits, tokens>>

\* Its abort overtook it.
Ignore(u) == stage[u] = "new" /\ Becomes(u, "gone") /\ UNCHANGED <<limit, admits, tokens, ended>>

Seat(u) ==
    /\ stage[u] = "queued" /\ ended[u] = {} /\ Becomes(u, "held")
    /\ UNCHANGED <<limit, admits, tokens, ended>>

\* Prompts that are being prefilled are reported, once each.
Report(S) ==
    /\ \A u \in S : stage[u] = "held" /\ admits[u] = 0 /\ ended[u] = {}
    /\ admits' = [u \in Uid |-> IF u \in S THEN 1 ELSE admits[u]]
    /\ UNCHANGED <<stage, limit, tokens, ended>>

Publishes(u) ==
    /\ stage[u] = "held" /\ admits[u] = 1 /\ ended[u] = {}
    /\ tokens' = [tokens EXCEPT ![u] = @ + 1]

\* A token, not the last that max_tokens allows.
Sample(u) ==
    /\ Publishes(u) /\ tokens[u] + 1 < limit[u]
    /\ UNCHANGED <<stage, limit, admits, ended>>

\* The last token and the terminal reply, with the release of everything held.
Finish(u, why) ==
    /\ Publishes(u) /\ tokens[u] + 1 <= limit[u]
    /\ why = "length" => tokens[u] + 1 = limit[u]
    /\ Becomes(u, "gone") /\ ended' = [ended EXCEPT ![u] = {why}]
    /\ UNCHANGED <<limit, admits>>

\* An abort takes it out of the queue, or away from what it holds.
Withdraw(u) ==
    /\ stage[u] \in {"queued", "held"} /\ Becomes(u, "gone")
    /\ UNCHANGED <<limit, admits, tokens, ended>>

Acknowledge(S) ==
    /\ \A u \in S : stage[u] \in {"new", "gone"}
    /\ ended' = [u \in Uid |-> IF u \in S THEN ended[u] \cup {"aborted"} ELSE ended[u]]
    /\ UNCHANGED <<stage, limit, admits, tokens>>

Next ==
    \/ \E u \in Uid : \/ Submit(u) \/ Reject(u) \/ Ignore(u) \/ Seat(u)
                      \/ Sample(u) \/ Withdraw(u)
                      \/ \E why \in {"stop", "length"} : Finish(u, why)
    \/ \E S \in SUBSET Uid : Report(S) \/ Acknowledge(S)

Spec == Init /\ [][Next]_life

=============================================================================
