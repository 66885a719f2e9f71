---------------------------- MODULE EngineLedger ----------------------------
(***************************************************************************)
(* What the serve manager promises about the engines it launches, while    *)
(* the daemon stays up and whatever calls, monitors and restarts race: one *)
(* engine lives at a time; none is signalled before its totals are on      *)
(* disk; the manager and its pidfile let go of one only when it is dead    *)
(* and accounted for, once; its end is announced after that; and after a   *)
(* shutdown nothing is launched.                                           *)
(***************************************************************************)
EXTENDS Naturals

CONSTANTS Gen,     \* generations
          Totals   \* kinds of receipt that carry the engine's own totals

VARIABLES engine,     \* generation -> "unborn" | "alive" | "dead"
          held,       \* generations the manager or its pidfile answer for
          receipts,   \* generation -> kinds of receipt on disk
          gaps,       \* deaths that could not be recorded, and were reported
          signalled,  \* generations the manager has signalled
          reaped,     \* generations whose end was announced
          gate        \* "open" | "closing" | "closed"

ledger == <<engine, held, receipts, gaps, signalled, reaped, gate>>

Init ==
  /\ engine = [g \in Gen |-> "unborn"] /\ held = {}
  /\ receipts = [g \in Gen |-> {}] /\ gaps = {} /\ signalled = {} /\ reaped = {}
  /\ gate = "open"

NoneAlive == \A g \in Gen : engine[g] # "alive"

Launch(g) ==
  /\ engine[g] = "unborn" /\ NoneAlive /\ gate = "open"
  /\ engine' = [engine EXCEPT ![g] = "alive"] /\ held' = held \cup {g}
  /\ UNCHANGED <<receipts, gaps, signalled, reaped, gate>>

Die(g) ==
  /\ engine[g] = "alive" /\ engine' = [engine EXCEPT ![g] = "dead"]
  /\ UNCHANGED <<held, receipts, gaps, signalled, reaped, gate>>

\* Its totals and a crash receipt would count its tokens twice.
Record(g, kind) ==
  /\ kind \in Totals => "crash" \notin receipts[g]
  /\ kind = "crash" => engine[g] = "dead" /\ receipts[g] \cap Totals = {}
  /\ receipts' = [receipts EXCEPT ![g] = @ \cup {kind}]
  /\ UNCHANGED <<engine, held, gaps, signalled, reaped, gate>>

Miss(g) ==
  /\ engine[g] = "dead" /\ g \in held /\ receipts[g] = {} /\ gaps' = gaps \cup {g}
  /\ UNCHANGED <<engine, held, receipts, signalled, reaped, gate>>

Signal(g) ==
  /\ receipts[g] # {} /\ signalled' = signalled \cup {g}
  /\ UNCHANGED <<engine, held, receipts, gaps, reaped, gate>>

LetGo(g) ==
  /\ engine[g] = "dead" /\ (receipts[g] # {} \/ g \in gaps)
  /\ held' = held \ {g}
  /\ UNCHANGED <<engine, receipts, gaps, signalled, reaped, gate>>

Announce(g) ==
  /\ engine[g] = "dead" /\ g \notin held /\ reaped' = reaped \cup {g}
  /\ UNCHANGED <<engine, held, receipts, gaps, signalled, gate>>

\* A shutdown closes the gate once no engine is left, or fails and reopens it.
Turn ==
  /\ \/ gate' = "closing"
     \/ gate = "closing" /\ gate' = "open"
     \/ gate = "closing" /\ NoneAlive /\ gate' = "closed"
  /\ UNCHANGED <<engine, held, receipts, gaps, signalled, reaped>>

Next ==
  \/ Turn
  \/ \E g \in Gen : \/ Launch(g) \/ Die(g) \/ Miss(g) \/ Signal(g) \/ LetGo(g) \/ Announce(g)
                    \/ \E kind \in Totals \cup {"degraded", "crash"} : Record(g, kind)

Spec == Init /\ [][Next]_ledger

=============================================================================
