------------------------- MODULE ServeManagerProofs -------------------------
(***************************************************************************)
(* The serve manager, for every number of generations, calls, failed       *)
(* writes and crashes of the daemon.  No engine is signalled before its    *)
(* receipt, whatever crashes.  As long as the daemon itself stays up       *)
(* (blips = 0) one engine lives at a time, none is orphaned, a stop is     *)
(* never undone by an automatic restart, and the manager implements        *)
(* EngineLedger.  These four need a daemon that never crashes, wherever:   *)
(* one that dies before the pidfile is written, or after a late clear has  *)
(* erased it, loses the engine; one that comes back does not remember a    *)
(* stop, nor record what died meanwhile.                                   *)
(***************************************************************************)
EXTENDS ServeManager, FiniteSetTheorems, TLAPS

-----------------------------------------------------------------------------
(***************************************************************************)
(* The inductive invariant.                                                *)
(***************************************************************************)
MonitorPcs == {"none", "waiting", "woken", "recorded", "forgotten", "cleared", "reaped",
               "restarting", "done"}

Ops == [call : Calls \cup {None}, pc : StartPcs \cup StopPcs \cup {None},
        config : Config \cup {None}, force : BOOLEAN,
        target : Gen \cup {None}, receipt : Kinds \cup {None}]

StateType ==
  /\ engine \in [Gen -> {"unborn", "alive", "dead"}]
  /\ configOf \in [Gen -> Config \cup {None}]
  /\ receipts \in [Gen -> SUBSET Kinds]
  /\ monitor \in [Gen -> MonitorPcs]
  /\ flags \in [Gen -> [wasStopping : BOOLEAN, current : BOOLEAN]]
  /\ restart \in [Gen -> Config \cup {None}]
  /\ config \in Config \cup {None}
  /\ child \in Gen \cup {None} /\ pidfile \in Gen \cup {None}
  /\ signalled \subseteq Gen /\ gaps \subseteq Gen /\ durable \subseteq Gen /\ reaped \subseteq Gen
  /\ up \in BOOLEAN /\ stopping \in BOOLEAN /\ stopRequested \in BOOLEAN
  /\ shutdownRequested \in BOOLEAN /\ guarded \in BOOLEAN /\ wanted \in BOOLEAN
  /\ calls \in Nat /\ diskFaults \in Nat /\ blips \in Nat /\ blips <= MaxBlips

TypeInv == op \in Ops /\ StateType

\* Where a call has a generation of its own.
Spawned == {"install", "save", "watch"}
Ending == {"prepare", "seal", "terminate", "wait", "killed"}

\* What the call that holds the lifecycle lock has established.
CallInv ==
  /\ op.pc = None => op = Idle
  /\ op.pc \in StartPcs => op.call \in {"start", "auto", "switch"}
  /\ op.pc \in StopPcs => op.call \in {"stop", "switch", "shutdown"}
  /\ op.pc \in Spawned \cup Ending => op.target \in Gen
  /\ op.pc = "seal" => op.receipt \in Totals \cup {"degraded"}

\* A stop goes on to signals only with a receipt on disk, and receipts stay.
ReceiptInv ==
  /\ op.pc \in {"terminate", "wait", "killed"} => receipts[op.target] # {}
  /\ SignalAfterReceipt

-----------------------------------------------------------------------------
(* While the daemon has not crashed.                                       *)

\* The child is the call's: a start installs into an empty manager, and only
\* the monitor takes away what a stop is ending.
ChildInv ==
  /\ stopping => op.pc \in Ending /\ child = op.target
  /\ op.pc \in {"spawn", "install"} => child = None
  /\ op.pc \in {"save", "watch"} => child = op.target
  /\ op.pc \in Spawned => engine[op.target] # "unborn" /\ monitor[op.target] = "none"
  /\ op.pc \in Ending => child \in {None, op.target}

\* Where an engine is in its life, and what its monitor has seen of it.
Seen == {"waiting", "woken", "recorded"}
Gone == {"forgotten", "cleared", "reaped", "restarting", "done"}

LifeInv ==
  \A g \in Gen :
    /\ engine[g] = "alive" => g = child \/ (op.pc = "install" /\ g = op.target)
    /\ engine[g] = "unborn" => g \notin {child, pidfile} /\ monitor[g] = "none"
    /\ monitor[g] \in {"woken", "recorded"} \cup Gone => engine[g] = "dead" /\ flags[g].current
    /\ monitor[g] \in Seen => g = child
    /\ monitor[g] \in Gone => g # child
    /\ monitor[g] \in Gone \ {"forgotten"} => g # pidfile
    /\ g \in reaped => monitor[g] \in {"reaped", "restarting", "done"}

Accounted(g) == receipts[g] # {} \/ g \in gaps

\* Who has been accounted for: durable is the memory of what is on disk, and
\* the guard keeps the crash receipt away from a seal in progress.
AccountInv ==
  /\ \A g \in Gen :
       /\ g \in durable <=> receipts[g] # {}
       /\ monitor[g] \in {"recorded"} \cup Gone => Accounted(g)
       /\ g = pidfile /\ g # child => engine[g] = "dead" /\ Accounted(g)
       /\ "crash" \in receipts[g] => engine[g] = "dead"
  /\ op.pc = "seal" => guarded
  /\ op.pc = "seal" /\ op.receipt \in Totals => "crash" \notin receipts[op.target]

\* The gate that a shutdown closes.
GateInv ==
  /\ op.call = "shutdown" => shutdownRequested
  /\ op.pc \in {"spawn"} => ~shutdownRequested

\* Only a client's start, or an engine it launched, makes an engine wanted.
WantInv ==
  /\ wanted \/ stopRequested \/ \A g \in Gen : engine[g] = "unborn"
  /\ op.pc = "spawn" => wanted
  /\ op.call = "auto" => \E g \in Gen : engine[g] # "unborn"
  /\ \A g \in Gen : restart[g] # None \/ monitor[g] # "none" => engine[g] # "unborn"

UpInv == up /\ ChildInv /\ LifeInv /\ AccountInv /\ GateInv /\ WantInv

IInv == TypeInv /\ CallInv /\ ReceiptInv /\ (blips = 0 => UpInv)

-----------------------------------------------------------------------------
(***************************************************************************)
(* Types.                                                                  *)
(***************************************************************************)
\* The names of the program points are not None.
LEMMA NoneIsNew ==
    /\ None \notin Config /\ None \notin Gen /\ None \notin Calls
    /\ None \notin StartPcs /\ None \notin StopPcs
BY NoneAssumption, BoundsAssumption DEF Gen

\* A call that goes on keeps what it was called with.
LEMMA GotoOp ==
    ASSUME op \in Ops, NEW pc \in StartPcs \cup StopPcs, Goto(pc)
    PROVE  /\ op' \in Ops /\ op'.pc = pc
           /\ op'.call = op.call /\ op'.config = op.config /\ op'.force = op.force
           /\ op'.target = op.target /\ op'.receipt = op.receipt
BY DEF Ops, Goto

\* A call that ends leaves the lifecycle lock to the next.
LEMMA IdleOp ==
    /\ Idle \in Ops /\ Idle.pc = None /\ Idle.call = None /\ Idle.target = None
    /\ Idle.receipt = None /\ Idle.config = None /\ Idle.force = FALSE
BY DEF Ops, Idle

\* What a call takes the lock with.
LEMMA CallOp ==
    ASSUME NEW call \in Calls, NEW c \in Config \cup {None}, NEW force \in BOOLEAN,
           Call(call, c, force)
    PROVE  /\ op' \in Ops /\ op'.call = call /\ op'.target = None
           /\ op'.pc = IF call = "start" THEN "gate" ELSE "stopGate"
BY DEF Ops, Idle, Call, StartPcs, StopPcs

\* What an automatic restart takes the lock with.
LEMMA AutoOp ==
    ASSUME StateType, NEW g \in Gen, AutoCall(g)
    PROVE  op' \in Ops /\ op'.call = "auto" /\ op'.target = None /\ op'.pc = "gate"
<1>1. restart[g] \in Config \cup {None} /\ "auto" \in Calls /\ "gate" \in StartPcs
    BY DEF StateType, Calls, StartPcs
<1>2. op' = [Idle EXCEPT !.call = "auto", !.config = restart[g], !.pc = "gate"]
    BY DEF AutoCall
<1> QED BY <1>1, <1>2 DEF Ops, Idle

\* A call that moves on with a target, or with a receipt.
LEMMA TargetOp ==
    ASSUME op \in Ops, NEW pc \in StartPcs \cup StopPcs, NEW g \in Gen,
           op' = [op EXCEPT !.pc = pc, !.target = g]
    PROVE  /\ op' \in Ops /\ op'.pc = pc /\ op'.target = g
           /\ op'.call = op.call /\ op'.force = op.force /\ op'.receipt = op.receipt
BY DEF Ops

LEMMA ReceiptOp ==
    ASSUME op \in Ops, NEW pc \in StartPcs \cup StopPcs, NEW kind \in Kinds,
           op' = [op EXCEPT !.pc = pc, !.receipt = kind]
    PROVE  /\ op' \in Ops /\ op'.pc = pc /\ op'.receipt = kind
           /\ op'.call = op.call /\ op'.force = op.force /\ op'.target = op.target
BY DEF Ops

-----------------------------------------------------------------------------
(***************************************************************************)
(* Every step keeps the invariant: the calls that start an engine.         *)
(***************************************************************************)
\* A client's call takes an idle lock; a shutdown closes the gate at once.
LEMMA CallKeeps ==
    ASSUME IInv, NEW call \in Calls \ {"auto"}, NEW c \in Config \cup {None},
           NEW force \in BOOLEAN, Call(call, c, force)
    PROVE  IInv'
<1> USE DEF IInv, TypeInv, Call,
        disk, process, state, accounting, threads, bounds
<1>1. /\ op' \in Ops /\ op'.call = call /\ op'.target = None
      /\ op'.pc = IF call = "start" THEN "gate" ELSE "stopGate"
    BY CallOp
<1>2. StateType'
    BY <1>1 DEF StateType, Ops, MonitorPcs
<1>3. CallInv' /\ ReceiptInv'
    BY <1>1, IdleOp, NoneIsNew
    DEF CallInv, ReceiptInv, Calls, SignalAfterReceipt, Ending, Spawned, StartPcs, StopPcs, StateType
<1>4. ASSUME blips = 0 PROVE UpInv'
    <2>1. op.pc = None /\ op'.pc \in {"gate", "stopGate"}
        BY <1>1, IdleOp
    <2>2. UNCHANGED <<engine, receipts, gaps, child, pidfile, stopping, stopRequested, up,
                      durable, guarded, monitor, flags, reaped, restart, wanted>>
        OBVIOUS
    <2>3. shutdownRequested' = (shutdownRequested \/ call = "shutdown")
        OBVIOUS
    <2> HIDE DEF Call
    <2>4. ChildInv' /\ LifeInv' /\ AccountInv'
        BY <2>1, <2>2, <1>4, NoneIsNew
        DEF UpInv, ChildInv, LifeInv, AccountInv, Accounted, Spawned, Ending, StartPcs, StopPcs
    <2>5. GateInv' /\ WantInv'
        BY <2>1, <2>2, <2>3, <1>1, <1>4 DEF UpInv, GateInv, WantInv
    <2> QED BY <2>2, <2>4, <2>5, <1>4 DEF UpInv
<1> QED BY <1>1, <1>2, <1>3, <1>4

\* An automatic restart takes an idle lock: some engine had been launched.
LEMMA AutoCallKeeps ==
    ASSUME IInv, NEW g \in Gen, AutoCall(g)
    PROVE  IInv'
<1> USE DEF IInv, TypeInv, AutoCall, Calls,
        disk, process, state, accounting, threads, bounds
<1>1. /\ op' \in Ops /\ op'.call = "auto" /\ op'.target = None
      /\ op'.pc = "gate"
    BY AutoOp
<1>2. StateType'
    BY <1>1 DEF StateType, Ops, MonitorPcs
<1>3. CallInv' /\ ReceiptInv'
    BY <1>1, IdleOp, NoneIsNew
    DEF CallInv, ReceiptInv, SignalAfterReceipt, Ending, Spawned, StartPcs, StopPcs, StateType
<1>4. blips' = 0 => UpInv'
    BY <1>1, NoneIsNew, IdleOp
    DEF UpInv, ChildInv, LifeInv, AccountInv, GateInv, WantInv, Accounted, StateType, Ops,
        CallInv, ReceiptInv, Ending, Spawned, StartPcs, StopPcs, Seen, Gone, MonitorPcs
<1> QED BY <1>1, <1>2, <1>3, <1>4

\* A start that ends without an engine of its own, or with one it cannot record.
LEMMA StartEndsKeeps ==
    ASSUME IInv, StartEnds \/ SpawnFails \/ SavePidfileFails
    PROVE  IInv'
<1> USE DEF IInv, TypeInv, StartEnds, SpawnFails, SavePidfileFails, Blocked, Running,
        Automatic,
        disk, process, state, accounting, threads, bounds
<1>1. op' \in Ops /\ op' = Idle
    BY IdleOp
<1>2. StateType'
    BY ZenonT(60), <1>1 DEF StateType, Ops, MonitorPcs
<1>3. CallInv' /\ ReceiptInv'
    BY <1>1, IdleOp, NoneIsNew
    DEF CallInv, ReceiptInv, SignalAfterReceipt, Ending, Spawned, StartPcs, StopPcs, StateType
<1>4. blips' = 0 => UpInv'
    BY <1>1, NoneIsNew, IdleOp
    DEF UpInv, ChildInv, LifeInv, AccountInv, GateInv, WantInv, Accounted, StateType, Ops,
        CallInv, ReceiptInv, Ending, Spawned, StartPcs, StopPcs, Seen, Gone, Calls, MonitorPcs
<1> QED BY <1>1, <1>2, <1>3, <1>4

\* The gate opens only onto an empty manager, before any shutdown, for an engine
\* that is wanted: an automatic restart saw no stop, so a client's start stands.
LEMMA StartGateKeeps ==
    ASSUME IInv, StartGate
    PROVE  IInv'
<1> USE DEF IInv, TypeInv, StartGate, Blocked, Running, Automatic,
        disk, process, state, accounting, threads, bounds
<1>1. /\ op' \in Ops /\ op'.pc = "spawn" /\ op'.call = op.call
      /\ op'.target = op.target
    BY GotoOp DEF StartPcs, StopPcs
<1>2. StateType'
    BY <1>1 DEF StateType, Ops, MonitorPcs
<1>3. CallInv' /\ ReceiptInv'
    BY <1>1, IdleOp, NoneIsNew
    DEF CallInv, ReceiptInv, SignalAfterReceipt, Ending, Spawned, StartPcs, StopPcs, StateType
<1>4. blips' = 0 => UpInv'
    BY ZenonT(60), <1>1, NoneIsNew
    DEF UpInv, ChildInv, LifeInv, AccountInv, GateInv, WantInv, Accounted, StateType, Ops,
        CallInv, ReceiptInv, Ending, Spawned, StartPcs, StopPcs, Seen, Gone, Calls, MonitorPcs
<1> QED BY <1>1, <1>2, <1>3, <1>4

\* The new engine is the only one, and the call's until it is installed.
LEMMA SpawnKeeps ==
    ASSUME IInv, NEW g \in Gen, Spawn(g)
    PROVE  IInv'
<1> USE DEF IInv, TypeInv, Spawn,
        disk, process, state, accounting, threads, bounds
<1>1. /\ op' \in Ops /\ op'.pc = "install" /\ op'.call = op.call
      /\ op'.target = g
    BY TargetOp DEF StartPcs
<1>2. StateType'
    BY <1>1 DEF StateType, Ops, MonitorPcs
<1>3. CallInv' /\ ReceiptInv'
    BY <1>1, IdleOp, NoneIsNew
    DEF CallInv, ReceiptInv, SignalAfterReceipt, Ending, Spawned, StartPcs, StopPcs, StateType
<1>4. blips' = 0 => UpInv'
    BY <1>1, NoneIsNew
    DEF UpInv, ChildInv, LifeInv, AccountInv, GateInv, WantInv, Accounted, StateType, Ops,
        CallInv, ReceiptInv, Ending, Spawned, StartPcs, StopPcs, Seen, Gone, Calls, MonitorPcs
<1> QED BY <1>1, <1>2, <1>3, <1>4

\* The engine becomes the child of a manager that had none.
LEMMA InstallKeeps ==
    ASSUME IInv, Install
    PROVE  IInv'
<1> USE DEF IInv, TypeInv, Install,
        disk, process, state, accounting, threads, bounds
<1>1. /\ op' \in Ops /\ op'.pc = "save" /\ op'.call = op.call
      /\ op'.target = op.target
    BY GotoOp DEF StartPcs, StopPcs
<1>2. StateType'
    BY ZenonT(60), <1>1 DEF StateType, Ops, CallInv, Spawned
<1>3. CallInv' /\ ReceiptInv'
    BY <1>1, IdleOp, NoneIsNew
    DEF CallInv, ReceiptInv, SignalAfterReceipt, Ending, Spawned, StartPcs, StopPcs, StateType
<1>4. blips' = 0 => UpInv'
    BY <1>1, NoneIsNew
    DEF UpInv, ChildInv, LifeInv, AccountInv, GateInv, WantInv, Accounted, StateType, Ops,
        CallInv, ReceiptInv, Ending, Spawned, StartPcs, StopPcs, Seen, Gone, Calls, MonitorPcs
<1> QED BY <1>1, <1>2, <1>3, <1>4

\* The pidfile names the child; whom it named before was dead and accounted for.
LEMMA SavePidfileKeeps ==
    ASSUME IInv, SavePidfile
    PROVE  IInv'
<1> USE DEF IInv, TypeInv, SavePidfile,
        disk, process, state, accounting, threads, bounds
<1>1. /\ op' \in Ops /\ op'.pc = "watch" /\ op'.call = op.call
      /\ op'.target = op.target
    BY GotoOp DEF StartPcs, StopPcs
<1>2. StateType'
    BY <1>1 DEF StateType, Ops, CallInv, Spawned
<1>3. CallInv' /\ ReceiptInv'
    BY <1>1, IdleOp, NoneIsNew
    DEF CallInv, ReceiptInv, SignalAfterReceipt, Ending, Spawned, StartPcs, StopPcs, StateType
<1>4. blips' = 0 => UpInv'
    BY <1>1, NoneIsNew
    DEF UpInv, ChildInv, LifeInv, AccountInv, GateInv, WantInv, Accounted, StateType, Ops,
        CallInv, ReceiptInv, Ending, Spawned, StartPcs, StopPcs, Seen, Gone, Calls, MonitorPcs
<1> QED BY <1>1, <1>2, <1>3, <1>4

\* The child gets its monitor, and the lock is free.
LEMMA BeginWatchKeeps ==
    ASSUME IInv, BeginWatch
    PROVE  IInv'
<1> USE DEF IInv, TypeInv, BeginWatch,
        disk, process, state, accounting, threads, bounds
<1>1. op' \in Ops /\ op' = Idle
    BY IdleOp
<1>2. StateType'
    BY ZenonT(60), <1>1 DEF StateType, Ops, MonitorPcs
<1>3. CallInv' /\ ReceiptInv'
    BY <1>1, IdleOp, NoneIsNew
    DEF CallInv, ReceiptInv, SignalAfterReceipt, Ending, Spawned, StartPcs, StopPcs, StateType
<1>4. blips' = 0 => UpInv'
    BY <1>1, NoneIsNew, IdleOp
    DEF UpInv, ChildInv, LifeInv, AccountInv, GateInv, WantInv, Accounted, StateType, Ops,
        CallInv, ReceiptInv, Ending, Spawned, StartPcs, StopPcs, Seen, Gone, Calls, MonitorPcs
<1> QED BY <1>1, <1>2, <1>3, <1>4

-----------------------------------------------------------------------------
(***************************************************************************)
(* Every step keeps the invariant: the calls that stop an engine.          *)
(***************************************************************************)
\* A stop with nothing to stop ends, or goes on to start the replacement; one with
\* a child makes it its target.
LEMMA StopGateKeeps ==
    ASSUME IInv, StopGate
    PROVE  IInv'
<1> USE DEF IInv, TypeInv, StopGate,
        disk, process, state, accounting, threads, bounds
<1>1. /\ op' \in Ops
      /\ \/ op' = Idle /\ child = None
         \/ /\ op'.pc = "gate" /\ op'.call = op.call /\ op.call = "switch"
            /\ child = None
         \/ /\ op'.pc = "prepare" /\ op'.call = op.call
            /\ op'.target = child /\ child \in Gen
    <2>1. CASE child = None /\ op.call = "switch"
        BY <2>1, GotoOp DEF Stopped, StartPcs
    <2>2. CASE child = None /\ op.call # "switch"
        <3>1. op' = Idle
            BY <2>2, Zenon DEF Stopped
        <3> QED BY <2>2, <3>1, IdleOp
    <2>3. CASE child # None
        BY <2>3, TargetOp DEF StateType, StopPcs
    <2> QED BY <2>1, <2>2, <2>3
<1>2. StateType'
    BY <1>1 DEF StateType, Ops
<1>3. CallInv' /\ ReceiptInv'
    BY <1>1, IdleOp, NoneIsNew
    DEF CallInv, ReceiptInv, SignalAfterReceipt, Ending, Spawned, StartPcs, StopPcs, StateType
<1>4. child = None => stopping' = stopping
    OBVIOUS
<1>5. blips' = 0 => UpInv'
    BY <1>1, <1>4, IdleOp, NoneIsNew
    DEF UpInv, ChildInv, LifeInv, AccountInv, GateInv, WantInv, Accounted, StateType, Ops,
        CallInv, Ending, Spawned, StartPcs, StopPcs, Seen, Gone, Calls
<1> QED BY <1>1, <1>2, <1>3, <1>5

\* The engine that seals or snapshots its totals is alive, so it has no crash
\* receipt, and the guard is held.
LEMMA PrepareKeeps ==
    ASSUME IInv, NEW kind \in Kinds, Prepare(kind)
    PROVE  IInv'
<1> USE DEF IInv, TypeInv, Prepare, Prepared, Totals, Alive,
        disk, process, state, accounting, threads, bounds
<1>1. /\ op' \in Ops /\ op'.pc = "seal" /\ op'.call = op.call
      /\ op'.target = op.target
      /\ op'.receipt = kind /\ kind \in Prepared
    BY ReceiptOp DEF StopPcs
<1>2. StateType'
    BY <1>1 DEF StateType, Ops, MonitorPcs
<1>3. CallInv' /\ ReceiptInv'
    BY <1>1, IdleOp, NoneIsNew
    DEF CallInv, ReceiptInv, SignalAfterReceipt, Ending, Spawned, StartPcs, StopPcs, StateType
<1>4. blips' = 0 => UpInv'
    BY <1>1, NoneIsNew
    DEF UpInv, ChildInv, LifeInv, AccountInv, GateInv, WantInv, Accounted, StateType, Ops,
        CallInv, ReceiptInv, Ending, Spawned, StartPcs, StopPcs, Seen, Gone, Calls, MonitorPcs
<1> QED BY <1>1, <1>2, <1>3, <1>4

\* The seal puts the target's receipt on disk and remembers it, before any monitor
\* can look.
LEMMA SealKeeps ==
    ASSUME IInv, Seal
    PROVE  IInv'
<1> USE DEF IInv, TypeInv, Seal, disk, process, state, threads, bounds
<1>1. /\ op' \in Ops /\ op'.pc = "terminate" /\ op'.call = op.call
      /\ op'.target = op.target /\ op.target \in Gen /\ op.receipt \in Kinds
    BY GotoOp DEF StopPcs, CallInv, Ending, Kinds
<1>2. StateType'
    BY ZenonT(60), <1>1 DEF StateType, Kinds
<1>3. CallInv' /\ ReceiptInv'
    BY <1>1, NoneIsNew
    DEF CallInv, ReceiptInv, SignalAfterReceipt, Ending, Spawned, StartPcs, StopPcs, StateType
<1>4. ASSUME blips = 0 PROVE UpInv'
    <2>1. ChildInv' /\ LifeInv' /\ GateInv' /\ WantInv'
        BY <1>1, <1>4, NoneIsNew
        DEF UpInv, ChildInv, LifeInv, GateInv, WantInv, Ending, Spawned, Seen, Gone
    <2>2. \A g \in Gen : receipts'[g] = IF g = op.target THEN receipts[g] \cup {op.receipt}
                                                         ELSE receipts[g]
        BY <1>1 DEF StateType
    <2>3. op.receipt # "crash"
        BY DEF CallInv, Totals
    <2>4. AccountInv'
        BY <1>1, <1>4, <2>2, <2>3 DEF UpInv, AccountInv, Accounted
    <2> QED BY <2>1, <2>4, <1>4 DEF UpInv
<1> QED BY <1>1, <1>2, <1>3, <1>4

\* A stop that raises leaves a child that can be stopped again.
LEMMA RaiseKeeps ==
    ASSUME IInv, PrepareFails \/ SealFails \/ KillTimesOut
    PROVE  IInv'
<1> USE DEF IInv, TypeInv, PrepareFails, SealFails, KillTimesOut, Raise,
        disk, process, state, accounting, threads, bounds
<1>1. op' \in Ops /\ op' = Idle
    BY IdleOp
<1>2. StateType'
    <2>1. (stopping /\ child # op.target) \in BOOLEAN
          /\ (shutdownRequested /\ op.call # "shutdown") \in BOOLEAN
        OBVIOUS
    <2>2. stopping' \in BOOLEAN /\ shutdownRequested' \in BOOLEAN
        BY <2>1
    <2>3. /\ diskFaults' \in {diskFaults, diskFaults + 1}
          /\ guarded' = guarded \/ guarded' = FALSE
        OBVIOUS
    <2>5. diskFaults' \in Nat
        BY <2>3 DEF StateType
    <2>6. guarded' \in BOOLEAN
        BY <2>3, Zenon DEF StateType
    <2>4. UNCHANGED <<engine, configOf, receipts, monitor, flags, restart, config, child, pidfile,
                      signalled, gaps, durable, reaped, up, stopRequested, wanted, calls, blips>>
        OBVIOUS
    <2> HIDE DEF PrepareFails, SealFails, KillTimesOut
    <2> QED BY <2>2, <2>4, <2>5, <2>6 DEF StateType
<1>3. CallInv' /\ ReceiptInv'
    BY <1>1, IdleOp, NoneIsNew
    DEF CallInv, ReceiptInv, SignalAfterReceipt, Ending, Spawned, StartPcs, StopPcs, StateType
<1>4. blips' = 0 => UpInv'
    BY <1>1, NoneIsNew, IdleOp
    DEF UpInv, ChildInv, LifeInv, AccountInv, GateInv, WantInv, Accounted, StateType, Ops,
        CallInv, ReceiptInv, Ending, Spawned, StartPcs, StopPcs, Seen, Gone, Calls, MonitorPcs
<1> QED BY <1>1, <1>2, <1>3, <1>4

\* The signal goes to the target whose receipt is on disk; one already reaped needs
\* none, and is the child no more.
LEMMA TerminateKeeps ==
    ASSUME IInv, Terminate
    PROVE  IInv'
<1> USE DEF IInv, TypeInv, Terminate,
        disk, process, state, accounting, threads, bounds
<1>0. \/ op.target \in reaped /\ op.call = "switch" /\ Goto("gate")
      \/ op.target \in reaped /\ op.call # "switch" /\ op' = Idle
      \/ Goto("wait")
    BY DEF Stopped
<1>1. /\ op' \in Ops
      /\ \/ op' = Idle /\ op.target \in reaped
         \/ /\ op.target \in reaped /\ op.call = "switch" /\ op'.pc = "gate"
            /\ op'.call = op.call /\ op'.target = op.target
         \/ op'.pc = "wait" /\ op'.call = op.call /\ op'.target = op.target
    BY <1>0, IdleOp, GotoOp DEF StartPcs, StopPcs
<1>2. StateType'
    BY <1>1 DEF StateType, Ops, CallInv, Ending
<1>3. CallInv' /\ ReceiptInv'
    BY <1>1, IdleOp, NoneIsNew
    DEF CallInv, ReceiptInv, SignalAfterReceipt, Ending, Spawned, StartPcs, StopPcs, StateType
<1>4. blips' = 0 => UpInv'
    BY <1>1, NoneIsNew, IdleOp
    DEF UpInv, ChildInv, LifeInv, AccountInv, GateInv, WantInv, Accounted, StateType, Ops,
        CallInv, ReceiptInv, Ending, Spawned, StartPcs, StopPcs, Seen, Gone, Calls, MonitorPcs
<1> QED BY <1>1, <1>2, <1>3, <1>4

\* A stop ends when its target was reaped: it is the child no more.
LEMMA StopDoneKeeps ==
    ASSUME IInv, StopDone
    PROVE  IInv'
<1> USE DEF IInv, TypeInv, StopDone,
        disk, process, state, accounting, threads, bounds
<1>0. \/ op.call = "switch" /\ Goto("gate")
      \/ op.call # "switch" /\ op' = Idle
    BY DEF Stopped
<1>1. /\ op' \in Ops
      /\ \/ op' = Idle
         \/ /\ op.call = "switch" /\ op'.pc = "gate"
            /\ op'.call = op.call /\ op'.target = op.target
    BY <1>0, IdleOp, GotoOp DEF StartPcs
<1>2. StateType'
    BY <1>1 DEF StateType, Ops, MonitorPcs
<1>3. CallInv' /\ ReceiptInv'
    BY <1>1, IdleOp, NoneIsNew
    DEF CallInv, ReceiptInv, SignalAfterReceipt, Ending, Spawned, StartPcs, StopPcs, StateType
<1>4. blips' = 0 => UpInv'
    BY <1>1, NoneIsNew, IdleOp
    DEF UpInv, ChildInv, LifeInv, AccountInv, GateInv, WantInv, Accounted, StateType, Ops,
        CallInv, ReceiptInv, Ending, Spawned, StartPcs, StopPcs, Seen, Gone, Calls, MonitorPcs
<1> QED BY <1>1, <1>2, <1>3, <1>4

\* The stop waits once more after SIGKILL.
LEMMA KillKeeps ==
    ASSUME IInv, Kill
    PROVE  IInv'
<1> USE DEF IInv, TypeInv, Kill,
        disk, process, state, accounting, threads, bounds
<1>1. /\ op' \in Ops /\ op'.pc = "killed" /\ op'.call = op.call
      /\ op'.target = op.target
    BY GotoOp DEF StartPcs, StopPcs
<1>2. StateType'
    BY <1>1 DEF StateType, Ops, MonitorPcs
<1>3. CallInv' /\ ReceiptInv'
    BY <1>1, IdleOp, NoneIsNew
    DEF CallInv, ReceiptInv, SignalAfterReceipt, Ending, Spawned, StartPcs, StopPcs, StateType
<1>4. blips' = 0 => UpInv'
    BY <1>1, NoneIsNew
    DEF UpInv, ChildInv, LifeInv, AccountInv, GateInv, WantInv, Accounted, StateType, Ops,
        CallInv, ReceiptInv, Ending, Spawned, StartPcs, StopPcs, Seen, Gone, Calls, MonitorPcs
<1> QED BY <1>1, <1>2, <1>3, <1>4

-----------------------------------------------------------------------------
(***************************************************************************)
(* Every step keeps the invariant: the monitors and the failures.          *)
(***************************************************************************)
\* The monitor of a dead engine finds it installed.
LEMMA MonitorWakeKeeps ==
    ASSUME IInv, NEW g \in Gen, MonitorWake(g)
    PROVE  IInv'
<1> USE DEF IInv, TypeInv, MonitorWake, MonitorAt,
        disk, process, state, accounting, threads, bounds
<1>1. op' = op
    BY DEF MonitorWake
<1>2. StateType'
    BY <1>1 DEF StateType, Ops, MonitorPcs
<1>3. CallInv' /\ ReceiptInv'
    BY <1>1, IdleOp, NoneIsNew
    DEF CallInv, ReceiptInv, SignalAfterReceipt, Ending, Spawned, StartPcs, StopPcs, StateType
<1>4. blips' = 0 => UpInv'
    BY <1>1, NoneIsNew
    DEF UpInv, ChildInv, LifeInv, AccountInv, GateInv, WantInv, Accounted, StateType, Ops,
        CallInv, ReceiptInv, Ending, Spawned, StartPcs, StopPcs, Seen, Gone, Calls, MonitorPcs
<1> QED BY <1>1, <1>2, <1>3, <1>4

\* The monitor writes a crash receipt for an engine that has none; while a seal is
\* in progress the guard holds it back.
LEMMA MonitorRecordKeeps ==
    ASSUME IInv, NEW g \in Gen, MonitorRecord(g)
    PROVE  IInv'
<1> USE DEF IInv, TypeInv, MonitorRecord, MonitorAt,
        disk, process, state, accounting, threads, bounds
<1>1. op' = op /\ UNCHANGED <<engine, child, pidfile, gaps, guarded, restart, reaped, flags>>
    OBVIOUS
<1>2. StateType'
    BY DEF StateType, Kinds, MonitorPcs
<1>3. \A h \in Gen : receipts'[h] = IF h = g /\ Unrecorded(g) THEN receipts[h] \cup {"crash"}
                                                              ELSE receipts[h]
    BY DEF StateType
<1>4. CallInv' /\ ReceiptInv'
    <2>1. op.pc \in {"terminate", "wait", "killed"} => op.target \in Gen
        BY DEF CallInv, Ending
    <2> QED BY ZenonT(60), <1>1, <1>3, <2>1 DEF CallInv, ReceiptInv, SignalAfterReceipt, StateType
<1>5. ASSUME blips = 0 PROVE UpInv'
    <2>1. ChildInv' /\ LifeInv' /\ GateInv' /\ WantInv'
        BY <1>1, <1>5
        DEF UpInv, ChildInv, LifeInv, GateInv, WantInv, Ending, Spawned, Seen, Gone, StateType,
            CallInv
    <2>2. engine[g] = "dead" /\ g = child /\ flags[g].current /\ ~guarded /\ op.pc # "seal"
        BY <1>5 DEF UpInv, LifeInv, AccountInv, Seen
    <2>3. \A h \in Gen : h \in durable' <=> h \in durable \/ h = g
        BY <1>5, <2>2 DEF UpInv, AccountInv, Unrecorded
    <2>4. \A h \in Gen \ {g} : receipts'[h] = receipts[h] /\ monitor'[h] = monitor[h]
        BY <1>3 DEF StateType
    <2>5. receipts'[g] # {} /\ monitor'[g] = "recorded"
        BY ZenonT(60), <1>3, <1>5, <2>2 DEF UpInv, AccountInv, Unrecorded, StateType
    <2>6. AccountInv'
        BY <1>1, <1>5, <2>2, <2>3, <2>4, <2>5 DEF UpInv, AccountInv, Accounted
    <2> QED BY <2>1, <2>6, <1>5 DEF UpInv
<1> QED BY <1>1, <1>2, <1>4, <1>5

\* A receipt that cannot be written is reported as a gap, and stops restarts.
LEMMA MonitorRecordFailsKeeps ==
    ASSUME IInv, NEW g \in Gen, MonitorRecordFails(g)
    PROVE  IInv'
<1> USE DEF IInv, TypeInv, MonitorRecordFails, MonitorAt, Unrecorded,
        disk, process, state, accounting, threads, bounds
<1>1. op' = op
    BY DEF MonitorRecordFails
<1>2. StateType'
    BY <1>1 DEF StateType, Ops, MonitorPcs
<1>3. CallInv' /\ ReceiptInv'
    BY <1>1, IdleOp, NoneIsNew
    DEF CallInv, ReceiptInv, SignalAfterReceipt, Ending, Spawned, StartPcs, StopPcs, StateType
<1>4. blips' = 0 => UpInv'
    BY <1>1, NoneIsNew
    DEF UpInv, ChildInv, LifeInv, AccountInv, GateInv, WantInv, Accounted, StateType, Ops,
        CallInv, ReceiptInv, Ending, Spawned, StartPcs, StopPcs, Seen, Gone, Calls, MonitorPcs
<1> QED BY <1>1, <1>2, <1>3, <1>4

\* The manager forgets a child that is dead and accounted for.
LEMMA MonitorForgetKeeps ==
    ASSUME IInv, NEW g \in Gen, MonitorForget(g)
    PROVE  IInv'
<1> USE DEF IInv, TypeInv, MonitorForget, MonitorAt,
        disk, process, state, accounting, threads, bounds
<1>1. op' = op
    BY DEF MonitorForget
<1>2. StateType'
    <2>1. (child = g) \in BOOLEAN /\ flags[g] \in [wasStopping : BOOLEAN, current : BOOLEAN]
        BY DEF StateType
    <2>2. flags' \in [Gen -> [wasStopping : BOOLEAN, current : BOOLEAN]]
        BY <2>1 DEF StateType
    <2>3. child' \in Gen \cup {None} /\ stopping' \in BOOLEAN
        BY DEF StateType
    <2> QED BY <2>2, <2>3 DEF StateType, MonitorPcs
<1>3. CallInv' /\ ReceiptInv'
    BY <1>1, IdleOp, NoneIsNew
    DEF CallInv, ReceiptInv, SignalAfterReceipt, Ending, Spawned, StartPcs, StopPcs, StateType
<1>4. blips' = 0 => UpInv'
    BY <1>1, NoneIsNew
    DEF UpInv, ChildInv, LifeInv, AccountInv, GateInv, WantInv, Accounted, StateType, Ops,
        CallInv, ReceiptInv, Ending, Spawned, StartPcs, StopPcs, Seen, Gone, Calls, MonitorPcs
<1> QED BY <1>1, <1>2, <1>3, <1>4

\* The pidfile names no engine that is gone; a newer one it named is the child.
LEMMA MonitorClearKeeps ==
    ASSUME IInv, NEW g \in Gen, MonitorClear(g)
    PROVE  IInv'
<1> USE DEF IInv, TypeInv, MonitorClear, MonitorAt,
        disk, process, state, accounting, threads, bounds
<1>1. op' = op
    BY DEF MonitorClear
<1>2. StateType'
    BY <1>1 DEF StateType, Ops, MonitorPcs
<1>3. CallInv' /\ ReceiptInv'
    BY <1>1, IdleOp, NoneIsNew
    DEF CallInv, ReceiptInv, SignalAfterReceipt, Ending, Spawned, StartPcs, StopPcs, StateType
<1>4. blips' = 0 => UpInv'
    BY <1>1, NoneIsNew
    DEF UpInv, ChildInv, LifeInv, AccountInv, GateInv, WantInv, Accounted, StateType, Ops,
        CallInv, ReceiptInv, Ending, Spawned, StartPcs, StopPcs, Seen, Gone, Calls, MonitorPcs
<1> QED BY <1>1, <1>2, <1>3, <1>4

\* The end is announced last.
LEMMA MonitorReapedKeeps ==
    ASSUME IInv, NEW g \in Gen, MonitorReaped(g)
    PROVE  IInv'
<1> USE DEF IInv, TypeInv, MonitorReaped, MonitorAt,
        disk, process, state, accounting, threads, bounds
<1>1. op' = op
    BY DEF MonitorReaped
<1>2. StateType'
    BY <1>1 DEF StateType, Ops, MonitorPcs
<1>3. CallInv' /\ ReceiptInv'
    BY <1>1, IdleOp, NoneIsNew
    DEF CallInv, ReceiptInv, SignalAfterReceipt, Ending, Spawned, StartPcs, StopPcs, StateType
<1>4. blips' = 0 => UpInv'
    BY <1>1, NoneIsNew
    DEF UpInv, ChildInv, LifeInv, AccountInv, GateInv, WantInv, Accounted, StateType, Ops,
        CallInv, ReceiptInv, Ending, Spawned, StartPcs, StopPcs, Seen, Gone, Calls, MonitorPcs
<1> QED BY <1>1, <1>2, <1>3, <1>4

\* Only a launched engine is restarted.
LEMMA MonitorDecideKeeps ==
    ASSUME IInv, NEW g \in Gen, MonitorDecide(g)
    PROVE  IInv'
<1> USE DEF IInv, TypeInv, MonitorDecide, MonitorAt, DoRestart,
        disk, process, state, accounting, threads, bounds
<1>1. op' = op
    BY DEF MonitorDecide
<1>2. StateType'
    BY <1>1 DEF StateType, Ops, MonitorPcs
<1>3. CallInv' /\ ReceiptInv'
    BY <1>1, IdleOp, NoneIsNew
    DEF CallInv, ReceiptInv, SignalAfterReceipt, Ending, Spawned, StartPcs, StopPcs, StateType
<1>4. blips' = 0 => UpInv'
    BY <1>1, NoneIsNew
    DEF UpInv, ChildInv, LifeInv, AccountInv, GateInv, WantInv, Accounted, StateType, Ops,
        CallInv, ReceiptInv, Ending, Spawned, StartPcs, StopPcs, Seen, Gone, Calls, MonitorPcs
<1> QED BY <1>1, <1>2, <1>3, <1>4

\* The restart thread waits with the config its monitor read.
LEMMA RestartAsyncKeeps ==
    ASSUME IInv, NEW g \in Gen, RestartAsync(g)
    PROVE  IInv'
<1> USE DEF IInv, TypeInv, RestartAsync, MonitorAt,
        disk, process, state, accounting, threads, bounds
<1>1. op' = op
    BY DEF RestartAsync
<1>2. StateType'
    BY <1>1 DEF StateType, Ops, MonitorPcs
<1>3. CallInv' /\ ReceiptInv'
    BY <1>1, IdleOp, NoneIsNew
    DEF CallInv, ReceiptInv, SignalAfterReceipt, Ending, Spawned, StartPcs, StopPcs, StateType
<1>4. blips' = 0 => UpInv'
    BY <1>1, NoneIsNew
    DEF UpInv, ChildInv, LifeInv, AccountInv, GateInv, WantInv, Accounted, StateType, Ops,
        CallInv, ReceiptInv, Ending, Spawned, StartPcs, StopPcs, Seen, Gone, Calls, MonitorPcs
<1> QED BY <1>1, <1>2, <1>3, <1>4

\* An engine that dies stays whose it was.
LEMMA EngineDiesKeeps ==
    ASSUME IInv, NEW g \in Gen, EngineDies(g)
    PROVE  IInv'
<1> USE DEF IInv, TypeInv, EngineDies,
        disk, process, state, accounting, threads, bounds
<1>1. op' = op
    BY DEF EngineDies
<1>2. StateType'
    BY <1>1 DEF StateType, Ops, MonitorPcs
<1>3. CallInv' /\ ReceiptInv'
    BY <1>1, IdleOp, NoneIsNew
    DEF CallInv, ReceiptInv, SignalAfterReceipt, Ending, Spawned, StartPcs, StopPcs, StateType
<1>4. blips' = 0 => UpInv'
    BY <1>1, NoneIsNew
    DEF UpInv, ChildInv, LifeInv, AccountInv, GateInv, WantInv, Accounted, StateType, Ops,
        CallInv, ReceiptInv, Ending, Spawned, StartPcs, StopPcs, Seen, Gone, Calls, MonitorPcs
<1> QED BY <1>1, <1>2, <1>3, <1>4

\* A crash of the daemon keeps what is on disk, and ends the condition blips = 0.
LEMMA BlipKeeps ==
    ASSUME IInv, Blip
    PROVE  IInv'
<1> USE DEF IInv, TypeInv, Blip, ForgetMemory,
        disk, process, state, accounting, threads, bounds
<1>1. /\ op' \in Ops /\ op' = Idle
      /\ blips' \in Nat /\ blips' # 0 /\ blips' <= MaxBlips
    BY IdleOp, BoundsAssumption DEF StateType
<1>2. StateType'
    <2>1. flags' \in [Gen -> [wasStopping : BOOLEAN, current : BOOLEAN]]
        OBVIOUS
    <2>2. monitor' \in [Gen -> MonitorPcs] /\ restart' \in [Gen -> Config \cup {None}]
        BY DEF MonitorPcs
    <2>3. durable' \subseteq Gen /\ reaped' \subseteq Gen /\ guarded' \in BOOLEAN /\ up' \in BOOLEAN
        OBVIOUS
    <2>4. /\ stopping' \in BOOLEAN /\ stopRequested' \in BOOLEAN
          /\ shutdownRequested' \in BOOLEAN
        OBVIOUS
    <2>5. child' \in Gen \cup {None} /\ config' \in Config \cup {None}
        OBVIOUS
    <2>6. UNCHANGED <<engine, configOf, signalled, pidfile, receipts, gaps, wanted, calls,
                      diskFaults>>
        OBVIOUS
    <2> QED BY <1>1, <2>1, <2>2, <2>3, <2>4, <2>5, <2>6 DEF StateType
<1>3. CallInv' /\ ReceiptInv'
    BY <1>1, IdleOp, NoneIsNew
    DEF CallInv, ReceiptInv, SignalAfterReceipt, Ending, Spawned, StartPcs, StopPcs
<1> QED BY <1>1, <1>2, <1>3

\* A daemon that boots has crashed before.
LEMMA BootKeeps ==
    ASSUME IInv, Boot
    PROVE  IInv'
<1> USE DEF IInv, TypeInv, Boot, Alive,
        disk, process, state, accounting, threads, bounds
<1>1. op' = op
    BY DEF Boot
<1>2. StateType'
    BY <1>1 DEF StateType, Ops, MonitorPcs
<1>3. CallInv' /\ ReceiptInv'
    BY <1>1, IdleOp, NoneIsNew
    DEF CallInv, ReceiptInv, SignalAfterReceipt, Ending, Spawned, StartPcs, StopPcs, StateType
<1>4. blips' = 0 => UpInv'
    BY <1>1, NoneIsNew
    DEF UpInv, ChildInv, LifeInv, AccountInv, GateInv, WantInv, Accounted, StateType, Ops,
        CallInv, ReceiptInv, Ending, Spawned, StartPcs, StopPcs, Seen, Gone, Calls, MonitorPcs
<1> QED BY <1>1, <1>2, <1>3, <1>4

-----------------------------------------------------------------------------
(***************************************************************************)
(* The inductive invariant, and what it gives.                             *)
(***************************************************************************)
LEMMA InitIInv == Init => IInv
<1> SUFFICES ASSUME Init PROVE IInv
    OBVIOUS
<1> USE DEF Init
<1>1. op \in Ops /\ op.pc = None /\ op.call = None
    BY IdleOp
<1>2. StateType
    <2>1. flags \in [Gen -> [wasStopping : BOOLEAN, current : BOOLEAN]]
        OBVIOUS
    <2>2. monitor \in [Gen -> MonitorPcs] /\ restart \in [Gen -> Config \cup {None}]
        BY DEF MonitorPcs
    <2>3. 0 <= MaxBlips
        BY BoundsAssumption
    <2> QED BY <2>1, <2>2, <2>3 DEF StateType
<1>3. CallInv /\ ReceiptInv
    BY <1>1, NoneIsNew
    DEF CallInv, ReceiptInv, SignalAfterReceipt, Ending, Spawned, StartPcs, StopPcs
<1>4. UpInv
    BY <1>1, NoneIsNew
    DEF UpInv, ChildInv, LifeInv, AccountInv, GateInv, WantInv, Spawned, Ending, Seen, Gone,
        StartPcs, StopPcs, Calls
<1> QED BY <1>1, <1>2, <1>3, <1>4 DEF IInv, TypeInv

LEMMA NextIInv == IInv /\ [Next]_vars => IInv'
<1> SUFFICES ASSUME IInv, [Next]_vars PROVE IInv'
    OBVIOUS
<1>1. CASE UNCHANGED vars
    BY <1>1
    DEF vars, disk, process, state, accounting, threads, bounds, IInv, TypeInv, StateType, CallInv,
        ReceiptInv, SignalAfterReceipt, UpInv, ChildInv, LifeInv, AccountInv, Accounted, GateInv,
        WantInv
<1>2. CASE ClientCalls
    BY <1>2, CallKeeps DEF ClientCalls, Calls
<1>3. CASE StartStep
    BY <1>3, StartEndsKeeps, StartGateKeeps, SpawnKeeps, InstallKeeps, SavePidfileKeeps,
       BeginWatchKeeps
    DEF StartStep
<1>4. CASE StopStep
    BY <1>4, StopGateKeeps, PrepareKeeps, SealKeeps, RaiseKeeps, TerminateKeeps, StopDoneKeeps,
       KillKeeps
    DEF StopStep
<1>5. CASE \E g \in Gen : MonitorStep(g)
    BY <1>5, MonitorWakeKeeps, MonitorRecordKeeps, MonitorRecordFailsKeeps, MonitorForgetKeeps,
       MonitorClearKeeps, MonitorReapedKeeps, MonitorDecideKeeps, RestartAsyncKeeps
    DEF MonitorStep
<1> QED BY <1>1, <1>2, <1>3, <1>4, <1>5, AutoCallKeeps, EngineDiesKeeps, BlipKeeps, BootKeeps
        DEF Next

THEOREM ManagerInvariant == Spec => []IInv
BY InitIInv, NextIInv, PTL DEF Spec

\* No engine is signalled before a receipt for it is on disk, whatever crashes,
\* fails or races, the daemon's own crashes included (daemon/accounting.py:3-4).
THEOREM ReceiptsComeFirst == Spec => []SignalAfterReceipt
<1>1. IInv => SignalAfterReceipt
    BY DEF IInv, ReceiptInv
<1> QED BY <1>1, ManagerInvariant, PTL

\* While the daemon stays up, a live engine is the child, or the one a start is
\* installing into an empty manager.
LEMMA AliveIsHeld ==
    ASSUME IInv, blips = 0
    PROVE  Alive \subseteq {IF op.pc = "install" THEN op.target ELSE child}
BY NoneIsNew DEF IInv, UpInv, ChildInv, LifeInv, Alive

\* One engine lives at a time, as long as the daemon does not crash
\* (serve_manager.py:1).
THEOREM OneEngineLives == Spec => [](blips = 0 => OneEngine)
<1>1. ASSUME IInv, blips = 0 PROVE OneEngine
    <2> DEFINE held == IF op.pc = "install" THEN op.target ELSE child
    <2>1. Alive \subseteq {held}
        BY <1>1, AliveIsHeld
    <2>2. IsFiniteSet({held}) /\ Cardinality({held}) = 1
        BY FS_Singleton
    <2>3. Cardinality(Alive) <= 1
        BY <2>1, <2>2, FS_Subset, SMT
    <2> QED BY <2>3 DEF OneEngine
<1> QED BY <1>1, ManagerInvariant, PTL

\* Between calls no live engine is out of reach of a later stop, as long as the
\* daemon does not crash (README.md:85-87).
THEOREM NoneIsOrphaned == Spec => [](blips = 0 => NoOrphan)
<1>1. ASSUME IInv, blips = 0 PROVE NoOrphan
    BY <1>1, AliveIsHeld, IdleOp, NoneIsNew DEF NoOrphan, StartPcs
<1> QED BY <1>1, ManagerInvariant, PTL

\* The daemon does not crash where the bound allows no crash.
LEMMA NoBlips ==
    ASSUME MaxBlips = 0
    PROVE  IInv => blips = 0
BY DEF IInv, TypeInv, StateType

\* An automatic restart launches nothing after a stop until a client starts again,
\* as long as the daemon, whose memory holds the stop, does not crash
\* (serve_manager.py:225-226).
THEOREM StopsStick ==
    ASSUME MaxBlips = 0
    PROVE  Spec => StopSticks
<1>1. ASSUME IInv, [Next]_vars
      PROVE  [engine' # engine /\ op.pc = "spawn" /\ Automatic => wanted]_vars
    BY <1>1, NoBlips DEF IInv, UpInv, WantInv
<1> QED BY <1>1, ManagerInvariant, PTL DEF Spec, StopSticks

-----------------------------------------------------------------------------
(***************************************************************************)
(* The manager implements the ledger.                                      *)
(***************************************************************************)
\* Whom the manager, its pidfile or a start that has spawned answers for.
LEMMA HeldIs ==
    /\ \A g \in Gen : g \in Held <=> g = child \/ g = pidfile \/ (op.pc = "install" /\ g = op.target)
    /\ Held \subseteq Gen
BY DEF Held

\* The ledger does not see a step that changes none of its parts.
LEMMA Unseen ==
    ASSUME Held' = Held, Gate' = Gate,
           UNCHANGED <<engine, receipts, gaps, signalled, reaped>>
    PROVE  [Ledger!Next]_(Ledger!ledger)
BY DEF Ledger!ledger

\* A call that ends or moves on with the same call and the same latch keeps the
\* gate as it was.
LEMMA GateStays ==
    ASSUME shutdownRequested' = shutdownRequested,
           op.call = "shutdown" <=> op'.call = "shutdown"
    PROVE  Gate' = Gate
BY DEF Gate

\* Calls and latches move between the gate's three positions.
LEMMA GateMoves ==
    ASSUME Held' = Held, UNCHANGED <<engine, receipts, gaps, signalled, reaped>>,
           \/ Gate' = "closing"
           \/ Gate = "closing" /\ Gate' = "open"
           \/ Gate = "closing" /\ Gate' = "closed" /\ Alive = {}
    PROVE  [Ledger!Next]_(Ledger!ledger)
BY DEF Ledger!Next, Ledger!Turn, Ledger!NoneAlive, Alive

\* A client's call is seen only by the gate that a shutdown closes.
LEMMA CallRefines ==
    ASSUME IInv, NEW call \in Calls \ {"auto"}, NEW c \in Config \cup {None},
           NEW force \in BOOLEAN, Call(call, c, force)
    PROVE  [Ledger!Next]_(Ledger!ledger)
<1>1. op'.call = call /\ op'.pc \in {"gate", "stopGate"}
    BY CallOp
<1>2. /\ op.pc = None /\ op.call = None
      /\ UNCHANGED <<engine, receipts, gaps, signalled, reaped, child, pidfile>>
      /\ shutdownRequested' = (shutdownRequested \/ call = "shutdown")
    BY IdleOp DEF Call, disk, process, threads
<1>3. Held' = Held
    BY <1>1, <1>2, NoneIsNew DEF Held, StartPcs
<1>4. CASE call = "shutdown"
    BY <1>1, <1>2, <1>3, <1>4, GateMoves DEF Gate
<1>5. CASE call # "shutdown"
    <2>1. shutdownRequested' = shutdownRequested
        BY <1>2, <1>5 DEF IInv, TypeInv, StateType
    <2>2. None # "shutdown"
        BY NoneIsNew DEF Calls
    <2>3. Gate' = Gate
        BY <1>1, <1>2, <1>5, <2>1, <2>2, GateStays
    <2> QED BY <1>2, <1>3, <2>3, Unseen
<1> QED BY <1>4, <1>5

\* An automatic restart takes the lock unseen.
LEMMA AutoCallRefines ==
    ASSUME IInv, NEW g \in Gen, AutoCall(g)
    PROVE  [Ledger!Next]_(Ledger!ledger)
<1>1. op'.call = "auto" /\ op'.pc = "gate"
    BY AutoOp DEF IInv, TypeInv
<1>2. /\ op.pc = None /\ op.call = None
      /\ UNCHANGED <<engine, receipts, gaps, signalled, reaped, child, pidfile, shutdownRequested>>
    BY IdleOp DEF AutoCall, disk, process, state
<1>3. Held' = Held
    BY <1>1, <1>2, NoneIsNew DEF Held, StartPcs
<1> QED BY <1>1, <1>2, <1>3, NoneIsNew, GateStays, Unseen DEF Calls

\* A start that ends without a new engine in its hands is unseen.
LEMMA StartEndsRefines ==
    ASSUME IInv, StartEnds \/ SpawnFails \/ SavePidfileFails \/ BeginWatch
    PROVE  [Ledger!Next]_(Ledger!ledger)
<1>1. op' = Idle /\ op.pc \in {"gate", "spawn", "save", "watch"}
    BY DEF StartEnds, SpawnFails, SavePidfileFails, BeginWatch
<1>2. UNCHANGED <<engine, receipts, gaps, signalled, reaped, child, pidfile, shutdownRequested>>
    BY DEF StartEnds, SpawnFails, SavePidfileFails, BeginWatch, disk, process, state, threads
<1>3. Held' = Held
    BY <1>1, <1>2, IdleOp, NoneIsNew DEF Held, StartPcs
<1>4. op.call # "shutdown"
    BY <1>1 DEF IInv, CallInv, StartPcs
<1> QED BY <1>1, <1>2, <1>3, <1>4, IdleOp, NoneIsNew, GateStays, Unseen DEF Calls

\* The gate of a start is passed unseen.
LEMMA StartGateRefines ==
    ASSUME IInv, StartGate
    PROVE  [Ledger!Next]_(Ledger!ledger)
<1>1. op'.call = op.call /\ op'.pc = "spawn" /\ op.pc = "gate"
    BY GotoOp DEF StartGate, StartPcs, IInv, TypeInv
<1>2. UNCHANGED <<engine, receipts, gaps, signalled, reaped, child, pidfile, shutdownRequested>>
    BY DEF StartGate, disk, process, threads
<1>3. Held' = Held
    BY <1>1, <1>2 DEF Held
<1> QED BY <1>1, <1>2, <1>3, GateStays, Unseen

\* A spawn launches an engine where none lives and nothing was shut down.
LEMMA SpawnRefines ==
    ASSUME IInv, blips = 0, NEW g \in Gen, Spawn(g)
    PROVE  [Ledger!Next]_(Ledger!ledger)
<1>1. op'.call = op.call /\ op'.pc = "install" /\ op'.target = g /\ op.pc = "spawn"
    BY TargetOp DEF Spawn, StartPcs, IInv, TypeInv
<1>2. /\ engine[g] = "unborn" /\ engine' = [engine EXCEPT ![g] = "alive"]
      /\ UNCHANGED <<receipts, gaps, signalled, reaped, child, pidfile, shutdownRequested>>
    BY DEF Spawn, disk, process, state, threads
<1>3. Held' = Held \cup {g}
    BY <1>1, <1>2 DEF Held
<1>4. \A h \in Gen : engine[h] # "alive"
    BY <1>1, NoneIsNew DEF IInv, UpInv, ChildInv, LifeInv
<1>5. Gate = "open" /\ Gate' = "open"
    BY <1>1, <1>2 DEF Gate, IInv, UpInv, GateInv
<1> QED BY <1>2, <1>3, <1>4, <1>5 DEF Ledger!Next, Ledger!Launch, Ledger!NoneAlive

\* The manager takes over from the start whom the start answered for.
LEMMA InstallRefines ==
    ASSUME IInv, blips = 0, Install
    PROVE  [Ledger!Next]_(Ledger!ledger)
<1>1. op'.call = op.call /\ op'.pc = "save" /\ op.pc = "install" /\ child' = op.target
    BY GotoOp DEF Install, StartPcs, IInv, TypeInv
<1>2. UNCHANGED <<engine, receipts, gaps, signalled, reaped, pidfile, shutdownRequested>>
    BY DEF Install, disk, process, threads
<1>3. Held' = Held
    BY <1>1, <1>2, NoneIsNew DEF Held, IInv, UpInv, ChildInv
<1> QED BY <1>1, <1>2, <1>3, GateStays, Unseen

\* A pidfile that changes lets go of whoever it named: the child, the engine a
\* start is installing, or one that is dead and accounted for.
LEMMA PidfileLetsGo ==
    ASSUME IInv, blips = 0, pidfile' \in {None, child}, Gate' = Gate,
           op'.pc = "install" <=> op.pc = "install", op.pc = "install" => op'.target = op.target,
           UNCHANGED <<engine, receipts, gaps, signalled, reaped, child>>
    PROVE  [Ledger!Next]_(Ledger!ledger)
<1>1. CASE pidfile \in {None, child} \/ (op.pc = "install" /\ op.target = pidfile)
    <2>1. Held' = Held
        BY <1>1, NoneIsNew DEF Held
    <2> QED BY <2>1, Unseen
<1>2. CASE pidfile \notin {None, child} /\ ~(op.pc = "install" /\ op.target = pidfile)
    <2>1. pidfile \in Gen
        BY <1>2 DEF IInv, TypeInv, StateType
    <2>2. engine[pidfile] = "dead" /\ Accounted(pidfile)
        BY <1>2, <2>1 DEF IInv, UpInv, AccountInv
    <2>3. Held' = Held \ {pidfile}
        BY <1>2, <2>1, NoneIsNew DEF Held
    <2>4. Ledger!LetGo(pidfile)
        BY <2>2, <2>3 DEF Ledger!LetGo, Accounted
    <2> QED BY <2>1, <2>4 DEF Ledger!Next
<1> QED BY <1>1, <1>2

LEMMA SavePidfileRefines ==
    ASSUME IInv, blips = 0, SavePidfile
    PROVE  [Ledger!Next]_(Ledger!ledger)
<1>1. op'.call = op.call /\ op'.pc = "watch" /\ op.pc = "save" /\ pidfile' = op.target
    BY GotoOp DEF SavePidfile, StartPcs, IInv, TypeInv
<1>2. UNCHANGED <<engine, receipts, gaps, signalled, reaped, child, shutdownRequested>>
    BY DEF SavePidfile, process, state, threads
<1>3. child = op.target
    BY <1>1 DEF IInv, UpInv, ChildInv
<1> QED BY <1>1, <1>2, <1>3, GateStays, PidfileLetsGo

\* A stop that ends well leaves no engine alive, so a shutdown may close its
\* gate for good; a switch goes on to its start.
LEMMA StoppedRefines ==
    ASSUME IInv, blips = 0, op.pc \in StopPcs, Stopped, child = None,
           UNCHANGED <<engine, receipts, gaps, signalled, reaped, child, pidfile,
                       shutdownRequested>>
    PROVE  [Ledger!Next]_(Ledger!ledger)
<1>1. Alive = {}
    BY AliveIsHeld, NoneIsNew DEF Alive, StopPcs
<1>2. op.call \in {"stop", "switch", "shutdown"}
    BY DEF IInv, CallInv
<1>3. CASE op.call = "switch"
    <2>1. op'.call = op.call /\ op'.pc = "gate"
        BY <1>3, GotoOp DEF Stopped, StartPcs, IInv, TypeInv
    <2>2. Held' = Held
        BY <2>1 DEF Held, StopPcs
    <2> QED BY <2>1, <2>2, GateStays, Unseen
<1>4. CASE op.call # "switch"
    <2>1. op' = Idle
        BY <1>4 DEF Stopped
    <2>2. op'.call = None /\ op'.pc = None /\ None # "shutdown" /\ None # "install"
        BY <2>1, IdleOp, NoneIsNew DEF Calls, StartPcs
    <2>3. Held' = Held
        BY <2>2 DEF Held, StopPcs
    <2>4. CASE op.call = "shutdown"
        BY <1>1, <2>2, <2>3, <2>4, GateMoves DEF Gate, IInv, UpInv, GateInv
    <2>5. CASE op.call # "shutdown"
        BY <2>2, <2>3, <2>5, GateStays, Unseen
    <2> QED BY <2>4, <2>5
<1> QED BY <1>3, <1>4

\* A stop that raises reopens the gate that a shutdown was closing.
LEMMA RaiseRefines ==
    ASSUME IInv, blips = 0, PrepareFails \/ SealFails \/ KillTimesOut
    PROVE  [Ledger!Next]_(Ledger!ledger)
<1>1. /\ op' = Idle /\ op.pc \in {"prepare", "seal", "killed"}
      /\ shutdownRequested' = (shutdownRequested /\ op.call # "shutdown")
      /\ UNCHANGED <<engine, receipts, gaps, signalled, reaped, child, pidfile>>
    BY DEF PrepareFails, SealFails, KillTimesOut, Raise, disk, process, threads
<1>2. op'.call = None /\ op'.pc = None /\ None # "shutdown" /\ None # "install"
    BY <1>1, IdleOp, NoneIsNew DEF Calls, StartPcs
<1>3. Held' = Held
    BY <1>1, <1>2 DEF Held
<1>4. CASE op.call = "shutdown"
    BY <1>1, <1>3, <1>4, GateMoves DEF Gate, IInv, UpInv, GateInv
<1>5. CASE op.call # "shutdown"
    <2>1. shutdownRequested' = shutdownRequested
        BY <1>1, <1>5 DEF IInv, TypeInv, StateType
    <2> QED BY <1>1, <1>2, <1>3, <1>5, <2>1, GateStays, Unseen
<1> QED BY <1>4, <1>5

LEMMA StopGateRefines ==
    ASSUME IInv, blips = 0, StopGate
    PROVE  [Ledger!Next]_(Ledger!ledger)
<1>1. /\ op.pc = "stopGate"
      /\ UNCHANGED <<engine, receipts, gaps, signalled, reaped, child, pidfile, shutdownRequested>>
    BY DEF StopGate, disk, process, threads
<1>2. CASE child = None
    BY <1>1, <1>2, StoppedRefines DEF StopGate, StopPcs
<1>3. CASE child # None
    <2>1. child \in Gen /\ op' = [op EXCEPT !.pc = "prepare", !.target = child]
        BY <1>3 DEF StopGate, IInv, TypeInv, StateType
    <2>2. op'.call = op.call /\ op'.pc = "prepare"
        BY <2>1, TargetOp DEF StopPcs, IInv, TypeInv
    <2>3. Held' = Held
        BY <1>1, <2>2 DEF Held
    <2> QED BY <1>1, <2>2, <2>3, GateStays, Unseen
<1> QED BY <1>2, <1>3

\* Preparing, and waiting once more, are unseen.
LEMMA PrepareRefines ==
    ASSUME IInv, NEW kind \in Kinds, Prepare(kind)
    PROVE  [Ledger!Next]_(Ledger!ledger)
<1>1. op'.call = op.call /\ op'.pc = "seal" /\ op.pc = "prepare"
    BY ReceiptOp DEF Prepare, StopPcs, IInv, TypeInv
<1>2. UNCHANGED <<engine, receipts, gaps, signalled, reaped, child, pidfile, shutdownRequested>>
    BY DEF Prepare, disk, process, state, threads
<1>3. Held' = Held
    BY <1>1, <1>2 DEF Held
<1> QED BY <1>1, <1>2, <1>3, GateStays, Unseen

LEMMA KillRefines ==
    ASSUME IInv, Kill
    PROVE  [Ledger!Next]_(Ledger!ledger)
<1>1. op'.call = op.call /\ op'.pc = "killed" /\ op.pc = "wait"
    BY GotoOp DEF Kill, StopPcs, IInv, TypeInv
<1>2. UNCHANGED <<engine, receipts, gaps, signalled, reaped, child, pidfile, shutdownRequested>>
    BY DEF Kill, disk, process, state, threads
<1>3. Held' = Held
    BY <1>1, <1>2 DEF Held
<1> QED BY <1>1, <1>2, <1>3, GateStays, Unseen

\* The seal records totals, or a degraded receipt, and never beside a crash.
LEMMA SealRefines ==
    ASSUME IInv, blips = 0, Seal
    PROVE  [Ledger!Next]_(Ledger!ledger)
<1>1. op'.call = op.call /\ op'.pc = "terminate" /\ op.pc = "seal"
    BY GotoOp DEF Seal, StopPcs, IInv, TypeInv
<1>2. /\ receipts' = [receipts EXCEPT ![op.target] = @ \cup {op.receipt}]
      /\ UNCHANGED <<engine, gaps, signalled, reaped, child, pidfile, shutdownRequested>>
    BY DEF Seal, process, state, threads
<1>3. op.target \in Gen /\ op.receipt \in Totals \cup {"degraded"}
    BY <1>1 DEF IInv, CallInv, Ending
<1>4. op.receipt \in Totals => "crash" \notin receipts[op.target]
    BY <1>1 DEF IInv, UpInv, AccountInv
<1>5. Held' = Held
    BY <1>1, <1>2 DEF Held
<1>6. Ledger!Record(op.target, op.receipt)
    BY <1>1, <1>2, <1>3, <1>4, <1>5, GateStays DEF Ledger!Record, Totals
<1> QED BY <1>3, <1>6 DEF Ledger!Next

\* The signal comes after the receipt.
LEMMA TerminateRefines ==
    ASSUME IInv, blips = 0, Terminate
    PROVE  [Ledger!Next]_(Ledger!ledger)
<1>1. /\ op.pc = "terminate" /\ op.target \in Gen
      /\ UNCHANGED <<engine, receipts, gaps, reaped, child, pidfile, shutdownRequested>>
    BY DEF Terminate, disk, state, threads, IInv, CallInv, Ending
<1>2. CASE op.target \in reaped
    <2>1. child = None
        BY <1>1, <1>2 DEF IInv, UpInv, ChildInv, LifeInv, Ending, Gone
    <2>2. Stopped /\ signalled' = signalled
        BY <1>2 DEF Terminate
    <2> QED BY <1>1, <2>1, <2>2, StoppedRefines DEF StopPcs
<1>3. CASE op.target \notin reaped
    <2>1. Goto("wait") /\ signalled' = signalled \cup {op.target}
        BY <1>3 DEF Terminate
    <2>2. op'.call = op.call /\ op'.pc = "wait"
        BY <2>1, GotoOp DEF StopPcs, IInv, TypeInv
    <2>3. Held' = Held /\ Gate' = Gate
        BY <1>1, <2>2, GateStays DEF Held
    <2>4. receipts[op.target] # {}
        BY <1>1 DEF IInv, ReceiptInv
    <2>5. Ledger!Signal(op.target)
        BY <1>1, <2>1, <2>3, <2>4 DEF Ledger!Signal
    <2> QED BY <1>1, <2>5 DEF Ledger!Next
<1> QED BY <1>2, <1>3

LEMMA StopDoneRefines ==
    ASSUME IInv, blips = 0, StopDone
    PROVE  [Ledger!Next]_(Ledger!ledger)
<1>1. /\ op.pc \in {"wait", "killed"} /\ op.target \in reaped /\ Stopped
      /\ UNCHANGED <<engine, receipts, gaps, signalled, reaped, child, pidfile, shutdownRequested>>
    BY DEF StopDone, disk, process, state, threads
<1>2. op.target \in Gen
    BY <1>1 DEF IInv, CallInv, Ending
<1>3. child = None
    BY <1>1, <1>2 DEF IInv, UpInv, ChildInv, LifeInv, Ending, Gone
<1> QED BY <1>1, <1>3, StoppedRefines DEF StopPcs

\* The monitor's reads, and its decision, are unseen.
LEMMA MonitorThinksRefines ==
    ASSUME IInv, NEW g \in Gen, MonitorWake(g) \/ MonitorDecide(g) \/ RestartAsync(g)
    PROVE  [Ledger!Next]_(Ledger!ledger)
<1>1. UNCHANGED <<engine, receipts, gaps, signalled, reaped, child, pidfile, op, shutdownRequested>>
    BY DEF MonitorWake, MonitorDecide, RestartAsync, disk, process, state
<1>2. Held' = Held
    BY <1>1 DEF Held
<1> QED BY <1>1, <1>2, GateStays, Unseen

\* A crash receipt is for a dead engine that left no totals.
LEMMA MonitorRecordRefines ==
    ASSUME IInv, blips = 0, NEW g \in Gen, MonitorRecord(g)
    PROVE  [Ledger!Next]_(Ledger!ledger)
<1>1. /\ monitor[g] = "woken"
      /\ UNCHANGED <<engine, gaps, signalled, reaped, child, pidfile, op, shutdownRequested>>
    BY DEF MonitorRecord, MonitorAt, process, state
<1>2. Held' = Held /\ Gate' = Gate
    BY <1>1, GateStays DEF Held
<1>3. CASE Unrecorded(g)
    <2>1. receipts' = [receipts EXCEPT ![g] = @ \cup {"crash"}]
        BY <1>3 DEF MonitorRecord
    <2>2. engine[g] = "dead" /\ receipts[g] = {}
        BY <1>1, <1>3 DEF IInv, UpInv, LifeInv, AccountInv, Unrecorded
    <2>3. Ledger!Record(g, "crash")
        BY <1>1, <1>2, <2>1, <2>2 DEF Ledger!Record, Totals
    <2> QED BY <2>3 DEF Ledger!Next
<1>4. CASE ~Unrecorded(g)
    BY <1>1, <1>2, <1>4, Unseen DEF MonitorRecord
<1> QED BY <1>3, <1>4

\* A receipt that fails to be written leaves a gap that was reported.
LEMMA MonitorRecordFailsRefines ==
    ASSUME IInv, blips = 0, NEW g \in Gen, MonitorRecordFails(g)
    PROVE  [Ledger!Next]_(Ledger!ledger)
<1>1. /\ monitor[g] = "woken" /\ Unrecorded(g) /\ gaps' = gaps \cup {g}
      /\ UNCHANGED <<engine, receipts, signalled, reaped, child, pidfile, op, shutdownRequested>>
    BY DEF MonitorRecordFails, MonitorAt, process
<1>2. Held' = Held /\ Gate' = Gate
    BY <1>1, GateStays DEF Held
<1>3. engine[g] = "dead" /\ receipts[g] = {} /\ g \in Held
    BY <1>1, HeldIs DEF IInv, UpInv, LifeInv, AccountInv, Unrecorded, Seen
<1>4. Ledger!Miss(g)
    BY <1>1, <1>2, <1>3 DEF Ledger!Miss
<1> QED BY <1>4 DEF Ledger!Next

\* The manager lets go of a child that is dead and accounted for, unless the
\* pidfile still names it.
LEMMA MonitorForgetRefines ==
    ASSUME IInv, blips = 0, NEW g \in Gen, MonitorForget(g)
    PROVE  [Ledger!Next]_(Ledger!ledger)
<1>1. /\ monitor[g] = "recorded"
      /\ UNCHANGED <<engine, receipts, gaps, signalled, reaped, pidfile, op, shutdownRequested>>
    BY DEF MonitorForget, MonitorAt, process, disk
<1>2. child = g /\ engine[g] = "dead" /\ Accounted(g)
    BY <1>1 DEF IInv, UpInv, LifeInv, AccountInv, Seen
<1>3. child' = None
    BY <1>2 DEF MonitorForget
<1>4. Gate' = Gate
    BY <1>1, GateStays
<1>5. op.pc = "install" => op.target # g
    BY <1>1 DEF IInv, UpInv, ChildInv, Spawned
<1>6. CASE pidfile = g
    <2>1. Held' = Held
        BY <1>1, <1>2, <1>3, <1>6, NoneIsNew DEF Held
    <2> QED BY <1>1, <1>4, <2>1, Unseen
<1>7. CASE pidfile # g
    <2>1. Held' = Held \ {g}
        BY <1>1, <1>2, <1>3, <1>5, <1>7, NoneIsNew DEF Held
    <2>2. Ledger!LetGo(g)
        BY <1>1, <1>2, <1>4, <2>1 DEF Ledger!LetGo, Accounted
    <2> QED BY <2>2 DEF Ledger!Next
<1> QED BY <1>6, <1>7

\* The pidfile is cleared of whoever it names by then: one that is gone, or a newer
\* engine that is still the child.
LEMMA MonitorClearRefines ==
    ASSUME IInv, blips = 0, NEW g \in Gen, MonitorClear(g)
    PROVE  [Ledger!Next]_(Ledger!ledger)
<1>1. /\ pidfile' \in {None, pidfile}
      /\ UNCHANGED <<engine, receipts, gaps, signalled, reaped, child, op, shutdownRequested>>
    BY DEF MonitorClear, process, state
<1>2. Gate' = Gate
    BY <1>1, GateStays
<1>3. CASE pidfile' = pidfile
    <2>1. Held' = Held
        BY <1>1, <1>3 DEF Held
    <2> QED BY <1>1, <1>2, <2>1, Unseen
<1>4. CASE pidfile' = None
    BY <1>1, <1>2, <1>4, PidfileLetsGo
<1> QED BY <1>1, <1>3, <1>4

\* The end is announced when neither the manager nor the pidfile names the engine.
LEMMA MonitorReapedRefines ==
    ASSUME IInv, blips = 0, NEW g \in Gen, MonitorReaped(g)
    PROVE  [Ledger!Next]_(Ledger!ledger)
<1>1. /\ monitor[g] = "cleared" /\ reaped' = reaped \cup {g}
      /\ UNCHANGED <<engine, receipts, gaps, signalled, child, pidfile, op, shutdownRequested>>
    BY DEF MonitorReaped, MonitorAt, process, disk, state
<1>2. Held' = Held /\ Gate' = Gate
    BY <1>1, GateStays DEF Held
<1>3. engine[g] = "dead" /\ g \notin Held
    BY <1>1, HeldIs DEF IInv, UpInv, LifeInv, ChildInv, Gone, Spawned
<1>4. Ledger!Announce(g)
    BY <1>1, <1>2, <1>3 DEF Ledger!Announce
<1> QED BY <1>4 DEF Ledger!Next

LEMMA EngineDiesRefines ==
    ASSUME IInv, NEW g \in Gen, EngineDies(g)
    PROVE  [Ledger!Next]_(Ledger!ledger)
<1>1. /\ engine[g] = "alive" /\ engine' = [engine EXCEPT ![g] = "dead"]
      /\ UNCHANGED <<receipts, gaps, signalled, reaped, child, pidfile, op, shutdownRequested>>
    BY DEF EngineDies, disk, state, threads
<1>2. Held' = Held /\ Gate' = Gate
    BY <1>1, GateStays DEF Held
<1>3. Ledger!Die(g)
    BY <1>1, <1>2 DEF Ledger!Die
<1> QED BY <1>3 DEF Ledger!Next

-----------------------------------------------------------------------------
\* The initial states map to initial states.
LEMMA InitRefines == Init => Ledger!Init
<1> SUFFICES ASSUME Init PROVE Ledger!Init
    OBVIOUS
<1>1. Held = {}
    BY IdleOp, NoneIsNew DEF Init, Held, StartPcs
<1>2. Gate = "open"
    BY DEF Init, Gate
<1> QED BY <1>1, <1>2 DEF Init, Ledger!Init

\* Every step of a daemon that stays up maps to a step of the ledger or a stutter.
LEMMA StepRefines ==
    ASSUME IInv, blips = 0, blips' = 0, [Next]_vars
    PROVE  [Ledger!Next]_(Ledger!ledger)
<1>1. CASE UNCHANGED vars
    <2>1. UNCHANGED <<engine, receipts, gaps, signalled, reaped, child, pidfile, op,
                      shutdownRequested>>
        BY <1>1 DEF vars, disk, process, state, threads
    <2>2. Held' = Held
        BY <2>1 DEF Held
    <2> QED BY <2>1, <2>2, GateStays, Unseen
<1>2. CASE ClientCalls
    BY <1>2, CallRefines DEF ClientCalls, Calls
<1>3. CASE StartStep
    BY <1>3, StartEndsRefines, StartGateRefines, SpawnRefines, InstallRefines, SavePidfileRefines
    DEF StartStep
<1>4. CASE StopStep
    BY <1>4, StopGateRefines, PrepareRefines, SealRefines, RaiseRefines, TerminateRefines,
       StopDoneRefines, KillRefines
    DEF StopStep
<1>5. CASE \E g \in Gen : MonitorStep(g)
    BY <1>5, MonitorThinksRefines, MonitorRecordRefines, MonitorRecordFailsRefines,
       MonitorForgetRefines, MonitorClearRefines, MonitorReapedRefines
    DEF MonitorStep
<1>6. ~Blip /\ ~Boot
    BY DEF Blip, Boot, IInv, TypeInv, StateType, UpInv
<1> QED BY <1>1, <1>2, <1>3, <1>4, <1>5, <1>6, AutoCallRefines, EngineDiesRefines DEF Next

\* While the daemon stays up, the manager keeps the ledger of its engines
\* (serve_manager.py:228, 759, 797-801; accounting.py:3-4).
THEOREM KeepsLedger ==
    ASSUME MaxBlips = 0
    PROVE  Spec => ImplementsLedger
<1>1. ASSUME IInv, IInv', [Next]_vars
      PROVE  [Ledger!Next]_(Ledger!ledger)
    <2>1. blips = 0
        BY <1>1, NoBlips
    <2>2. blips' = 0
        BY <1>1 DEF IInv, TypeInv, StateType
    <2> QED BY <1>1, <2>1, <2>2, StepRefines
<1> QED BY <1>1, InitRefines, ManagerInvariant, PTL DEF Spec, ImplementsLedger, Ledger!Spec

=============================================================================
