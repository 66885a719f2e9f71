---------------------------- MODULE ServeManager ----------------------------
(***************************************************************************)
(* The daemon's supervisor of one `ft serve` engine                        *)
(* (daemon/serve_manager.py): client calls serialized by the lifecycle     *)
(* lock, one monitor thread per child, auto-restart threads, the durable   *)
(* pidfile and accounting outbox, and crashes of the engine and of the     *)
(* daemon.  A step is a critical section of _cond or _accounting_guard, or *)
(* one blocking effect outside them.                                       *)
(*                                                                         *)
(* A generation is one spawned process.  A config stands for (model, port, *)
(* args), which the code always reads and writes together.                 *)
(***************************************************************************)
EXTENDS Naturals, FiniteSets

CONSTANTS MaxSpawns,       \* bound: generations
          MaxCalls,        \* bound: client calls
          MaxDiskFaults,   \* bound: failed receipt writes
          MaxBlips,        \* bound: crashes of the daemon
          SaveFails,       \* saving the pidfile may fail
          AutoRestart,     \* --auto-restart
          Config, None

ASSUME BoundsAssumption == {MaxSpawns, MaxCalls, MaxDiskFaults, MaxBlips} \subseteq Nat
ASSUME SwitchAssumption == {SaveFails, AutoRestart} \subseteq BOOLEAN

Gen == 1..MaxSpawns
Calls == {"start", "auto", "stop", "switch", "shutdown"}
StartPcs == {"gate", "spawn", "install", "save", "watch"}
StopPcs == {"stopGate", "prepare", "seal", "terminate", "wait", "killed"}
Totals == {"sealed", "snapshot"}
Kinds == Totals \cup {"degraded", "crash"}

ASSUME NoneAssumption == None \notin Config \cup Nat \cup Calls \cup StartPcs \cup StopPcs

VARIABLES
  engine,     \* generation -> unborn | alive | dead (the process)
  configOf,   \* generation -> what it was launched with
  signalled,  \* generations stop() sent a signal to
  pidfile,    \* ServeStateStore: the recorded generation
  receipts,   \* AccountingOutbox: generation -> kinds of receipt on disk
  gaps,       \* generations whose crash receipt could not be written
  up,         \* the daemon process runs
  child, config, stopping, stopRequested, shutdownRequested,
  durable,    \* _durable_accounting
  guarded,    \* _accounting_guard is held by a stop
  op,         \* the call that holds the lifecycle lock
  monitor,    \* generation -> where its monitor thread is
  flags,      \* generation -> what its monitor read under the lock
  reaped,     \* generations whose reaped event is set
  restart,    \* generation -> config its auto-restart thread waits to start
  wanted,     \* history: a client has called start since the last stop
  calls, diskFaults, blips

disk == <<pidfile, receipts, gaps>>
process == <<engine, configOf, signalled>>
state == <<child, config, stopping, stopRequested, shutdownRequested>>
accounting == <<durable, guarded>>
threads == <<monitor, flags, reaped, restart>>
bounds == <<calls, diskFaults, blips>>
vars == <<process, disk, up, state, accounting, op, threads, wanted, bounds>>

Idle == [call |-> None, pc |-> None, config |-> None, force |-> FALSE,
         target |-> None, receipt |-> None]
Alive == {g \in Gen : engine[g] = "alive"}

ForgetMemory ==
  /\ child' = None /\ config' = None /\ durable' = {} /\ guarded' = FALSE
  /\ stopping' = FALSE /\ stopRequested' = FALSE /\ shutdownRequested' = FALSE
  /\ op' = Idle /\ reaped' = {}
  /\ monitor' = [g \in Gen |-> "none"]
  /\ flags' = [g \in Gen |-> [wasStopping |-> FALSE, current |-> FALSE]]
  /\ restart' = [g \in Gen |-> None]

Init ==
  /\ engine = [g \in Gen |-> "unborn"] /\ configOf = [g \in Gen |-> None]
  /\ signalled = {} /\ pidfile = None /\ receipts = [g \in Gen |-> {}] /\ gaps = {}
  /\ up = TRUE /\ child = None /\ config = None
  /\ stopping = FALSE /\ stopRequested = FALSE /\ shutdownRequested = FALSE
  /\ durable = {} /\ guarded = FALSE /\ op = Idle /\ reaped = {}
  /\ monitor = [g \in Gen |-> "none"]
  /\ flags = [g \in Gen |-> [wasStopping |-> FALSE, current |-> FALSE]]
  /\ restart = [g \in Gen |-> None]
  /\ wanted = FALSE /\ calls = 0 /\ diskFaults = 0 /\ blips = 0

-----------------------------------------------------------------------------
(* Taking the lifecycle lock.                                              *)

Goto(pc) == op' = [op EXCEPT !.pc = pc]

\* A client call takes the lock; shutdown() closes admission at once.
Call(call, c, force) ==
  /\ up /\ op = Idle /\ calls < MaxCalls
  /\ op' = [Idle EXCEPT !.call = call, !.config = c, !.force = force,
                        !.pc = IF call = "start" THEN "gate" ELSE "stopGate"]
  /\ calls' = calls + 1
  /\ shutdownRequested' = (shutdownRequested \/ call = "shutdown")
  /\ UNCHANGED <<process, disk, up, child, config, stopping, stopRequested, accounting,
                 threads, wanted, diskFaults, blips>>

ClientCalls == \/ \E c \in Config : Call("start", c, FALSE)
               \/ \E c \in Config, force \in BOOLEAN : Call("switch", c, force)
               \/ \E call \in {"stop", "shutdown"}, force \in BOOLEAN : Call(call, None, force)

\* An auto-restart thread takes the lock with the config it captured.
AutoCall(g) ==
  /\ up /\ op = Idle /\ restart[g] # None
  /\ op' = [Idle EXCEPT !.call = "auto", !.config = restart[g], !.pc = "gate"]
  /\ restart' = [restart EXCEPT ![g] = None]
  /\ UNCHANGED <<process, disk, up, state, accounting, monitor, flags, reaped, wanted, bounds>>

-----------------------------------------------------------------------------
(* _start.                                                                 *)

Automatic == op.call = "auto"
\* Mutation: an auto-restart does not look at the stop latch again.
Blocked_Unlatched == shutdownRequested

Blocked == shutdownRequested \/ (Automatic /\ stopRequested)
Running == child # None /\ ~stopping

\* Refused, aborted, idempotent (the same config runs) or in conflict.
StartEnds ==
  /\ op.pc = "gate" /\ (Blocked \/ Running)
  /\ op' = Idle
  /\ IF Blocked \/ Automatic
     THEN UNCHANGED <<stopRequested, wanted>>
     ELSE stopRequested' = FALSE /\ wanted' = TRUE
  /\ UNCHANGED <<process, disk, up, child, config, stopping, shutdownRequested, accounting,
                 threads, bounds>>

StartGate ==
  /\ op.pc = "gate" /\ ~Blocked /\ ~Running
  /\ Goto("spawn")
  /\ stopRequested' = FALSE
  /\ wanted' = (wanted \/ ~Automatic)
  /\ UNCHANGED <<process, disk, up, child, config, stopping, shutdownRequested, accounting,
                 threads, bounds>>

Spawn(g) ==
  /\ op.pc = "spawn" /\ engine[g] = "unborn" /\ \A h \in 1..(g - 1) : engine[h] # "unborn"
  /\ engine' = [engine EXCEPT ![g] = "alive"]
  /\ configOf' = [configOf EXCEPT ![g] = op.config]
  /\ op' = [op EXCEPT !.pc = "install", !.target = g]
  /\ UNCHANGED <<signalled, disk, up, state, accounting, threads, wanted, bounds>>

SpawnFails ==
  /\ op.pc = "spawn" /\ op' = Idle
  /\ UNCHANGED <<process, disk, up, state, accounting, threads, wanted, bounds>>

Install ==
  /\ op.pc = "install" /\ Goto("save")
  /\ child' = op.target /\ config' = op.config /\ stopping' = FALSE
  /\ UNCHANGED <<process, disk, up, stopRequested, shutdownRequested, accounting, threads,
                 wanted, bounds>>

SavePidfile ==
  /\ op.pc = "save" /\ Goto("watch")
  /\ pidfile' = op.target
  /\ UNCHANGED <<process, receipts, gaps, up, state, accounting, threads, wanted, bounds>>

\* save() raises: the call ends with the child installed.
SavePidfileFails ==
  /\ op.pc = "save" /\ SaveFails /\ op' = Idle
  /\ UNCHANGED <<process, disk, up, state, accounting, threads, wanted, bounds>>

BeginWatch ==
  /\ op.pc = "watch" /\ op' = Idle
  /\ monitor' = [monitor EXCEPT ![op.target] = "waiting"]
  /\ UNCHANGED <<process, disk, up, state, accounting, flags, reaped, restart, wanted, bounds>>

-----------------------------------------------------------------------------
(* _stop, shared by stop, switch and shutdown.                             *)

\* What a stop that succeeded does next: switch() starts the replacement.
Stopped == IF op.call = "switch" THEN Goto("gate") ELSE op' = Idle

\* What a stop that raised leaves: the latch, and a child that can be retried.
Raise ==
  /\ stopping' = (stopping /\ child # op.target)
  /\ shutdownRequested' = (shutdownRequested /\ op.call # "shutdown")
  /\ op' = Idle
  /\ UNCHANGED <<child, config, stopRequested>>

\* Mutation: the stop takes the child out of the manager at once.
StopGate_Forgets ==
  /\ op.pc = "stopGate"
  /\ stopRequested' = TRUE /\ child' = None
  /\ wanted' = FALSE
  /\ IF child = None
     THEN Stopped
     ELSE op' = [op EXCEPT !.pc = "prepare", !.target = child]
  /\ UNCHANGED <<process, disk, up, config, stopping, shutdownRequested, accounting, threads,
                 bounds>>

StopGate ==
  /\ op.pc = "stopGate"
  /\ stopRequested' = TRUE
  /\ wanted' = FALSE
  /\ IF child = None
     THEN Stopped /\ UNCHANGED stopping
     ELSE op' = [op EXCEPT !.pc = "prepare", !.target = child] /\ stopping' = TRUE
  /\ UNCHANGED <<process, disk, up, child, config, shutdownRequested, accounting, threads,
                 bounds>>

\* The receipts a prepare can end with: a live engine seals its totals or, an
\* older or failing one, answers with its stats; force accepts a degraded one.
Prepared == (IF op.target \in Alive THEN Totals ELSE {})
              \cup (IF op.force THEN {"degraded"} ELSE {})

Prepare(kind) ==
  /\ op.pc = "prepare" /\ ~guarded
  /\ kind \in Prepared
  /\ guarded' = TRUE
  /\ op' = [op EXCEPT !.pc = "seal", !.receipt = kind]
  /\ UNCHANGED <<process, disk, up, state, durable, threads, wanted, bounds>>

\* Mutation: a stop whose prepare failed goes on to signal the engine.
PrepareFails_Proceeds ==
  /\ op.pc = "prepare" /\ ~guarded /\ Goto("terminate")
  /\ UNCHANGED <<process, disk, up, state, accounting, threads, wanted, bounds>>

PrepareFails ==
  /\ op.pc = "prepare" /\ ~guarded /\ ~op.force /\ Raise
  /\ UNCHANGED <<process, disk, up, accounting, threads, wanted, bounds>>

Seal ==
  /\ op.pc = "seal" /\ Goto("terminate")
  /\ receipts' = [receipts EXCEPT ![op.target] = @ \cup {op.receipt}]
  /\ durable' = durable \cup {op.target}
  /\ guarded' = FALSE
  /\ UNCHANGED <<process, pidfile, gaps, up, state, threads, wanted, bounds>>

SealFails ==
  /\ op.pc = "seal" /\ diskFaults < MaxDiskFaults /\ Raise
  /\ diskFaults' = diskFaults + 1
  /\ guarded' = FALSE
  /\ UNCHANGED <<process, disk, up, durable, threads, wanted, calls, blips>>

Terminate ==
  /\ op.pc = "terminate"
  /\ IF op.target \in reaped
     THEN Stopped /\ UNCHANGED signalled
     ELSE Goto("wait") /\ signalled' = signalled \cup {op.target}
  /\ UNCHANGED <<engine, configOf, disk, up, state, accounting, threads, wanted, bounds>>

\* Mutation: the stop does not wait for the reaper.
StopDone_Unreaped ==
  /\ op.pc \in {"wait", "killed"} /\ Stopped
  /\ UNCHANGED <<process, disk, up, state, accounting, threads, wanted, bounds>>

StopDone ==
  /\ op.pc \in {"wait", "killed"} /\ op.target \in reaped /\ Stopped
  /\ UNCHANGED <<process, disk, up, state, accounting, threads, wanted, bounds>>

\* The grace period ends: SIGKILL, then one more wait.
Kill ==
  /\ op.pc = "wait" /\ op.target \notin reaped /\ Goto("killed")
  /\ UNCHANGED <<process, disk, up, state, accounting, threads, wanted, bounds>>

\* Mutation: the wait after SIGKILL has no timeout.
KillTimesOut_Never == op.pc = "killed" /\ FALSE /\ UNCHANGED vars

KillTimesOut ==
  /\ op.pc = "killed" /\ op.target \notin reaped /\ Raise
  /\ UNCHANGED <<process, disk, up, accounting, threads, wanted, bounds>>

-----------------------------------------------------------------------------
(* The monitor thread: the sole reaper of its child.                       *)

MonitorAt(g, from, to) == monitor[g] = from /\ monitor' = [monitor EXCEPT ![g] = to]

MonitorWake(g) ==
  /\ MonitorAt(g, "waiting", "woken") /\ engine[g] = "dead"
  /\ flags' = [flags EXCEPT ![g] = [wasStopping |-> stopping \/ stopRequested,
                                    current |-> child = g]]
  /\ UNCHANGED <<process, disk, up, state, accounting, op, reaped, restart, wanted, bounds>>

\* Mutation: the monitor does not look for a receipt that a stop made durable.
Unrecorded_Always(g) == flags[g].current

\* Under the guard: a crash receipt, unless a stop already made one durable.
Unrecorded(g) == flags[g].current /\ g \notin durable

MonitorRecord(g) ==
  /\ MonitorAt(g, "woken", "recorded")
  /\ flags[g].current => ~guarded
  /\ IF Unrecorded(g)
     THEN /\ receipts' = [receipts EXCEPT ![g] = @ \cup {"crash"}]
          /\ durable' = durable \cup {g}
     ELSE UNCHANGED <<receipts, durable>>
  /\ UNCHANGED <<process, pidfile, gaps, up, state, guarded, op, flags, reaped, restart,
                 wanted, bounds>>

MonitorRecordFails(g) ==
  /\ MonitorAt(g, "woken", "recorded")
  /\ Unrecorded(g) /\ ~guarded /\ diskFaults < MaxDiskFaults
  /\ diskFaults' = diskFaults + 1
  /\ gaps' = gaps \cup {g}
  /\ stopRequested' = TRUE
  /\ UNCHANGED <<process, pidfile, receipts, up, child, config, stopping, shutdownRequested,
                 accounting, op, flags, reaped, restart, wanted, calls, blips>>

MonitorForget(g) ==
  /\ MonitorAt(g, "recorded", "forgotten")
  /\ flags' = [flags EXCEPT ![g].current = (child = g)]
  /\ IF child = g THEN child' = None /\ stopping' = FALSE ELSE UNCHANGED <<child, stopping>>
  /\ UNCHANGED <<process, disk, up, config, stopRequested, shutdownRequested, accounting, op,
                 reaped, restart, wanted, bounds>>

\* ServeStateStore.clear, outside every lock.
MonitorClear(g) ==
  /\ MonitorAt(g, "forgotten", "cleared")
  /\ pidfile' = IF flags[g].current THEN None ELSE pidfile
  /\ UNCHANGED <<process, receipts, gaps, up, state, accounting, op, flags, reaped, restart,
                 wanted, bounds>>

MonitorReaped(g) ==
  /\ MonitorAt(g, "cleared", "reaped")
  /\ reaped' = reaped \cup {g}
  /\ UNCHANGED <<process, disk, up, state, accounting, op, flags, restart, wanted, bounds>>

DoRestart(g) == /\ flags[g].current /\ ~flags[g].wasStopping
                /\ AutoRestart /\ ~stopRequested

MonitorDecide(g) ==
  /\ MonitorAt(g, "reaped", IF DoRestart(g) THEN "restarting" ELSE "done")
  /\ UNCHANGED <<process, disk, up, state, accounting, op, flags, reaped, restart, wanted,
                 bounds>>

\* _restart_async captures the manager's config without the lock.
RestartAsync(g) ==
  /\ MonitorAt(g, "restarting", "done")
  /\ restart' = [restart EXCEPT ![g] = config]
  /\ UNCHANGED <<process, disk, up, state, accounting, op, flags, reaped, wanted, bounds>>

-----------------------------------------------------------------------------
(* Failures of the processes.                                              *)

EngineDies(g) ==
  /\ engine[g] = "alive" /\ engine' = [engine EXCEPT ![g] = "dead"]
  /\ UNCHANGED <<configOf, signalled, disk, up, state, accounting, op, threads, wanted, bounds>>

\* The daemon exits or is killed; engines live in sessions of their own.
Blip ==
  /\ up /\ blips < MaxBlips
  /\ up' = FALSE /\ blips' = blips + 1
  /\ ForgetMemory
  /\ UNCHANGED <<process, disk, wanted, calls, diskFaults>>

\* Mutation: the adopted engine gets no monitor.
Boot_Unwatched ==
  /\ ~up /\ up' = TRUE
  /\ IF pidfile \in Alive
     THEN child' = pidfile /\ config' = configOf[pidfile] /\ UNCHANGED pidfile
     ELSE pidfile' = None /\ UNCHANGED <<child, config>>
  /\ UNCHANGED <<process, receipts, gaps, stopping, stopRequested, shutdownRequested,
                 accounting, op, threads, wanted, bounds>>

\* readopt at boot: attach the recorded engine if it lives, else clear the record.
Boot ==
  /\ ~up /\ up' = TRUE
  /\ IF pidfile \in Alive
     THEN /\ child' = pidfile /\ config' = configOf[pidfile]
          /\ monitor' = [monitor EXCEPT ![pidfile] = "waiting"]
          /\ UNCHANGED pidfile
     ELSE pidfile' = None /\ UNCHANGED <<child, config, monitor>>
  /\ UNCHANGED <<process, receipts, gaps, stopping, stopRequested, shutdownRequested,
                 accounting, op, flags, reaped, restart, wanted, bounds>>

StartStep == \/ StartEnds \/ StartGate \/ SpawnFails \/ Install
             \/ SavePidfile \/ SavePidfileFails \/ BeginWatch \/ \E g \in Gen : Spawn(g)
StopStep == \/ StopGate \/ PrepareFails \/ Seal \/ SealFails \/ Terminate
            \/ StopDone \/ Kill \/ KillTimesOut \/ \E kind \in Kinds : Prepare(kind)
MonitorStep(g) == \/ MonitorWake(g) \/ MonitorRecord(g) \/ MonitorRecordFails(g)
                  \/ MonitorForget(g) \/ MonitorClear(g) \/ MonitorReaped(g)
                  \/ MonitorDecide(g) \/ RestartAsync(g)

Next == \/ ClientCalls \/ StartStep \/ StopStep \/ Blip \/ Boot
        \/ \E g \in Gen : AutoCall(g) \/ MonitorStep(g) \/ EngineDies(g)

Spec == Init /\ [][Next]_vars

\* A call that holds the lifecycle lock and a monitor thread that can run go on:
\* every wait in them is bounded by a timeout or by the other.  Nothing makes
\* clients call, or engines and daemons fail.
Fairness == /\ WF_vars(StartStep) /\ WF_vars(StopStep)
            /\ \A g \in Gen : WF_vars(MonitorStep(g))
FairSpec == Spec /\ Fairness

-----------------------------------------------------------------------------
(* Properties.                                                             *)

\* "own exactly one ft serve child's lifecycle" (serve_manager.py:1): two
\* engines never live at once, whatever starts, switches and restarts race.
OneEngine == Cardinality(Alive) <= 1

\* Between calls every live engine is the manager's child: none runs that no
\* later stop would reach (README.md:85-87, "never orphans a live engine").
NoOrphan == up /\ op = Idle => Alive \subseteq {child}

\* No engine is signalled before a receipt for it is on disk
\* (daemon/accounting.py:3-4).
SignalAfterReceipt == \A g \in signalled : receipts[g] # {}

\* An automatic restart never launches an engine after a stop, unless a client
\* has called start since (serve_manager.py:225-226).
StopSticks == [][engine' # engine /\ op.pc = "spawn" /\ Automatic => wanted]_vars

\* Every call that takes the lifecycle lock gives it back
\* (serve_manager.py:258-404).
CallsReturn == (op # Idle) ~> (op = Idle)

\* A dead child is always forgotten, so that a later start is not answered
\* with a pid that is gone (serve_manager.py:758-795).
DeathsNoticed == \A g \in Gen : (engine[g] = "dead" /\ child = g) ~> (child # g)

-----------------------------------------------------------------------------
(* The abstract specification.                                             *)

\* A spawned process is the call's to answer for until it is installed.
Held == {g \in Gen : g \in {child, pidfile} \/ (op.pc = "install" /\ g = op.target)}

Gate == IF ~shutdownRequested THEN "open"
        ELSE IF op.call = "shutdown" THEN "closing" ELSE "closed"

Ledger == INSTANCE EngineLedger WITH held <- Held, gate <- Gate

\* While the daemon stays up, the manager keeps the ledger of its engines:
\* totals before a signal, one event per engine whoever gets there first, no
\* dead engine forgotten unrecorded, and a stop or a switch that goes on only
\* when neither the manager nor the pidfile names the old engine
\* (serve_manager.py:228, 759, 797-801; accounting.py:3-4).
ImplementsLedger == Ledger!Spec

=============================================================================
