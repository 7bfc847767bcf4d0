----------------------------- MODULE Sequencer -----------------------------
(***************************************************************************)
(* The transaction sequencer, its executor pool and the simulator          *)
(* (processor/src/sequencer/mod.rs, sequencer/pool.rs, executor.rs and     *)
(* simulator.rs), over the ordering table of OrderingTable.                *)
(*                                                                         *)
(* Each thread is a process: the sequencer takes one message or executor   *)
(* event at a time and runs its handler up to the next point where it      *)
(* waits (pc); an executor takes one message at a time from its channel;   *)
(* so does the simulator.  The dispatch loop is one step per transaction,  *)
(* because each iteration hands work to another thread; every handler that *)
(* ends with dispatch_ready() goes through pc = "dispatch".                *)
(*                                                                         *)
(* The inbound channel is external: whatever message it holds is chosen    *)
(* when the sequencer receives.  A transaction that the keeper's append()  *)
(* refuses changes nothing here and has no step.                           *)
(***************************************************************************)
EXTENDS OrderingTable, FiniteSetsExt

CONSTANTS Executors,     \* executor ids
          PerExecutor,   \* MAX_PENDING_EXECUTOR_TXNS
          ChannelSize,   \* capacity of an executor's channel
          MaxTxns,       \* bound on accepted transactions
          MaxBoundaries, \* bound on block, checkpoint, barrier, shutdown messages
          MaxSimulations \* bound on queued simulation messages

ASSUME SequencerAssumption ==
    /\ Executors # {} /\ Executors \subseteq Nat /\ IsFiniteSet(Executors)
    /\ PerExecutor \in Nat \ {0} /\ ChannelSize \in Nat \ {0}
    /\ MaxTxns \in Nat /\ MaxBoundaries \in Nat /\ MaxSimulations \in Nat

VARIABLES
    pc,          \* where the sequencer thread is
    op,          \* the boundary it is handling; "exit" and "mismatch" end it
    available,   \* the pool's availability bits
    inbox,       \* the channel of each executor
    running,     \* what each executor processes, NoWork when idle
    env,         \* the block environment of each executor: blocks applied
    worker,      \* life of each executor thread
    events,      \* the channel of executor events
    unsent,      \* executors the block boundary was not sent to yet
    hasher,      \* parent block and the transactions hashed since
    block,       \* the block being finalized
    blocks,      \* blocks appended to the ledger
    history,     \* transactions appended to the ledger, with their slot
    committed,   \* indices in history of committed transactions
    store,       \* per account: the transaction that wrote it last
    boundaries,  \* number of boundary messages received
    simulation,  \* the simulator's channel
    simulator,   \* what the simulator does
    signalled    \* the sequencer's shutdown tier is cancelled

poolVars == <<available, inbox, running, env, worker, events>>
chainVars == <<unsent, hasher, block, blocks, history>>
stateVars == <<committed, store>>
simVars == <<simulation, simulator>>
vars == <<tableVars, pc, op, poolVars, chainVars, stateVars, boundaries,
          simVars, signalled>>

NoWork == [ticket |-> NoTicket, index |-> 0]
NoBlock == [slot |-> 0, parent |-> 0, txns |-> {}]

SlotNow == Len(blocks)

(* The position in history of a ticket of the current epoch. *)
IndexOf(t) == Len(history) - Len(stream) + t

Init ==
    /\ TableInit
    /\ pc = "process" /\ op = "none"
    /\ available = Executors
    /\ inbox = [e \in Executors |-> <<>>]
    /\ running = [e \in Executors |-> NoWork]
    /\ env = [e \in Executors |-> 0]
    /\ worker = [e \in Executors |-> "alive"]
    /\ events = <<>>
    /\ unsent = {} /\ block = NoBlock /\ blocks = <<>>
    /\ hasher = [parent |-> 0, current |-> {}]
    /\ history = <<>> /\ boundaries = 0 /\ committed = {} /\ store = [x \in Account |-> 0]
    /\ simulation = <<>> /\ simulator = "idle"
    /\ signalled = FALSE

-----------------------------------------------------------------------------
(* The sequencer thread. *)

(* Whether another inbound message fits within the pending-work bound. *)
Accepting == outstanding < PerExecutor * Cardinality(Executors)

(* schedule(): append to the ledger, add to the block hash, register. *)
Schedule(req) ==
    /\ pc = "process" /\ Accepting
    /\ Len(history) < MaxTxns
    /\ Register(req)
    /\ history' = Append(history, [request |-> req, slot |-> SlotNow])
    /\ hasher' = [hasher EXCEPT !.current = @ \cup {Len(history) + 1}]
    /\ pc' = "dispatch"
    /\ UNCHANGED <<op, poolVars, unsent, block, blocks, stateVars, boundaries,
                   simVars, signalled>>

(* A boundary message: each begins by draining, which begins by dispatching. *)
Boundary(kind) ==
    /\ pc = "process" /\ Accepting
    /\ boundaries < MaxBoundaries
    /\ boundaries' = boundaries + 1
    /\ op' = kind
    /\ pc' = "dispatch"

(* finalize() up to its drain: the block takes its hash from the hasher. *)
Finalize(kind) ==
    /\ Boundary(kind)
    /\ block' = [slot |-> SlotNow, parent |-> hasher.parent, txns |-> hasher.current]
    /\ UNCHANGED <<tableVars, poolVars, unsent, hasher, blocks, history, stateVars,
                   simVars, signalled>>

(* finalize() of a replayed block that does not match the local hash chain. *)
ReplayMismatch ==
    /\ pc = "process" /\ Accepting
    /\ boundaries < MaxBoundaries
    /\ boundaries' = boundaries + 1
    /\ op' = "mismatch" /\ pc' = "join"
    /\ UNCHANGED <<tableVars, poolVars, chainVars, stateVars, simVars, signalled>>

Barrier ==
    /\ Boundary("barrier")
    /\ UNCHANGED <<tableVars, poolVars, chainVars, stateVars, simVars, signalled>>

Shutdown ==
    /\ Boundary("shutdown")
    /\ UNCHANGED <<tableVars, poolVars, chainVars, stateVars, simVars, signalled>>

(* One iteration of dispatch_ready(): the lowest available executor gets    *)
(* the first ready transaction, once its channel has room for it.           *)
Dispatch ==
    /\ pc = "dispatch" /\ available # {} /\ ready # <<>>
    /\ LET e == Min(available)
       IN  /\ Len(inbox[e]) < ChannelSize
           /\ inbox' = [inbox EXCEPT ![e] = Append(@,
                          [kind |-> "txn", ticket |-> Head(ready),
                           index |-> IndexOf(Head(ready))])]
           /\ available' = available \ {e}
    /\ TakeReady
    /\ UNCHANGED <<pc, op, running, env, worker, events, chainVars, stateVars,
                   boundaries, simVars, signalled>>

(* dispatch_ready() returns to the loop it was called from. *)
DispatchDone ==
    /\ pc = "dispatch" /\ (available = {} \/ ready = <<>>)
    /\ pc' = IF op = "none" THEN "process" ELSE "drain"
    /\ UNCHANGED <<tableVars, op, poolVars, chainVars, stateVars, boundaries,
                   simVars, signalled>>

(* Takes an executor event, in process() or while drain() has work left. *)
EventReceived(kind) ==
    /\ pc = "process" \/ (pc = "drain" /\ outstanding # 0)
    /\ events # <<>>
    /\ Head(events).kind = kind
    /\ events' = Tail(events)

(* handle_event() of a completion. *)
HandleCompleted ==
    /\ EventReceived("completed")
    /\ available' = available \cup {Head(events).id}
    /\ Complete(Head(events).ticket)
    /\ pc' = "dispatch"
    /\ UNCHANGED <<op, inbox, running, env, worker, chainVars, stateVars,
                   boundaries, simVars, signalled>>

(* handle_event() of a failure: fail-stop without releasing anything. *)
HandleFailed ==
    /\ EventReceived("failed")
    /\ pc' = "join"
    /\ UNCHANGED <<tableVars, op, available, inbox, running, env, worker,
                   chainVars, stateVars, boundaries, simVars, signalled>>

(* Mutant of Drained: does not wait for what executors still run. *)
DrainedEarly ==
    /\ pc = "drain" /\ ready = <<>>
    /\ Reset
    /\ pc' = IF op \in {"block", "checkpoint"} THEN "transition" ELSE "paused"
    /\ unsent' = Executors
    /\ UNCHANGED <<op, poolVars, hasher, block, blocks, history, stateVars,
                   boundaries, simVars, signalled>>

(* Mutant of Drained: a barrier does not wait for the simulator. *)
DrainedNoSimulator ==
    /\ pc = "drain" /\ outstanding = 0
    /\ Reset
    /\ pc' = CASE op \in {"block", "checkpoint"} -> "transition"
               [] op \in {"barrier", "shutdown"} -> "paused"
               [] op = "exit" -> "join"
    /\ unsent' = IF op \in {"block", "checkpoint"} THEN Executors ELSE unsent
    /\ UNCHANGED <<op, poolVars, hasher, block, blocks, history, stateVars,
                   boundaries, simVars, signalled>>

(* drain() ends: the table resets and the boundary goes on. *)
Drained ==
    /\ pc = "drain" /\ outstanding = 0
    /\ Reset
    /\ pc' = CASE op \in {"block", "checkpoint"} -> "transition"
               [] op = "barrier" ->
                    IF simulator = "stopped" THEN "join" ELSE "await_simulator"
               [] op = "shutdown" -> "paused"
               [] op = "exit" -> "join"
    /\ unsent' = IF op \in {"block", "checkpoint"} THEN Executors ELSE unsent
    /\ simulation' = IF op = "barrier" /\ simulator # "stopped"
                     THEN Append(simulation, "barrier") ELSE simulation
    /\ UNCHANGED <<op, poolVars, hasher, block, blocks, history, stateVars,
                   boundaries, simulator, signalled>>

(* Mutant of SendTransition: the boundary reaches one executor only. *)
SendTransitionFirst ==
    /\ pc = "transition" /\ unsent # {}
    /\ LET e == Min(unsent)
       IN  /\ Len(inbox[e]) < ChannelSize
           /\ inbox' = [inbox EXCEPT ![e] =
                          Append(@, [kind |-> "block", ticket |-> NoTicket,
                                     index |-> block.slot + 1])]
           /\ unsent' = {}
    /\ UNCHANGED <<tableVars, pc, op, available, running, env, worker, events,
                   hasher, block, blocks, history, stateVars, boundaries, simVars,
                   signalled>>

(* Executors::transition(): the boundary goes to every executor in turn. *)
SendTransition ==
    /\ pc = "transition" /\ unsent # {}
    /\ LET e == Min(unsent)
       IN  /\ Len(inbox[e]) < ChannelSize
           /\ inbox' = [inbox EXCEPT ![e] =
                          Append(@, [kind |-> "block", ticket |-> NoTicket,
                                     index |-> block.slot + 1])]
           /\ unsent' = unsent \ {e}
    /\ UNCHANGED <<tableVars, pc, op, available, running, env, worker, events,
                   hasher, block, blocks, history, stateVars, boundaries, simVars,
                   signalled>>

(* finalize() ends: append the block, advance the hash chain and the slot.  *)
(* A checkpoint then pauses.                                                *)
AppendBlock ==
    /\ pc = "transition" /\ unsent = {}
    /\ blocks' = Append(blocks, block)
    /\ hasher' = [parent |-> Len(blocks) + 1, current |-> {}]
    /\ block' = NoBlock
    /\ pc' = IF op = "checkpoint" THEN "paused" ELSE "process"
    /\ op' = IF op = "checkpoint" THEN op ELSE "none"
    /\ UNCHANGED <<tableVars, poolVars, unsent, history, stateVars, boundaries,
                   simVars, signalled>>

(* The simulator has taken this barrier and the sequencer holds its release *)
(* end.  A simulator still parked by an earlier barrier was released.       *)
Held ==
    /\ op = "barrier" /\ pc \in {"await_simulator", "paused"}
    /\ "barrier" \notin Range(simulation)
    /\ simulator = "parked"

(* barrier(): the simulator acknowledged, and so the sequencer does. *)
SimulatorParked ==
    /\ pc = "await_simulator" /\ Held
    /\ pc' = "paused"
    /\ UNCHANGED <<tableVars, op, poolVars, chainVars, stateVars, boundaries,
                   simVars, signalled>>

(* barrier(): the simulator stopped without acknowledging. *)
SimulatorLost ==
    /\ pc = "await_simulator" /\ simulator = "stopped"
    /\ pc' = "join"
    /\ UNCHANGED <<tableVars, op, poolVars, chainVars, stateVars, boundaries,
                   simVars, signalled>>

(* The controller that owns the guard releases it: pause() returns. *)
Release ==
    /\ pc = "paused"
    /\ IF op = "shutdown" THEN pc' = "await_signal" /\ op' = op
                          ELSE pc' = "process" /\ op' = "none"
    /\ UNCHANGED <<tableVars, poolVars, chainVars, stateVars, boundaries, simVars,
                   signalled>>

(* Mutant of Cancelled: the pool is joined without draining. *)
CancelledNoDrain ==
    /\ pc \in {"process", "await_signal"} /\ signalled
    /\ op' = "exit" /\ pc' = "join"
    /\ UNCHANGED <<tableVars, poolVars, chainVars, stateVars, boundaries, simVars,
                   signalled>>

(* process() returns on cancellation; run() then drains what is in flight. *)
Cancelled ==
    /\ pc \in {"process", "await_signal"} /\ signalled
    /\ op' = "exit" /\ pc' = "dispatch"
    /\ UNCHANGED <<tableVars, poolVars, chainVars, stateVars, boundaries, simVars,
                   signalled>>

(* Executors::join(): the channels are closed and every thread has ended. *)
Join ==
    /\ pc = "join" /\ \A e \in Executors : worker[e] # "alive"
    /\ pc' = "stopped"
    /\ UNCHANGED <<tableVars, op, poolVars, chainVars, stateVars, boundaries,
                   simVars, signalled>>

-----------------------------------------------------------------------------
(* An executor thread. *)

(* run(): takes the next message; a block boundary is applied at once. *)
Receive(e) ==
    /\ worker[e] = "alive" /\ running[e] = NoWork /\ inbox[e] # <<>>
    /\ LET msg == Head(inbox[e])
       IN  IF msg.kind = "txn"
           THEN /\ running' = [running EXCEPT ![e] =
                                  [ticket |-> msg.ticket, index |-> msg.index]]
                /\ UNCHANGED env
           ELSE /\ env' = [env EXCEPT ![e] = msg.index]
                /\ UNCHANGED running
    /\ inbox' = [inbox EXCEPT ![e] = Tail(@)]
    /\ UNCHANGED <<tableVars, pc, op, available, worker, events, chainVars,
                   stateVars, boundaries, simVars, signalled>>

(* process() succeeded: the transaction is committed, then reported. *)
Commit(e) ==
    /\ running[e] # NoWork
    /\ committed' = committed \cup {running[e].index}
    /\ store' = [x \in Account |->
                    IF x \in history[running[e].index].request.writes
                    THEN running[e].index ELSE store[x]]
    /\ events' = Append(events, [kind |-> "completed", id |-> e,
                                 ticket |-> running[e].ticket])
    /\ running' = [running EXCEPT ![e] = NoWork]
    /\ UNCHANGED <<tableVars, pc, op, available, inbox, env, worker, chainVars,
                   boundaries, simVars, signalled>>

(* process() failed: the executor drops its channel, reports and ends. *)
Fail(e) ==
    /\ running[e] # NoWork
    /\ events' = Append(events, [kind |-> "failed", id |-> e, ticket |-> NoTicket])
    /\ running' = [running EXCEPT ![e] = NoWork]
    /\ worker' = [worker EXCEPT ![e] = "failed"]
    /\ inbox' = [inbox EXCEPT ![e] = <<>>]
    /\ UNCHANGED <<tableVars, pc, op, available, env, chainVars, stateVars,
                   boundaries, simVars, signalled>>

(* run() ends when the channel is closed and empty. *)
Exit(e) ==
    /\ pc = "join" /\ worker[e] = "alive"
    /\ running[e] = NoWork /\ inbox[e] = <<>>
    /\ worker' = [worker EXCEPT ![e] = "exited"]
    /\ UNCHANGED <<tableVars, pc, op, available, inbox, running, env, events,
                   chainVars, stateVars, boundaries, simVars, signalled>>

-----------------------------------------------------------------------------
(* The simulator thread and the environment. *)

(* A client queues a simulation. *)
Simulate ==
    /\ simulator # "stopped" /\ Len(simulation) < MaxSimulations
    /\ simulation' = Append(simulation, "txn")
    /\ UNCHANGED <<tableVars, pc, op, poolVars, chainVars, stateVars, boundaries,
                   simulator, signalled>>

(* handle_message(): a transaction runs; a barrier acknowledges and parks. *)
SimReceive ==
    /\ simulator = "idle" /\ simulation # <<>>
    /\ simulator' = IF Head(simulation) = "txn" THEN "running" ELSE "parked"
    /\ simulation' = Tail(simulation)
    /\ UNCHANGED <<tableVars, pc, op, poolVars, chainVars, stateVars, boundaries,
                   signalled>>

(* A simulation ends, or the sequencer dropped the barrier's release end. *)
SimResume ==
    /\ \/ simulator = "running"
       \/ simulator = "parked" /\ ~Held
    /\ simulator' = "idle"
    /\ UNCHANGED <<tableVars, pc, op, poolVars, chainVars, stateVars, boundaries,
                   simulation, signalled>>

(* The simulator's tier is cancelled after the sequencer's, possibly before *)
(* the sequencer has stopped (a tier has a bounded time to report).         *)
SimStop ==
    /\ signalled /\ simulator = "idle"
    /\ simulator' = "stopped" /\ simulation' = <<>>
    /\ UNCHANGED <<tableVars, pc, op, poolVars, chainVars, stateVars, boundaries,
                   signalled>>

Signal ==
    /\ ~signalled /\ signalled' = TRUE
    /\ UNCHANGED <<tableVars, pc, op, poolVars, chainVars, stateVars, boundaries,
                   simVars>>

(* The process has ended. *)
Stopped ==
    /\ pc = "stopped" /\ simulator = "stopped"
    /\ UNCHANGED vars

SequencerStep ==
    \/ Dispatch \/ DispatchDone \/ HandleCompleted \/ HandleFailed \/ Drained
    \/ SendTransition \/ AppendBlock \/ SimulatorParked \/ SimulatorLost
    \/ Cancelled \/ Join

ExecutorStep(e) == Receive(e) \/ Commit(e) \/ Exit(e)

SimulatorStep == SimReceive \/ SimResume

Next ==
    \/ \E req \in Request : Schedule(req)
    \/ \E kind \in {"block", "checkpoint"} : Finalize(kind)
    \/ ReplayMismatch \/ Barrier \/ Shutdown
    \/ SequencerStep
    \/ Release
    \/ \E e \in Executors : ExecutorStep(e) \/ Fail(e)
    \/ Simulate \/ SimulatorStep \/ SimStop
    \/ Signal
    \/ Stopped

Spec == Init /\ [][Next]_vars

(***************************************************************************)
(* Every thread keeps running, and whoever holds a guard releases it.      *)
(* Executor failures, messages, cancellation and the end of the simulator  *)
(* may or may not come.                                                    *)
(***************************************************************************)
Fairness ==
    /\ WF_vars(SequencerStep)
    /\ \A e \in Executors : WF_vars(ExecutorStep(e))
    /\ WF_vars(SimulatorStep)
    /\ WF_vars(Release)

FairSpec == Spec /\ Fairness

-----------------------------------------------------------------------------
Message == [kind : {"txn", "block"}, ticket : Nat, index : Nat]

(* Types of the threads, channels and the chain. *)
TypeOK ==
    /\ TableTypeOK
    /\ pc \in {"process", "dispatch", "drain", "transition", "await_simulator",
              "paused", "await_signal", "join", "stopped"}
    /\ op \in {"none", "block", "checkpoint", "barrier", "shutdown", "exit",
              "mismatch"}
    /\ available \subseteq Executors
    /\ \A e \in Executors : inbox[e] \in Seq(Message) /\ Len(inbox[e]) <= ChannelSize
    /\ running \in [Executors -> [ticket : Nat, index : Nat]]
    /\ env \in [Executors -> Nat]
    /\ worker \in [Executors -> {"alive", "failed", "exited"}]
    /\ events \in Seq([kind : {"completed", "failed"}, id : Executors, ticket : Nat])
    /\ unsent \subseteq Executors
    /\ hasher \in [parent : Nat, current : SUBSET Nat]
    /\ block \in [slot : Nat, parent : Nat, txns : SUBSET Nat]
    /\ blocks \in Seq([slot : Nat, parent : Nat, txns : SUBSET Nat])
    /\ history \in Seq([request : Request, slot : Nat])
    /\ committed \subseteq DOMAIN history
    /\ store \in [Account -> Nat]
    /\ boundaries \in Nat
    /\ simulation \in Seq({"txn", "barrier"})
    /\ simulator \in {"idle", "running", "parked", "stopped"}
    /\ signalled \in BOOLEAN

Accesses(i) == history[i].request.writes \cup history[i].request.reads

(* The transaction before i in the stream that wrote x last, 0 if none. *)
LastWriterBefore(i, x) ==
    Max({0} \cup {j \in 1..(i - 1) : x \in history[j].request.writes})

(***************************************************************************)
(* Parallel execution is equivalent to executing the stream one by one:    *)
(* while a transaction runs, every account it accesses holds the value     *)
(* that the last earlier writer of the stream left, across block, barrier  *)
(* and ticket-reset boundaries, whatever the executors' speeds.            *)
(***************************************************************************)
ExecutionIsSerial ==
    \A e \in Executors : running[e] # NoWork =>
        \A x \in Accesses(running[e].index) :
            store[x] = LastWriterBefore(running[e].index, x)

(***************************************************************************)
(* While a guard is acknowledged nothing executes and everything accepted  *)
(* is committed; a barrier also holds the simulator.  Compaction and       *)
(* checksums of the account store rely on it.                              *)
(***************************************************************************)
QuiescentWhilePaused ==
    pc = "paused" =>
        /\ \A e \in Executors : /\ running[e] = NoWork
                                /\ \A i \in DOMAIN inbox[e] : inbox[e][i].kind = "block"
        /\ committed = DOMAIN history
        /\ op = "barrier" => simulator = "parked"

(***************************************************************************)
(* A transaction executes in the environment of the block it is ledgered   *)
(* in: the boundary reaches each executor after the transactions of the    *)
(* ended block and before those of the next (executor.rs, svm.transition). *)
(* And the hash of a block covers exactly the transactions ledgered since  *)
(* the previous block, which it names as its parent.                       *)
(***************************************************************************)
BlocksAreExact ==
    /\ \A e \in Executors :
         running[e] # NoWork => env[e] = history[running[e].index].slot
    /\ \A k \in DOMAIN blocks :
         blocks[k] = [slot |-> k - 1, parent |-> k - 1,
                      txns |-> {i \in DOMAIN history : history[i].slot = k - 1}]

Aborted == op = "mismatch" \/ \E e \in Executors : worker[e] = "failed"

(***************************************************************************)
(* The sequencer always gets on.  Every transaction accepted into the      *)
(* ledger is committed, also across shutdown, unless it fail-stopped; a    *)
(* boundary is reached, whatever is blocked behind what: drain ends and    *)
(* the guard is acknowledged; and once its tier is cancelled it stops (the *)
(* inbound messages are bounded here, earlier tiers have stopped sending). *)
(***************************************************************************)
StreamIsServed ==
    /\ \A i \in 1..MaxTxns : i <= Len(history) ~> i \in committed \/ Aborted
    /\ op \in {"checkpoint", "barrier", "shutdown"} /\ pc = "drain"
         ~> pc \in {"paused", "stopped"}
    /\ signalled ~> pc = "stopped"
=============================================================================
