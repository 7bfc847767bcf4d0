-------------------------- MODULE SequencerLemmas ---------------------------
(***************************************************************************)
(* The inductive invariant of the sequencer, its executor pool and the     *)
(* simulator, for every set of executors, accounts and transactions; the   *)
(* facts about its channels and its table that every step needs; the steps *)
(* of the sequencer's control loop; and what the invariant says.           *)
(***************************************************************************)
EXTENDS Sequencer, TLAPS

Outcome == [kind : {"completed", "failed"}, id : Executors, ticket : Nat]

PoolTypes ==
    /\ available \subseteq Executors
    /\ inbox \in [Executors -> Seq(Message)]
    /\ running \in [Executors -> [ticket : Nat, index : Nat]]
    /\ env \in [Executors -> Nat]
    /\ worker \in [Executors -> {"alive", "failed", "exited"}]
    /\ events \in Seq(Outcome)

(* A handed out ticket is in a channel, is run, or is reported. *)
Queues(q, t) == \E i \in DOMAIN q : q[i].kind = "txn" /\ q[i].ticket = t
Runs(w, t) == w # NoWork /\ w.ticket = t
Reports(evs, e, t) ==
    \E i \in DOMAIN evs : evs[i].kind = "completed" /\ evs[i].id = e /\ evs[i].ticket = t

Works(e, t) == Queues(inbox[e], t) \/ Runs(running[e], t) \/ Reports(events, e, t)

(* A channel holds at most one transaction, behind every block boundary. *)
ChannelInv(e) ==
    /\ \A i \in DOMAIN inbox[e] : inbox[e][i].kind = "txn" =>
          /\ i = Len(inbox[e])
          /\ inbox[e][i].ticket \in taken
          /\ inbox[e][i].index = IndexOf(inbox[e][i].ticket)
    /\ running[e] # NoWork =>
          /\ running[e].ticket \in taken
          /\ running[e].index = IndexOf(running[e].ticket)
          /\ inbox[e] = <<>> /\ worker[e] = "alive"

EventsInv ==
    /\ \A i \in DOMAIN events : events[i].kind = "completed" => events[i].ticket \in taken
    /\ \A i, j \in DOMAIN events :
          events[i].kind = "completed" /\ events[j].kind = "completed"
            /\ events[i].ticket = events[j].ticket => i = j

(* An executor works on one ticket at a time, in one of the three ways, and *)
(* no two executors work on the same one.                                   *)
WorkInv ==
    /\ \A e \in available : worker[e] # "failed"
    /\ \A e \in Executors, t \in taken : Works(e, t) =>
          /\ e \notin available /\ worker[e] # "failed"
          /\ ~(Queues(inbox[e], t) /\ Runs(running[e], t))
          /\ ~(Reports(events, e, t) /\ (Queues(inbox[e], t) \/ Runs(running[e], t)))
          /\ \A f \in Executors, u \in taken : Works(f, u) /\ (e = f \/ t = u) => e = f /\ t = u

PoolInv == PoolTypes /\ (\A e \in Executors : ChannelInv(e)) /\ EventsInv /\ WorkInv

(* The number of blocks the sequencer told executor e of. *)
Told(e) == IF pc = "transition" /\ e \notin unsent THEN Len(blocks) + 1 ELSE Len(blocks)

BlocksQueued(q) == IF q # <<>> /\ q[Len(q)].kind = "txn" THEN Len(q) - 1 ELSE Len(q)

EnvInv ==
    \A e \in Executors : worker[e] # "failed" =>
        /\ \A i \in DOMAIN inbox[e] : inbox[e][i].kind = "block" => inbox[e][i].index = env[e] + i
        /\ env[e] + BlocksQueued(inbox[e]) = Told(e)

(* The ledger, the hash chain and the table's stream agree. *)
InSlot(k) == {i \in DOMAIN history : history[i].slot = k}

ChainInv ==
    /\ history \in Seq([request : Request, slot : Nat])
    /\ blocks \in Seq([slot : Nat, parent : Nat, txns : SUBSET Nat])
    /\ Len(stream) <= Len(history)
    /\ \A t \in DOMAIN stream : history[IndexOf(t)] = [request |-> stream[t], slot |-> Len(blocks)]
    /\ \A i \in DOMAIN history : history[i].slot <= Len(blocks)
    /\ hasher = [parent |-> Len(blocks), current |-> InSlot(Len(blocks))]
    /\ op \in {"block", "checkpoint"} /\ pc \in {"dispatch", "drain", "transition"} =>
          block = [slot |-> Len(blocks), parent |-> Len(blocks), txns |-> hasher.current]
    /\ \A k \in DOMAIN blocks :
          blocks[k] = [slot |-> k - 1, parent |-> k - 1, txns |-> InSlot(k - 1)]

(* What is committed is what was completed or is reported, and the store   *)
(* holds the last committed write of each account.                         *)
Reported(t) == \E e \in Executors : Reports(events, e, t)

CommitInv ==
    /\ committed \subseteq DOMAIN history
    /\ 1..(Len(history) - Len(stream)) \subseteq committed
    /\ \A t \in Tickets : IndexOf(t) \in committed <=> Done(t) \/ Reported(t)

StoreInv ==
    /\ store \in [Account -> Nat]
    /\ \A x \in Account :
          /\ store[x] # 0 => store[x] \in committed /\ x \in history[store[x]].request.writes
          /\ \A j \in committed : x \in history[j].request.writes => j <= store[x]

Boundaries == {"block", "checkpoint", "barrier", "shutdown", "exit"}

ControlInv ==
    /\ simulation \in Seq({"txn", "barrier"}) /\ unsent \subseteq Executors
    /\ pc \in {"process", "dispatch", "drain", "transition", "await_simulator", "paused",
               "await_signal", "join", "stopped"}
    /\ pc = "process" => op = "none"
    /\ pc = "dispatch" => op \in Boundaries \cup {"none"}
    /\ pc = "drain" => op \in Boundaries
    /\ pc = "transition" => op \in {"block", "checkpoint"}
    /\ pc = "await_simulator" => op = "barrier"
    /\ pc = "paused" => op \in {"checkpoint", "barrier", "shutdown"} /\ (op = "barrier" => Held)
    /\ pc \in {"transition", "await_simulator", "paused", "await_signal"} => stream = <<>>

SequencerInv ==
    TableInv /\ ControlInv /\ PoolInv /\ EnvInv /\ ChainInv /\ CommitInv /\ StoreInv

(* The part of it that is not the table's. *)
ThreadsInv == ControlInv /\ PoolInv /\ EnvInv /\ ChainInv /\ CommitInv /\ StoreInv

-----------------------------------------------------------------------------
(* Sequences, channels and the table.                                       *)

(* A sequence, one element longer. *)
LEMMA Longer ==
    ASSUME NEW S, NEW s \in Seq(S), NEW x \in S
    PROVE  /\ Append(s, x) \in Seq(S) /\ Len(s) \in Nat /\ Len(Append(s, x)) = Len(s) + 1
           /\ DOMAIN s = 1..Len(s) /\ DOMAIN Append(s, x) = 1..(Len(s) + 1)
           /\ Append(s, x)[Len(s) + 1] = x /\ Append(s, x) # <<>>
           /\ \A i \in 1..Len(s) : Append(s, x)[i] = s[i] /\ s[i] \in S
  <1>1. Append(s, x) \in Seq(S) /\ Len(s) \in Nat /\ Len(Append(s, x)) = Len(s) + 1
    OBVIOUS
  <1>2. DOMAIN s = 1..Len(s) /\ DOMAIN Append(s, x) = 1..(Len(s) + 1)
    OBVIOUS
  <1>3. Append(s, x)[Len(s) + 1] = x /\ \A i \in 1..Len(s) : Append(s, x)[i] = s[i] /\ s[i] \in S
    OBVIOUS
  <1>4. Append(s, x) # <<>>
    BY <1>1
  <1> QED BY <1>1, <1>2, <1>3, <1>4

(* A sequence without its first element. *)
LEMMA Shorter ==
    ASSUME NEW S, NEW s \in Seq(S), s # <<>>
    PROVE  /\ Tail(s) \in Seq(S) /\ Len(s) \in Nat \ {0} /\ Len(Tail(s)) = Len(s) - 1
           /\ DOMAIN s = 1..Len(s) /\ DOMAIN Tail(s) = 1..(Len(s) - 1)
           /\ Head(s) = s[1] /\ Head(s) \in S
           /\ \A i \in 1..(Len(s) - 1) : Tail(s)[i] = s[i + 1]
  <1>1. Len(s) \in Nat \ {0} /\ DOMAIN s = 1..Len(s)
    OBVIOUS
  <1>2. Tail(s) \in Seq(S) /\ Len(Tail(s)) = Len(s) - 1 /\ Head(s) \in S
    OBVIOUS
  <1>3. DOMAIN Tail(s) = 1..(Len(s) - 1)
    BY <1>2
  <1>4. Head(s) = s[1] /\ \A i \in 1..(Len(s) - 1) : Tail(s)[i] = s[i + 1]
    OBVIOUS
  <1> QED BY <1>1, <1>2, <1>3, <1>4

(* A sequence of no element. *)
LEMMA ZeroLength == ASSUME NEW S, NEW s \in Seq(S) PROVE Len(s) = 0 <=> s = <<>>
  OBVIOUS

(* The elements of a sequence, and their places. *)
LEMMA Elements ==
    ASSUME NEW S, NEW s \in Seq(S)
    PROVE  Len(s) \in Nat /\ DOMAIN s = 1..Len(s) /\ \A i \in DOMAIN s : s[i] \in S
  OBVIOUS

(* The empty sequence is one of any set. *)
LEMMA EmptyQueue == ASSUME NEW S PROVE <<>> \in Seq(S)
  OBVIOUS

(* What a channel holds once a message was sent or received. *)
LEMMA QueuesAppend ==
    ASSUME NEW q \in Seq(Message), NEW m \in Message, NEW t
    PROVE  Queues(Append(q, m), t) <=> Queues(q, t) \/ (m.kind = "txn" /\ m.ticket = t)
  <1>1. /\ Len(q) \in Nat /\ DOMAIN q = 1..Len(q) /\ DOMAIN Append(q, m) = 1..(Len(q) + 1)
        /\ Append(q, m)[Len(q) + 1] = m /\ \A i \in 1..Len(q) : Append(q, m)[i] = q[i]
    BY Longer
  <1> QED BY <1>1 DEF Queues

LEMMA QueuesTail ==
    ASSUME NEW q \in Seq(Message), q # <<>>, NEW t
    PROVE  Queues(q, t) <=> Queues(Tail(q), t) \/ (Head(q).kind = "txn" /\ Head(q).ticket = t)
  <1>1. /\ Len(q) \in Nat \ {0} /\ DOMAIN q = 1..Len(q) /\ DOMAIN Tail(q) = 1..(Len(q) - 1)
        /\ Head(q) = q[1] /\ \A i \in 1..(Len(q) - 1) : Tail(q)[i] = q[i + 1]
    BY Shorter
  <1>2. ASSUME NEW i \in DOMAIN q, i # 1 PROVE i - 1 \in DOMAIN Tail(q) /\ Tail(q)[i - 1] = q[i]
    BY <1>1, <1>2
  <1>3. Queues(q, t) => Queues(Tail(q), t) \/ (Head(q).kind = "txn" /\ Head(q).ticket = t)
    BY <1>1, <1>2 DEF Queues
  <1>4. ASSUME NEW i \in DOMAIN Tail(q) PROVE i + 1 \in DOMAIN q /\ Tail(q)[i] = q[i + 1]
    BY <1>1, <1>4
  <1> QED BY <1>1, <1>3, <1>4 DEF Queues

(* What is reported once an event was sent or taken. *)
LEMMA ReportsAppend ==
    ASSUME NEW evs \in Seq(Outcome), NEW m \in Outcome, NEW e, NEW t
    PROVE  Reports(Append(evs, m), e, t) <=>
             Reports(evs, e, t) \/ (m.kind = "completed" /\ m.id = e /\ m.ticket = t)
  <1>1. /\ Len(evs) \in Nat /\ DOMAIN evs = 1..Len(evs) /\ DOMAIN Append(evs, m) = 1..(Len(evs) + 1)
        /\ Append(evs, m)[Len(evs) + 1] = m /\ \A i \in 1..Len(evs) : Append(evs, m)[i] = evs[i]
    BY Longer
  <1> QED BY <1>1 DEF Reports

LEMMA ReportsTail ==
    ASSUME NEW evs \in Seq(Outcome), evs # <<>>, NEW e, NEW t
    PROVE  Reports(evs, e, t) <=>
             \/ Reports(Tail(evs), e, t)
             \/ Head(evs).kind = "completed" /\ Head(evs).id = e /\ Head(evs).ticket = t
  <1>1. /\ Len(evs) \in Nat \ {0} /\ DOMAIN evs = 1..Len(evs) /\ DOMAIN Tail(evs) = 1..(Len(evs) - 1)
        /\ Head(evs) = evs[1] /\ \A i \in 1..(Len(evs) - 1) : Tail(evs)[i] = evs[i + 1]
    BY Shorter
  <1>2. ASSUME NEW i \in DOMAIN evs, i # 1 PROVE i - 1 \in DOMAIN Tail(evs) /\ Tail(evs)[i - 1] = evs[i]
    BY <1>1, <1>2
  <1>3. Reports(evs, e, t) => \/ Reports(Tail(evs), e, t)
                              \/ Head(evs).kind = "completed" /\ Head(evs).id = e /\ Head(evs).ticket = t
    BY <1>1, <1>2 DEF Reports
  <1>4. ASSUME NEW i \in DOMAIN Tail(evs) PROVE i + 1 \in DOMAIN evs /\ Tail(evs)[i] = evs[i + 1]
    BY <1>1, <1>4
  <1> QED BY <1>1, <1>3, <1>4 DEF Reports

(* Who works on a ticket works on one that was handed out. *)
LEMMA WorkIsTaken ==
    ASSUME PoolInv, NEW e \in Executors, NEW t, Works(e, t)
    PROVE  t \in taken
  BY DEF PoolInv, ChannelInv, EventsInv, Works, Queues, Runs, Reports

(* The tickets of the epoch are the indices of the arena. *)
LEMMA TicketsAre ==
    ASSUME TableInv
    PROVE  Tickets = 1..Len(nodes) /\ Len(nodes) \in Nat
  <1>1. nodes \in Seq([predecessors : Nat \cup {COMPLETE}, dependents : SUBSET Nat])
    BY DEF TableInv, TableTypeOK
  <1> QED BY <1>1, Elements DEF Tickets

(* Between epochs nothing is handed out, and nobody works. *)
LEMMA EmptyEpoch ==
    ASSUME TableInv, stream = <<>>
    PROVE  Tickets = {} /\ taken = {}
  <1>1. Tickets = 1..Len(nodes) /\ Len(nodes) = Len(stream) /\ taken \subseteq Tickets
    BY TicketsAre DEF TableInv, TableTypeOK
  <1> QED BY <1>1

-----------------------------------------------------------------------------
(* What a step leaves alone.                                                *)

(* The pool, its tickets and their places in the ledger stay. *)
LEMMA PoolFrame ==
    ASSUME PoolInv, UNCHANGED <<poolVars, taken>>,
           Len(history') - Len(stream') = Len(history) - Len(stream)
    PROVE  PoolInv'
  <1>1. \A t : IndexOf(t)' = IndexOf(t)
    BY DEF IndexOf
  <1>2. UNCHANGED <<available, inbox, running, env, worker, events>>
    BY DEF poolVars
  <1>3. PoolTypes'
    BY <1>2 DEF PoolInv, PoolTypes
  <1>4. \A e \in Executors : ChannelInv(e)'
    BY <1>1, <1>2 DEF PoolInv, ChannelInv
  <1>5. EventsInv'
    BY <1>2 DEF PoolInv, EventsInv
  <1>6. WorkInv'
    BY <1>2 DEF PoolInv, WorkInv, Works
  <1> QED BY <1>3, <1>4, <1>5, <1>6 DEF PoolInv

(* Executors know of the same blocks. *)
LEMMA EnvFrame ==
    ASSUME EnvInv, UNCHANGED <<inbox, env, worker>>, \A e \in Executors : Told(e)' = Told(e)
    PROVE  EnvInv'
  BY Zenon DEF EnvInv

(* The ledger stays, and so does the block that is being ended. *)
LEMMA ChainFrame ==
    ASSUME ChainInv, UNCHANGED <<history, blocks, stream, hasher>>,
           op' \in {"block", "checkpoint"} /\ pc' \in {"dispatch", "drain", "transition"} =>
              block' = [slot |-> Len(blocks), parent |-> Len(blocks), txns |-> hasher.current]
    PROVE  ChainInv'
  <1>1. \A t : IndexOf(t)' = IndexOf(t)
    BY DEF IndexOf
  <1>2. \A k : InSlot(k)' = InSlot(k)
    BY DEF InSlot
  <1> QED BY <1>1, <1>2 DEF ChainInv

(* Nothing is committed or completed. *)
LEMMA CommitFrame ==
    ASSUME CommitInv, UNCHANGED <<committed, history, stream, nodes, events>>
    PROVE  CommitInv'
  <1>1. /\ Tickets' = Tickets
        /\ \A t : IndexOf(t)' = IndexOf(t) /\ Done(t)' = Done(t) /\ Reported(t)' = Reported(t)
    BY DEF IndexOf, Tickets, Done, Reported
  <1> QED BY <1>1 DEF CommitInv

LEMMA StoreFrame ==
    ASSUME StoreInv, UNCHANGED <<committed, store, history>>
    PROVE  StoreInv'
  BY DEF StoreInv

(* A step of control alone: the table, the pool, the ledger and the store stay. *)
LEMMA ControlStep ==
    ASSUME SequencerInv, ControlInv',
           UNCHANGED <<tableVars, poolVars, unsent, hasher, blocks, history, stateVars>>,
           pc' = "transition" <=> pc = "transition",
           op' \in {"block", "checkpoint"} /\ pc' \in {"dispatch", "drain", "transition"} =>
              block' = [slot |-> Len(blocks), parent |-> Len(blocks), txns |-> hasher.current]
    PROVE  ThreadsInv'
  <1>1. UNCHANGED <<taken, stream, nodes>>
    BY DEF tableVars
  <1>2. UNCHANGED <<inbox, env, worker, events>>
    BY DEF poolVars
  <1>4. PoolInv'
    BY <1>1, PoolFrame DEF SequencerInv
  <1>5. EnvInv'
    <2>1. \A e \in Executors : Told(e)' = Told(e)
      BY DEF Told
    <2> QED BY <1>2, <2>1, EnvFrame DEF SequencerInv
  <1>6. ChainInv'
    BY <1>1, ChainFrame DEF SequencerInv
  <1>7. CommitInv' /\ StoreInv'
    BY <1>1, <1>2, CommitFrame, StoreFrame DEF SequencerInv, stateVars
  <1> QED BY <1>4, <1>5, <1>6, <1>7 DEF ThreadsInv

-----------------------------------------------------------------------------
(* Messages and the control of the sequencer thread.                        *)

(* A boundary that ends a block takes its transactions from the hasher. *)
LEMMA FinalizeInv == ASSUME NEW kind \in {"block", "checkpoint"} PROVE SequencerInv /\ Finalize(kind) => ThreadsInv'
  <1> SUFFICES ASSUME SequencerInv, Finalize(kind) PROVE ThreadsInv'
    OBVIOUS
  <1>1. pc = "process" /\ pc' = "dispatch" /\ op' = kind /\ UNCHANGED <<unsent, simVars>>
    BY DEF Finalize, Boundary
  <1>2. ControlInv'
    BY <1>1 DEF SequencerInv, ControlInv, Boundaries, simVars
  <1>3. block' = [slot |-> Len(blocks), parent |-> Len(blocks), txns |-> hasher.current]
    BY DEF Finalize, SlotNow, SequencerInv, ChainInv
  <1> QED BY <1>1, <1>2, <1>3, ControlStep DEF Finalize

(* Other boundaries, and a block that does not match. *)
LEMMA OtherBoundaryInv == SequencerInv /\ (ReplayMismatch \/ Barrier \/ Shutdown) => ThreadsInv'
  <1> SUFFICES ASSUME SequencerInv, ReplayMismatch \/ Barrier \/ Shutdown PROVE ThreadsInv'
    OBVIOUS
  <1>1. /\ pc = "process" /\ UNCHANGED <<tableVars, poolVars, chainVars, stateVars, simVars>>
        /\ \/ pc' = "dispatch" /\ op' \in {"barrier", "shutdown"}
           \/ pc' = "join" /\ op' = "mismatch"
    BY DEF ReplayMismatch, Barrier, Shutdown, Boundary
  <1>2. ControlInv'
    BY <1>1 DEF SequencerInv, ControlInv, Boundaries, simVars, chainVars
  <1> QED BY <1>1, <1>2, ControlStep DEF chainVars

(* dispatch_ready() returns. *)
LEMMA DispatchDoneInv == SequencerInv /\ DispatchDone => ThreadsInv'
  <1> SUFFICES ASSUME SequencerInv, DispatchDone PROVE ThreadsInv'
    OBVIOUS
  <1>1. /\ pc = "dispatch" /\ op' = op /\ pc' \in {"process", "drain"}
        /\ pc' = "process" <=> op = "none"
        /\ UNCHANGED <<tableVars, poolVars, chainVars, stateVars, simVars>>
    BY DEF DispatchDone
  <1>2. ControlInv'
    BY <1>1 DEF SequencerInv, ControlInv, Boundaries, simVars, chainVars
  <1>3. op' \in {"block", "checkpoint"} =>
            block = [slot |-> Len(blocks), parent |-> Len(blocks), txns |-> hasher.current]
    BY <1>1 DEF SequencerInv, ChainInv
  <1> QED BY <1>1, <1>2, <1>3, ControlStep DEF chainVars

(* The simulator acknowledges a barrier, or is gone. *)
LEMMA SimulatorAnswerInv == SequencerInv /\ (SimulatorParked \/ SimulatorLost) => ThreadsInv'
  <1> SUFFICES ASSUME SequencerInv, SimulatorParked \/ SimulatorLost PROVE ThreadsInv'
    OBVIOUS
  <1>1. /\ pc = "await_simulator" /\ op' = op
        /\ pc' = "join" \/ (pc' = "paused" /\ Held)
        /\ UNCHANGED <<tableVars, poolVars, chainVars, stateVars, simVars>>
    BY DEF SimulatorParked, SimulatorLost
  <1>2. op = "barrier" /\ stream = <<>> /\ stream' = stream /\ simulation' = simulation
        /\ simulator' = simulator /\ simulation \in Seq({"txn", "barrier"})
        /\ unsent' \subseteq Executors
    BY <1>1 DEF SequencerInv, ControlInv, tableVars, simVars, chainVars
  <1>3. pc' = "paused" => Held'
    BY <1>1, <1>2 DEF Held
  <1>4. ControlInv'
    BY <1>1, <1>2, <1>3 DEF ControlInv
  <1> QED BY <1>1, <1>2, <1>4, ControlStep DEF chainVars

(* A guard is released. *)
LEMMA ReleaseInv == SequencerInv /\ Release => ThreadsInv'
  <1> SUFFICES ASSUME SequencerInv, Release PROVE ThreadsInv'
    OBVIOUS
  <1>1. /\ pc = "paused"
        /\ \/ pc' = "await_signal" /\ op' = "shutdown"
           \/ pc' = "process" /\ op' = "none"
        /\ UNCHANGED <<tableVars, poolVars, chainVars, stateVars, simVars>>
    BY DEF Release
  <1>2. stream' = <<>> /\ simulation' \in Seq({"txn", "barrier"}) /\ unsent' \subseteq Executors
    BY <1>1 DEF SequencerInv, ControlInv, tableVars, simVars, chainVars
  <1>3. ControlInv'
    BY <1>1, <1>2 DEF ControlInv
  <1> QED BY <1>1, <1>3, ControlStep DEF chainVars

(* Cancellation starts the last drain; the pool ends; the thread ends. *)
LEMMA EndInv == SequencerInv /\ (Cancelled \/ Join) => ThreadsInv'
  <1> SUFFICES ASSUME SequencerInv, Cancelled \/ Join PROVE ThreadsInv'
    OBVIOUS
  <1>1. /\ \/ pc \in {"process", "await_signal"} /\ pc' = "dispatch" /\ op' = "exit"
           \/ pc = "join" /\ pc' = "stopped"
        /\ UNCHANGED <<tableVars, poolVars, chainVars, stateVars, simVars>>
    BY DEF Cancelled, Join
  <1>2. ControlInv'
    BY <1>1 DEF SequencerInv, ControlInv, Boundaries, simVars, chainVars
  <1> QED BY <1>1, <1>2, ControlStep DEF chainVars

(* The simulator and the environment: a held simulator stays parked. *)
LEMMA SimulatorInv ==
    SequencerInv /\ (Simulate \/ SimulatorStep \/ SimStop \/ Signal \/ UNCHANGED vars) => ThreadsInv'
  <1> SUFFICES ASSUME SequencerInv, Simulate \/ SimulatorStep \/ SimStop \/ Signal \/ UNCHANGED vars
               PROVE  ThreadsInv'
    OBVIOUS
  <1>1. UNCHANGED <<tableVars, pc, op, poolVars, chainVars, stateVars>>
    BY DEF Simulate, SimulatorStep, SimReceive, SimResume, SimStop, Signal, vars
  <1>2. simulation \in Seq({"txn", "barrier"})
    BY DEF SequencerInv, ControlInv
  <1>3. simulation' \in Seq({"txn", "barrier"})
    <2>1. CASE Simulate
      BY <1>2, <2>1, Longer DEF Simulate
    <2>2. CASE SimReceive
      BY <1>2, <2>2, Shorter DEF SimReceive
    <2>3. CASE SimResume
      BY <1>2, <2>3 DEF SimResume
    <2>4. CASE SimStop
      BY <2>4, EmptyQueue DEF SimStop
    <2>5. CASE Signal \/ UNCHANGED vars
      BY <1>2, <2>5 DEF Signal, vars, simVars
    <2> QED BY <2>1, <2>2, <2>3, <2>4, <2>5 DEF SimulatorStep
  <1>4. Held => Held'
    <2> SUFFICES ASSUME Held PROVE Held'
      OBVIOUS
    <2>1. simulator = "parked" /\ "barrier" \notin Range(simulation)
      BY DEF Held
    <2>2. CASE Simulate
      <3>1. Range(simulation') = Range(simulation) \cup {"txn"}
        <4>1. simulation' = Append(simulation, "txn")
          BY <2>2 DEF Simulate
        <4>2. /\ Len(simulation) \in Nat /\ DOMAIN simulation = 1..Len(simulation)
              /\ DOMAIN simulation' = 1..(Len(simulation) + 1)
              /\ simulation'[Len(simulation) + 1] = "txn"
              /\ \A i \in 1..Len(simulation) : simulation'[i] = simulation[i]
          BY <1>2, <4>1, Longer
        <4> QED BY <4>2 DEF Range
      <3> QED BY <1>1, <2>1, <2>2, <3>1 DEF Simulate, Held
    <2>3. CASE SimReceive \/ SimStop \/ SimResume
      BY <2>1, <2>3 DEF SimReceive, SimStop, SimResume
    <2>4. CASE Signal \/ UNCHANGED vars
      BY <1>1, <2>4 DEF Signal, vars, simVars, Held
    <2> QED BY <2>2, <2>3, <2>4 DEF SimulatorStep
  <1>5. ControlInv'
    BY <1>1, <1>3, <1>4 DEF SequencerInv, ControlInv, tableVars, chainVars
  <1>6. op' \in {"block", "checkpoint"} /\ pc' \in {"dispatch", "drain", "transition"} =>
           block' = [slot |-> Len(blocks), parent |-> Len(blocks), txns |-> hasher.current]
    BY <1>1 DEF SequencerInv, ChainInv, chainVars
  <1> QED BY <1>1, <1>5, <1>6, ControlStep DEF chainVars

(* An executor that does not work has no transaction in hand. *)
LEMMA IdleHands ==
    ASSUME PoolInv, NEW e \in Executors, \A t \in taken : ~Works(e, t)
    PROVE  /\ \A t : ~Works(e, t)
           /\ \A i \in DOMAIN inbox[e] : inbox[e][i].kind = "block"
           /\ running[e] = NoWork
  <1>1. \A t : ~Works(e, t)
    BY WorkIsTaken
  <1>2. inbox[e] \in Seq(Message)
    BY DEF PoolInv, PoolTypes
  <1>3. \A i \in DOMAIN inbox[e] : inbox[e][i].kind \in {"txn", "block"}
    <2>1. \A i \in DOMAIN inbox[e] : inbox[e][i] \in Message
      BY <1>2, Elements
    <2> QED BY <2>1 DEF Message
  <1> QED BY <1>1, <1>3 DEF Works, Queues, Runs

(* Work goes on with the same tickets in the same hands, or ends. *)
LEMMA WorkShrinks ==
    ASSUME PoolInv, taken' \subseteq taken,
           \A f \in available' : worker'[f] # "failed",
           \A f \in Executors, u \in taken' : Works(f, u)' =>
              /\ Works(f, u) /\ f \notin available' /\ worker'[f] # "failed"
              /\ ~(Queues(inbox'[f], u) /\ Runs(running'[f], u))
              /\ ~(Reports(events', f, u) /\ (Queues(inbox'[f], u) \/ Runs(running'[f], u)))
    PROVE  WorkInv'
  <1> SUFFICES ASSUME NEW f \in Executors, NEW u \in taken', Works(f, u)',
                      NEW g \in Executors, NEW v \in taken', Works(g, v)', f = g \/ u = v
               PROVE  f = g /\ u = v
    BY Zenon DEF WorkInv
  <1>1. Works(f, u) /\ Works(g, v) /\ u \in taken /\ v \in taken
    BY Zenon
  <1> QED BY <1>1, Zenon DEF PoolInv, WorkInv

(* One ticket is in one place. *)
LEMMA OnePlace ==
    ASSUME PoolInv, NEW e \in Executors, NEW t, Works(e, t)
    PROVE  /\ t \in taken /\ e \notin available /\ worker[e] # "failed"
           /\ ~(Queues(inbox[e], t) /\ Runs(running[e], t))
           /\ ~(Reports(events, e, t) /\ (Queues(inbox[e], t) \/ Runs(running[e], t)))
           /\ \A f \in Executors : \A u : Works(f, u) /\ (e = f \/ t = u) => e = f /\ t = u
  <1>1. t \in taken
    BY WorkIsTaken
  <1>2. \A f \in Executors : \A u : Works(f, u) => u \in taken
    BY WorkIsTaken
  <1> QED BY <1>1, <1>2, Zenon DEF PoolInv, WorkInv

(* The tickets of the epoch are the last transactions of the ledger. *)
LEMMA Places ==
    ASSUME TableInv, ChainInv
    PROVE  /\ Tickets = 1..Len(stream) /\ Tickets = DOMAIN stream /\ Len(stream) \in Nat
           /\ Len(history) - Len(stream) \in Nat /\ DOMAIN history = 1..Len(history)
           /\ Len(history) \in Nat
           /\ \A t \in Tickets : IndexOf(t) = (Len(history) - Len(stream)) + t /\ IndexOf(t) \in DOMAIN history
           /\ \A t \in Tickets : history[IndexOf(t)] = [request |-> stream[t], slot |-> Len(blocks)]
           /\ \A j \in DOMAIN history :
                 j \in 1..(Len(history) - Len(stream)) \/ \E t \in Tickets : j = IndexOf(t)
           /\ \A t, u \in Tickets : /\ IndexOf(t) = IndexOf(u) <=> t = u
                                    /\ IndexOf(t) < IndexOf(u) <=> t < u
           /\ \A t \in Tickets : \A j \in 1..(Len(history) - Len(stream)) : j < IndexOf(t)
  <1>1. Tickets = 1..Len(nodes) /\ stream \in Seq(Request) /\ Len(stream) = Len(nodes)
    BY TicketsAre DEF TableInv, TableTypeOK
  <1>2. Len(stream) \in Nat /\ DOMAIN stream = 1..Len(stream)
    BY <1>1, Elements
  <1>3. Len(history) \in Nat /\ DOMAIN history = 1..Len(history) /\ Len(stream) <= Len(history)
    BY Elements DEF ChainInv
  <1> DEFINE b == Len(history) - Len(stream)
  <1>4. b \in Nat /\ b + Len(stream) = Len(history)
    BY <1>2, <1>3
  <1>5. \A t \in Tickets : IndexOf(t) = b + t /\ IndexOf(t) \in DOMAIN history
    BY <1>1, <1>2, <1>3, <1>4 DEF IndexOf
  <1>6. \A t \in Tickets : history[IndexOf(t)] = [request |-> stream[t], slot |-> Len(blocks)]
    BY <1>1, <1>2 DEF ChainInv
  <1> HIDE DEF b
  <1>7. ASSUME NEW j \in DOMAIN history PROVE j \in 1..b \/ \E t \in Tickets : j = IndexOf(t)
    <2>1. CASE j <= b
      BY <1>3, <1>4, <2>1
    <2>2. CASE j > b
      <3>1. j - b \in Tickets /\ j = b + (j - b)
        BY <1>1, <1>2, <1>3, <1>4, <2>2
      <3> QED BY <1>5, <3>1
    <2> QED BY <1>3, <1>4, <2>1, <2>2
  <1>8. \A t, u \in Tickets : /\ IndexOf(t) = IndexOf(u) <=> t = u
                              /\ IndexOf(t) < IndexOf(u) <=> t < u
    BY <1>1, <1>2, <1>4, <1>5
  <1>9. \A t \in Tickets : \A j \in 1..b : j < IndexOf(t)
    BY <1>1, <1>2, <1>4, <1>5
  <1> QED BY <1>1, <1>2, <1>3, <1>4, <1>5, <1>6, <1>7, <1>8, <1>9 DEF b

(* A transaction that runs is unfinished and uncommitted. *)
LEMMA RunningFacts ==
    ASSUME SequencerInv, NEW e \in Executors, running[e] # NoWork
    PROVE  /\ running[e].ticket \in taken /\ running[e].ticket \in Tickets
           /\ running[e].index = IndexOf(running[e].ticket)
           /\ Works(e, running[e].ticket) /\ Runs(running[e], running[e].ticket)
           /\ running[e].ticket \in Unfinished /\ running[e].ticket \notin blocked
           /\ ~Reported(running[e].ticket)
           /\ running[e].index \in DOMAIN history /\ running[e].index \notin committed
           /\ history[running[e].index] = [request |-> stream[running[e].ticket], slot |-> Len(blocks)]
  <1> DEFINE t == running[e].ticket
  <1>1. t \in taken /\ running[e].index = IndexOf(t)
    BY DEF SequencerInv, PoolInv, ChannelInv
  <1>2. Runs(running[e], t) /\ Works(e, t)
    BY DEF Runs, Works
  <1>3. t \in Unfinished /\ t \notin blocked /\ t \in Tickets /\ ~Done(t)
    BY <1>1 DEF SequencerInv, TableInv, NothingLost, Unfinished
  <1>4. ~Reported(t)
    <2> SUFFICES ASSUME NEW f \in Executors, Reports(events, f, t) PROVE FALSE
      BY DEF Reported
    <2>1. Works(f, t)
      BY DEF Works
    <2>2. f = e
      BY <1>2, <2>1, OnePlace DEF SequencerInv
    <2> QED BY <1>2, <2>2, OnePlace DEF SequencerInv
  <1>5. IndexOf(t) \notin committed
    BY <1>3, <1>4 DEF SequencerInv, CommitInv
  <1>6. IndexOf(t) \in DOMAIN history /\ history[IndexOf(t)] = [request |-> stream[t], slot |-> Len(blocks)]
    BY <1>3, Places DEF SequencerInv
  <1> QED BY <1>1, <1>2, <1>3, <1>4, <1>5, <1>6

(* Before an unfinished transaction that was handed out, every conflicting one *)
(* is committed; after an unfinished one, none is.                             *)
LEMMA CommittedConflicts ==
    ASSUME SequencerInv, NEW t \in Unfinished, NEW u \in Tickets, Conflict(stream[t], stream[u])
    PROVE  /\ t < u => IndexOf(u) \notin committed
           /\ u < t /\ t \notin blocked => IndexOf(u) \in committed
  <1>1. \A v \in Tickets : stream[v] \in Request
    BY Places, Elements DEF SequencerInv, TableInv, TableTypeOK
  <1>2. t \in Tickets /\ Conflict(stream[u], stream[t])
    BY <1>1 DEF Conflict, Unfinished
  <1>3. ASSUME t < u PROVE IndexOf(u) \notin committed
    <2>1. u \in blocked
      BY <1>3 DEF SequencerInv, TableInv, StreamOrder
    <2>2. u \notin taken /\ u \in Unfinished
      BY <2>1 DEF SequencerInv, TableInv, NothingLost
    <2>3. ~Reported(u)
      BY <2>2, WorkIsTaken DEF SequencerInv, Reported, Works
    <2> QED BY <2>2, <2>3 DEF SequencerInv, CommitInv, Unfinished
  <1>4. ASSUME u < t, t \notin blocked PROVE IndexOf(u) \in committed
    <2>1. u \notin Unfinished
      BY <1>2, <1>4 DEF SequencerInv, TableInv, StreamOrder
    <2> QED BY <2>1 DEF SequencerInv, CommitInv, Unfinished
  <1> QED BY <1>3, <1>4

(* While nothing is handed out, nobody works and nothing is reported. *)
LEMMA NobodyWorks ==
    ASSUME SequencerInv, taken = {}
    PROVE  /\ \A e \in Executors : \A t : ~Works(e, t)
           /\ \A e \in Executors : /\ \A i \in DOMAIN inbox[e] : inbox[e][i].kind = "block"
                                   /\ running[e] = NoWork
           /\ \A i \in DOMAIN events : events[i].kind # "completed"
  <1>1. \A e \in Executors : \A t : ~Works(e, t)
    BY WorkIsTaken DEF SequencerInv
  <1>2. \A e \in Executors : /\ \A i \in DOMAIN inbox[e] : inbox[e][i].kind = "block"
                             /\ running[e] = NoWork
    BY <1>1, IdleHands DEF SequencerInv
  <1>3. \A i \in DOMAIN events : events[i].kind # "completed"
    BY DEF SequencerInv, PoolInv, EventsInv
  <1> QED BY <1>1, <1>2, <1>3

(* The greatest number of a set, when there is one. *)
LEMMA MaxIs ==
    ASSUME NEW S, S \subseteq Nat, NEW m \in S, \A y \in S : y <= m
    PROVE  Max(S) = m
  <1>1. \E x \in S : \A y \in S : x >= y
    OBVIOUS
  <1>2. Max(S) \in S /\ \A y \in S : Max(S) >= y
    BY <1>1 DEF Max
  <1>3. Max(S) \in Nat /\ Max(S) >= m /\ Max(S) <= m
    BY <1>2
  <1> QED BY <1>3

(* Paused, the epoch is empty: nobody works and every index is committed. *)
LEMMA PausedQuiescent == SequencerInv => QuiescentWhilePaused
  <1> SUFFICES ASSUME SequencerInv, pc = "paused"
               PROVE  /\ \A e \in Executors : /\ running[e] = NoWork
                                              /\ \A i \in DOMAIN inbox[e] : inbox[e][i].kind = "block"
                      /\ committed = DOMAIN history
                      /\ op = "barrier" => simulator = "parked"
    BY DEF QuiescentWhilePaused
  <1>1. stream = <<>> /\ (op = "barrier" => Held)
    BY DEF SequencerInv, ControlInv
  <1>2. taken = {}
    BY <1>1, EmptyEpoch DEF SequencerInv
  <1>3. Len(history) \in Nat /\ Len(history) - Len(stream) = Len(history)
        /\ DOMAIN history = 1..Len(history)
    BY <1>1, Places DEF SequencerInv
  <1>4. committed = DOMAIN history
    BY <1>3 DEF SequencerInv, CommitInv
  <1> QED BY <1>1, <1>2, <1>4, NobodyWorks DEF Held

(* Who runs a transaction was told of every block, and has applied them all. *)
LEMMA ExactBlocks == SequencerInv => BlocksAreExact
  <1> SUFFICES ASSUME SequencerInv PROVE BlocksAreExact
    OBVIOUS
  <1>1. ASSUME NEW e \in Executors, running[e] # NoWork
        PROVE  env[e] = history[running[e].index].slot
    <2>1. /\ history[running[e].index] = [request |-> stream[running[e].ticket], slot |-> Len(blocks)]
          /\ running[e].ticket \in taken
      BY <1>1, RunningFacts
    <2>2. inbox[e] = <<>> /\ worker[e] = "alive"
      BY <1>1 DEF SequencerInv, PoolInv, ChannelInv
    <2>3. env[e] \in Nat
      BY DEF SequencerInv, PoolInv, PoolTypes
    <2>4. pc # "transition"
      BY <2>1, EmptyEpoch DEF SequencerInv, ControlInv
    <2>5. Told(e) = Len(blocks)
      BY <2>4 DEF Told
    <2>6. BlocksQueued(inbox[e]) = 0
      BY <2>2 DEF BlocksQueued
    <2>7. env[e] + 0 = Len(blocks)
      BY <2>2, <2>5, <2>6 DEF SequencerInv, EnvInv
    <2> QED BY <2>1, <2>3, <2>7
  <1>2. \A k \in DOMAIN blocks :
           blocks[k] = [slot |-> k - 1, parent |-> k - 1,
                        txns |-> {i \in DOMAIN history : history[i].slot = k - 1}]
    BY DEF SequencerInv, ChainInv, InSlot
  <1> QED BY <1>1, <1>2 DEF BlocksAreExact

(* The last write of an account that a running transaction accesses is the *)
(* last one before it in the ledger.                                         *)
LEMMA SerialExecution == SequencerInv => ExecutionIsSerial
  <1> SUFFICES ASSUME SequencerInv, NEW e \in Executors, running[e] # NoWork,
                      NEW x \in Accesses(running[e].index)
               PROVE  store[x] = LastWriterBefore(running[e].index, x)
    BY DEF ExecutionIsSerial
  <1> DEFINE t == running[e].ticket
             i == running[e].index
             W == {0} \cup {j \in 1..(i - 1) : x \in history[j].request.writes}
  <1>1. /\ t \in Tickets /\ t \in Unfinished /\ t \notin blocked /\ i = IndexOf(t)
        /\ i \in DOMAIN history /\ i \notin committed
        /\ history[i] = [request |-> stream[t], slot |-> Len(blocks)]
    BY RunningFacts
  <1>2. \A u \in Tickets : stream[u] \in Request
    BY Places, Elements DEF SequencerInv, TableInv, TableTypeOK
  <1>3. x \in stream[t].writes \cup stream[t].reads /\ x \in Account
    <2>1. x \in history[i].request.writes \cup history[i].request.reads
      BY DEF Accesses
    <2> QED BY <1>1, <1>2, <2>1, RequestAssumption
  <1>4. i \in Nat \ {0} /\ DOMAIN history = 1..Len(history) /\ Len(history) \in Nat
        /\ committed \subseteq DOMAIN history
    <2>1. DOMAIN history = 1..Len(history) /\ Len(history) \in Nat
      BY Places DEF SequencerInv
    <2>2. committed \subseteq DOMAIN history
      BY DEF SequencerInv, CommitInv
    <2>3. i \in 1..Len(history)
      BY <1>1, <2>1
    <2> QED BY <2>1, <2>2, <2>3
  <1> HIDE DEF t, i
  <1>5. ASSUME NEW u \in Tickets, x \in history[IndexOf(u)].request.writes
        PROVE  Conflict(stream[t], stream[u])
    <2>1. history[IndexOf(u)] = [request |-> stream[u], slot |-> Len(blocks)]
      BY Places DEF SequencerInv
    <2>2. x \in stream[u].writes
      BY <1>5, <2>1
    <2> QED BY <1>3, <2>2 DEF Conflict
  <1>6. ASSUME NEW j \in 1..(i - 1), x \in history[j].request.writes PROVE j \in committed
    <2>1. CASE j \in 1..(Len(history) - Len(stream))
      BY <2>1 DEF SequencerInv, CommitInv
    <2>2. CASE \E u \in Tickets : j = IndexOf(u)
      <3>1. PICK u \in Tickets : j = IndexOf(u)
        BY <2>2
      <3>2. Conflict(stream[t], stream[u])
        BY <1>5, <1>6, <3>1
      <3>3. IndexOf(u) < IndexOf(t)
        BY <1>1, <1>4, <3>1
      <3>4. u < t
        BY <1>1, <3>3, Places DEF SequencerInv
      <3> QED BY <1>1, <3>1, <3>2, <3>4, CommittedConflicts
    <2>3. j \in DOMAIN history
      BY <1>1, <1>4
    <2> QED BY <2>1, <2>2, <2>3, Places DEF SequencerInv
  <1>7. ASSUME NEW j \in committed, x \in history[j].request.writes PROVE j \in 1..(i - 1)
    <2>1. j \in DOMAIN history /\ j # i
      BY <1>1, <1>4
    <2>2. CASE j \in 1..(Len(history) - Len(stream))
      <3>1. j < IndexOf(t)
        BY <1>1, <2>2, Places DEF SequencerInv
      <3> QED BY <1>1, <1>4, <2>1, <3>1
    <2>3. CASE \E u \in Tickets : j = IndexOf(u)
      <3>1. PICK u \in Tickets : j = IndexOf(u)
        BY <2>3
      <3>2. Conflict(stream[t], stream[u])
        BY <1>5, <1>7, <3>1
      <3>3. ~(t < u)
        BY <1>1, <3>1, <3>2, CommittedConflicts
      <3>4. ~(IndexOf(t) < IndexOf(u))
        BY <1>1, <3>3, Places DEF SequencerInv
      <3> QED BY <1>1, <1>4, <2>1, <3>1, <3>4
    <2> QED BY <2>1, <2>2, <2>3, Places DEF SequencerInv
  <1>8. /\ store[x] \in Nat /\ (store[x] # 0 => store[x] \in committed /\ x \in history[store[x]].request.writes)
        /\ \A j \in committed : x \in history[j].request.writes => j <= store[x]
    BY <1>3 DEF SequencerInv, StoreInv
  <1>9. store[x] \in W /\ W \subseteq Nat
    BY <1>4, <1>7, <1>8
  <1>10. \A j \in W : j <= store[x]
    BY <1>6, <1>8
  <1> HIDE DEF W
  <1>11. Max(W) = store[x]
    BY <1>9, <1>10, MaxIs
  <1> QED BY <1>11 DEF LastWriterBefore, W, i
=============================================================================
