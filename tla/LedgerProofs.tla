---------------------------- MODULE LedgerProofs ----------------------------
(***************************************************************************)
(* The steps of the sequencer that change the ledger, the table or the     *)
(* chain keep its invariant.  What a step does to the table itself is a    *)
(* hypothesis here; SequencerProofs takes it from the table's proofs.      *)
(***************************************************************************)
EXTENDS SequencerLemmas

(* A completion is handled: the executor is available, its ticket is finished. *)
LEMMA HandleCompletedPoolInv ==
    ASSUME SequencerInv, HandleCompleted
    PROVE  /\ PoolInv' /\ Head(events).ticket \in taken
           /\ \A f \in Executors : \A u : Reports(events, f, u) <=>
                 Reports(events', f, u) \/ (f = Head(events).id /\ u = Head(events).ticket)
           /\ Head(events).id \in Executors
  <1> DEFINE m == Head(events)
             t == m.ticket
             e == m.id
  <1>1. /\ events # <<>> /\ m.kind = "completed" /\ events' = Tail(events)
        /\ available' = available \cup {e} /\ Complete(t)
        /\ UNCHANGED <<inbox, running, env, worker, chainVars>>
    BY DEF HandleCompleted, EventReceived
  <1>2. taken' = taken \ {t} /\ UNCHANGED <<stream, history>>
    BY <1>1 DEF Complete, chainVars
  <1>3. PoolTypes /\ events \in Seq(Outcome)
    BY DEF SequencerInv, PoolInv, PoolTypes
  <1>4. /\ events' \in Seq(Outcome) /\ Len(events) \in Nat \ {0} /\ DOMAIN events = 1..Len(events)
        /\ DOMAIN events' = 1..(Len(events) - 1) /\ m = events[1] /\ m \in Outcome
        /\ \A i \in 1..(Len(events) - 1) : events'[i] = events[i + 1]
    BY <1>1, <1>3, Shorter
  <1>5. e \in Executors /\ 1 \in DOMAIN events
    BY <1>4 DEF Outcome
  <1>6. ASSUME NEW f \in Executors, NEW u
        PROVE  Reports(events, f, u) <=> Reports(events', f, u) \/ (f = e /\ u = t)
    <2>1. Reports(events, f, u) <=>
             \/ Reports(Tail(events), f, u)
             \/ m.kind = "completed" /\ m.id = f /\ m.ticket = u
      BY <1>1, <1>3, ReportsTail
    <2> QED BY <1>1, <2>1
  <1> HIDE DEF m, t, e
  <1>7. Reports(events, e, t) /\ Works(e, t)
    BY <1>5, <1>6 DEF Works
  <1>8. t \in taken /\ worker[e] # "failed"
    BY <1>5, <1>7, OnePlace DEF SequencerInv
  <1>9. \A u : IndexOf(u)' = IndexOf(u)
    BY <1>2 DEF IndexOf
  <1>10. PoolTypes'
    BY <1>1, <1>3, <1>4, <1>5 DEF PoolTypes
  <1>11. ASSUME NEW f \in Executors, Queues(inbox[f], t) \/ Runs(running[f], t) PROVE FALSE
    <2>1. Works(f, t)
      BY <1>11 DEF Works
    <2>2. f = e
      BY <1>5, <1>7, <2>1, OnePlace DEF SequencerInv
    <2> QED BY <1>5, <1>7, <1>11, <2>2, OnePlace DEF SequencerInv
  <1>12. ASSUME NEW f \in Executors PROVE ChannelInv(f)'
    <2>1. ChannelInv(f)
      BY DEF SequencerInv, PoolInv
    <2>2. \A i \in DOMAIN inbox[f] : inbox[f][i].kind = "txn" => inbox[f][i].ticket # t
      BY <1>11 DEF Queues
    <2>3. running[f] # NoWork => running[f].ticket # t
      BY <1>11 DEF Runs
    <2> QED BY <1>1, <1>2, <1>9, <2>1, <2>2, <2>3 DEF ChannelInv
  <1>13. EventsInv'
    <2>1. EventsInv
      BY DEF SequencerInv, PoolInv
    <2>2. ASSUME NEW i \in DOMAIN events'
          PROVE  i + 1 \in DOMAIN events /\ events'[i] = events[i + 1] /\ i + 1 # 1 /\ i \in Int
      BY <1>4
    <2>3. ASSUME NEW i \in DOMAIN events', events'[i].kind = "completed"
          PROVE  events'[i].ticket \in taken'
      <3>1. events'[i].ticket \in taken
        BY <2>1, <2>2, <2>3 DEF EventsInv
      <3>2. events'[i].ticket # t
        BY <1>1, <1>4, <1>5, <2>1, <2>2, <2>3 DEF EventsInv, t
      <3> QED BY <1>2, <3>1, <3>2
    <2>4. ASSUME NEW i \in DOMAIN events', NEW j \in DOMAIN events',
                 events'[i].kind = "completed", events'[j].kind = "completed",
                 events'[i].ticket = events'[j].ticket
          PROVE  i = j
      <3>1. i + 1 = j + 1
        BY <2>1, <2>2, <2>4 DEF EventsInv
      <3> QED BY <2>2, <3>1
    <2> QED BY <2>3, <2>4 DEF EventsInv
  <1>14. ASSUME NEW f \in Executors, NEW u \in taken', Works(f, u)'
         PROVE  /\ Works(f, u) /\ f \notin available' /\ worker'[f] # "failed"
                /\ ~(Queues(inbox'[f], u) /\ Runs(running'[f], u))
                /\ ~(Reports(events', f, u) /\ (Queues(inbox'[f], u) \/ Runs(running'[f], u)))
    <2>1. Works(f, u)
      BY <1>1, <1>6, <1>14 DEF Works
    <2>2. f # e
      <3> SUFFICES ASSUME f = e PROVE FALSE
        OBVIOUS
      <3>1. u = t
        BY <1>7, <2>1, OnePlace DEF SequencerInv
      <3> QED BY <1>2, <3>1
    <2>3. /\ f \notin available /\ worker[f] # "failed"
          /\ ~(Queues(inbox[f], u) /\ Runs(running[f], u))
          /\ ~(Reports(events, f, u) /\ (Queues(inbox[f], u) \/ Runs(running[f], u)))
      BY <2>1, OnePlace DEF SequencerInv
    <2> QED BY <1>1, <1>6, <2>1, <2>2, <2>3
  <1>15. WorkInv'
    <2>1. \A f \in available' : worker'[f] # "failed"
      BY <1>1, <1>8 DEF SequencerInv, PoolInv, WorkInv
    <2> QED BY <1>2, <1>14, <2>1, WorkShrinks DEF SequencerInv
  <1>16. PoolInv'
    BY <1>10, <1>12, <1>13, <1>15 DEF PoolInv
  <1> QED BY <1>5, <1>6, <1>8, <1>16 DEF e, t, m

LEMMA HandleCompletedInv ==
    ASSUME SequencerInv, HandleCompleted, Tickets' = Tickets, Head(events).ticket \in Unfinished,
           Unfinished' = Unfinished \ {Head(events).ticket}
    PROVE  ThreadsInv'
  <1> DEFINE t == Head(events).ticket
  <1>1. /\ pc \in {"process", "drain"} /\ pc' = "dispatch" /\ Complete(t)
        /\ UNCHANGED <<op, inbox, env, worker, chainVars, stateVars, simVars>>
    BY DEF HandleCompleted, EventReceived
  <1>2. UNCHANGED <<stream, unsent, hasher, block, blocks, history, committed, store,
                    simulation, simulator>>
    BY <1>1 DEF Complete, chainVars, stateVars, simVars
  <1>3. t \in taken
    BY HandleCompletedPoolInv
  <1>4. \A u : Reported(u) <=> Reported(u)' \/ u = t
    BY HandleCompletedPoolInv DEF Reported
  <1> HIDE DEF t
  <1>6. ControlInv'
    BY <1>1, <1>2 DEF SequencerInv, ControlInv, Boundaries
  <1>7. EnvInv'
    <2>1. \A f \in Executors : Told(f)' = Told(f)
      BY <1>1, <1>2 DEF Told
    <2> QED BY <1>1, <2>1, EnvFrame DEF SequencerInv
  <1>8. ChainInv'
    <2>1. op \in {"block", "checkpoint"} /\ pc \in {"dispatch", "drain", "transition"} =>
             block = [slot |-> Len(blocks), parent |-> Len(blocks), txns |-> hasher.current]
      BY DEF SequencerInv, ChainInv
    <2>2. op \in {"block", "checkpoint"} => pc = "drain"
      BY <1>1 DEF SequencerInv, ControlInv
    <2> QED BY <1>1, <1>2, <2>1, <2>2, ChainFrame DEF SequencerInv
  <1>9. CommitInv'
    <2>1. /\ Tickets' = Tickets /\ Unfinished' = Unfinished \ {t} /\ t \in Unfinished
      BY DEF t
    <2>2. \A u \in Tickets : Done(u)' <=> Done(u) \/ u = t
      BY <2>1 DEF Unfinished
    <2>3. \A u : IndexOf(u)' = IndexOf(u)
      BY <1>2 DEF IndexOf
    <2>4. \A u \in Tickets : IndexOf(u) \in committed <=> Done(u) \/ Reported(u)
      BY DEF SequencerInv, CommitInv
    <2>5. \A u \in Tickets' : (IndexOf(u) \in committed <=> Done(u) \/ Reported(u))'
      BY <1>2, <1>4, <2>1, <2>2, <2>3, <2>4
    <2> QED BY <1>2, <2>5 DEF SequencerInv, CommitInv
  <1>10. StoreInv'
    BY <1>2, StoreFrame DEF SequencerInv
  <1> QED BY <1>6, <1>7, <1>8, <1>9, <1>10, HandleCompletedPoolInv DEF ThreadsInv

(* A failure is handled: it says nothing about a ticket. *)
LEMMA HandleFailedInv == SequencerInv /\ HandleFailed => ThreadsInv'
  <1> SUFFICES ASSUME SequencerInv, HandleFailed PROVE ThreadsInv'
    OBVIOUS
  <1> DEFINE m == Head(events)
  <1>1. /\ events # <<>> /\ m.kind = "failed" /\ events' = Tail(events)
        /\ pc \in {"process", "drain"} /\ pc' = "join"
        /\ UNCHANGED <<tableVars, op, available, inbox, running, env, worker, chainVars, stateVars,
                       simVars>>
    BY DEF HandleFailed, EventReceived
  <1>2. UNCHANGED <<taken, nodes, stream, unsent, hasher, block, blocks, history, committed, store,
                    simulation, simulator>>
    BY <1>1 DEF tableVars, chainVars, stateVars, simVars
  <1>3. PoolTypes /\ events \in Seq(Outcome)
    BY DEF SequencerInv, PoolInv, PoolTypes
  <1>4. /\ events' \in Seq(Outcome) /\ Len(events) \in Nat \ {0} /\ DOMAIN events = 1..Len(events)
        /\ DOMAIN events' = 1..(Len(events) - 1)
        /\ \A i \in 1..(Len(events) - 1) : events'[i] = events[i + 1]
    BY <1>1, <1>3, Shorter
  <1>5. ASSUME NEW f, NEW u PROVE Reports(events', f, u) <=> Reports(events, f, u)
    <2>1. Reports(events, f, u) <=>
             \/ Reports(Tail(events), f, u)
             \/ m.kind = "completed" /\ m.id = f /\ m.ticket = u
      BY <1>1, <1>3, ReportsTail
    <2> QED BY <1>1, <2>1
  <1> HIDE DEF m
  <1>6. \A u : IndexOf(u)' = IndexOf(u)
    BY <1>2 DEF IndexOf
  <1>7. PoolInv'
    <2>1. PoolTypes'
      BY <1>1, <1>3, <1>4 DEF PoolTypes
    <2>2. \A f \in Executors : ChannelInv(f)'
      BY <1>1, <1>2, <1>6 DEF SequencerInv, PoolInv, ChannelInv
    <2>3. EventsInv'
      <3>1. EventsInv
        BY DEF SequencerInv, PoolInv
      <3>2. ASSUME NEW i \in DOMAIN events'
            PROVE  i + 1 \in DOMAIN events /\ events'[i] = events[i + 1] /\ i \in Int
        BY <1>4
      <3>3. ASSUME NEW i \in DOMAIN events', NEW j \in DOMAIN events',
                   events'[i].kind = "completed", events'[j].kind = "completed",
                   events'[i].ticket = events'[j].ticket
            PROVE  i = j
        <4>1. i + 1 = j + 1
          BY <3>1, <3>2, <3>3 DEF EventsInv
        <4> QED BY <3>2, <4>1
      <3> QED BY <1>2, <3>1, <3>2, <3>3 DEF EventsInv
    <2>4. \A f \in Executors : \A u : Works(f, u)' <=> Works(f, u)
      BY <1>1, <1>5 DEF Works
    <2>5. WorkInv'
      BY <1>1, <1>2, <1>5, <2>4 DEF SequencerInv, PoolInv, WorkInv
    <2> QED BY <2>1, <2>2, <2>3, <2>5 DEF PoolInv
  <1>8. ControlInv'
    BY <1>1, <1>2 DEF SequencerInv, ControlInv
  <1>9. EnvInv'
    <2>1. \A f \in Executors : Told(f)' = Told(f)
      BY <1>1, <1>2 DEF Told
    <2> QED BY <1>1, <2>1, EnvFrame DEF SequencerInv
  <1>10. ChainInv'
    BY <1>1, <1>2, ChainFrame DEF SequencerInv
  <1>11. CommitInv'
    <2>1. /\ Tickets' = Tickets
          /\ \A u : IndexOf(u)' = IndexOf(u) /\ Done(u)' = Done(u) /\ Reported(u)' = Reported(u)
      BY <1>2, <1>5 DEF IndexOf, Tickets, Done, Reported
    <2> QED BY <1>2, <2>1 DEF SequencerInv, CommitInv
  <1>12. StoreInv'
    BY <1>1, <1>2, StoreFrame DEF SequencerInv
  <1> QED BY <1>7, <1>8, <1>9, <1>10, <1>11, <1>12 DEF ThreadsInv

-----------------------------------------------------------------------------
(* The ledger grows.                                                        *)

(* A transaction is ledgered, hashed and registered, in the same place of all. *)
LEMMA ScheduleInv ==
    ASSUME SequencerInv, NEW req \in Request, Schedule(req),
           Tickets' = Tickets \cup {Len(nodes) + 1}, Unfinished' = Unfinished \cup {Len(nodes) + 1}
    PROVE  ThreadsInv'
  <1> DEFINE h == [request |-> req, slot |-> Len(blocks)]
  <1>0. PICK n, k : n = Len(nodes) + 1 /\ k = Len(history) + 1
    OBVIOUS
  <1>1. /\ pc = "process" /\ pc' = "dispatch" /\ Register(req)
        /\ history' = Append(history, h)
        /\ hasher' = [hasher EXCEPT !.current = @ \cup {k}]
        /\ UNCHANGED <<op, poolVars, unsent, block, blocks, stateVars, simVars>>
    BY <1>0 DEF Schedule, SlotNow
  <1>2. /\ stream' = Append(stream, req) /\ taken' = taken
        /\ UNCHANGED <<inbox, running, env, worker, events, committed, store, simulation, simulator>>
    BY <1>1 DEF Register, poolVars, stateVars, simVars
  <1>3. /\ history \in Seq([request : Request, slot : Nat]) /\ Len(blocks) \in Nat
        /\ stream \in Seq(Request) /\ Len(stream) = Len(nodes) /\ Len(stream) <= Len(history)
        /\ Tickets = 1..Len(nodes)
    BY Elements, TicketsAre DEF SequencerInv, ChainInv, TableInv, TableTypeOK
  <1>4. h \in [request : Request, slot : Nat] /\ h.slot = Len(blocks)
    BY <1>3
  <1> HIDE DEF h
  <1>5. /\ history' \in Seq([request : Request, slot : Nat]) /\ Len(history) \in Nat
        /\ Len(history') = k /\ DOMAIN history = 1..Len(history) /\ DOMAIN history' = 1..k
        /\ history'[k] = h /\ \A i \in 1..Len(history) : history'[i] = history[i]
    BY <1>0, <1>1, <1>3, <1>4, Longer
  <1>6. /\ Len(stream) \in Nat /\ Len(stream') = Len(stream) + 1
        /\ DOMAIN stream = 1..Len(stream) /\ DOMAIN stream' = 1..(Len(stream) + 1)
        /\ stream'[n] = req /\ \A i \in 1..Len(stream) : stream'[i] = stream[i]
    BY <1>0, <1>2, <1>3, Longer
  <1>7. Len(history') - Len(stream') = Len(history) - Len(stream)
    BY <1>0, <1>5, <1>6
  <1>8. \A t : IndexOf(t)' = IndexOf(t)
    BY <1>7 DEF IndexOf
  <1>9. IndexOf(n) = k /\ k \notin DOMAIN history /\ k \in Nat
    BY <1>0, <1>3, <1>5, <1>6 DEF IndexOf
  <1>11. PoolInv'
    BY <1>1, <1>2, <1>7, PoolFrame DEF SequencerInv
  <1>12. ControlInv'
    BY <1>1, <1>2 DEF SequencerInv, ControlInv
  <1>13. EnvInv'
    <2>1. \A f \in Executors : Told(f)' = Told(f)
      BY <1>1 DEF Told
    <2> QED BY <1>2, <2>1, EnvFrame DEF SequencerInv
  <1>14. op = "none"
    BY <1>1 DEF SequencerInv, ControlInv
  <1>15. ChainInv'
    <2>1. ASSUME NEW s PROVE InSlot(s)' = IF s = Len(blocks) THEN InSlot(s) \cup {k} ELSE InSlot(s)
      <3>1. \A i : i \in DOMAIN history' <=> i \in DOMAIN history \/ i = k
        BY <1>0, <1>5
      <3>2. \A i \in DOMAIN history : history'[i] = history[i]
        BY <1>5
      <3>3. \A i : i \in InSlot(s)' <=> i \in InSlot(s) \/ (i = k /\ s = Len(blocks))
        BY <1>4, <1>5, <1>9, <3>1, <3>2 DEF InSlot
      <3> QED BY <3>3
    <2>2. (hasher = [parent |-> Len(blocks), current |-> InSlot(Len(blocks))])'
      <3>1. hasher = [parent |-> Len(blocks), current |-> InSlot(Len(blocks))]
        BY DEF SequencerInv, ChainInv
      <3>2. hasher' = [parent |-> Len(blocks), current |-> InSlot(Len(blocks)) \cup {k}]
        BY <1>1, <3>1
      <3>3. InSlot(Len(blocks))' = InSlot(Len(blocks)) \cup {k}
        BY <1>1, <2>1 DEF InSlot
      <3> QED BY <1>1, <3>2, <3>3
    <2>3. ASSUME NEW t \in DOMAIN stream'
          PROVE  history'[IndexOf(t)] = [request |-> stream'[t], slot |-> Len(blocks)]
      <3>1. CASE t = n
        BY <1>5, <1>6, <1>9, <3>1 DEF h
      <3>2. CASE t # n
        <4>1. t \in DOMAIN stream /\ t \in Tickets
          BY <1>0, <1>3, <1>6, <3>2
        <4>2. /\ IndexOf(t) \in DOMAIN history
              /\ history[IndexOf(t)] = [request |-> stream[t], slot |-> Len(blocks)]
          BY <4>1, Places DEF SequencerInv
        <4> QED BY <1>5, <1>6, <4>1, <4>2
      <3> QED BY <3>1, <3>2
    <2>4. \A i \in DOMAIN history' : history'[i].slot <= Len(blocks')
      <3>1. \A i \in DOMAIN history : history[i].slot <= Len(blocks)
        BY DEF SequencerInv, ChainInv
      <3>2. \A i \in DOMAIN history' : i = k \/ (i \in DOMAIN history /\ history'[i] = history[i])
        BY <1>0, <1>5
      <3> QED BY <1>1, <1>3, <1>4, <1>5, <3>1, <3>2
    <2>5. ASSUME NEW j \in DOMAIN blocks
          PROVE  blocks[j] = [slot |-> j - 1, parent |-> j - 1, txns |-> InSlot(j - 1)']
      <3>1. blocks[j] = [slot |-> j - 1, parent |-> j - 1, txns |-> InSlot(j - 1)]
        BY DEF SequencerInv, ChainInv
      <3>2. blocks \in Seq([slot : Nat, parent : Nat, txns : SUBSET Nat])
        BY DEF SequencerInv, ChainInv
      <3>3. j \in 1..Len(blocks)
        BY <3>1, <3>2, Elements
      <3>4. j - 1 # Len(blocks)
        BY <1>3, <3>3
      <3> QED BY <2>1, <3>1, <3>4
    <2>6. Len(stream') <= Len(history')
      BY <1>0, <1>3, <1>5, <1>6
    <2>7. blocks \in Seq([slot : Nat, parent : Nat, txns : SUBSET Nat])
      BY DEF SequencerInv, ChainInv
    <2> QED BY <1>1, <1>5, <1>8, <1>14, <2>2, <2>3, <2>4, <2>5, <2>6, <2>7 DEF ChainInv
  <1>16. CommitInv'
    <2>1. /\ n \notin Tickets /\ Tickets' = Tickets \cup {n} /\ Unfinished' = Unfinished \cup {n}
      BY <1>0, <1>3
    <2>2. \A u \in Tickets : Done(u)' <=> Done(u)
      BY <2>1 DEF Unfinished
    <2>3. ~Done(n)'
      BY <2>1 DEF Unfinished
    <2>4. \A u : Reported(u)' <=> Reported(u)
      BY <1>2 DEF Reported
    <2>5. ~Reported(n)
      <3>1. n \notin taken
        BY <2>1 DEF SequencerInv, TableInv, TableTypeOK
      <3> QED BY <3>1, WorkIsTaken DEF SequencerInv, Reported, Works
    <2>6. committed \subseteq DOMAIN history /\ committed' = committed
      BY <1>2 DEF SequencerInv, CommitInv
    <2>7. ASSUME NEW u \in Tickets' PROVE IndexOf(u) \in committed <=> Done(u)' \/ Reported(u)
      <3>1. CASE u = n
        BY <1>9, <2>3, <2>5, <2>6, <3>1
      <3>2. CASE u \in Tickets
        BY <2>2, <3>2 DEF SequencerInv, CommitInv
      <3> QED BY <2>1, <3>1, <3>2
    <2>8. committed' \subseteq DOMAIN history'
      BY <1>0, <1>5, <2>6
    <2>9. 1..(Len(history') - Len(stream')) \subseteq committed'
      BY <1>7, <2>6 DEF SequencerInv, CommitInv
    <2> QED BY <1>8, <2>4, <2>6, <2>7, <2>8, <2>9 DEF CommitInv
  <1>17. StoreInv'
    <2>1. \A j \in committed : history'[j] = history[j]
      BY <1>5 DEF SequencerInv, CommitInv
    <2> QED BY <1>2, <2>1 DEF SequencerInv, StoreInv
  <1> QED BY <1>11, <1>12, <1>13, <1>15, <1>16, <1>17 DEF ThreadsInv

(* The drain ends: everything ledgered is committed, and the table starts over. *)
LEMMA DrainedInv ==
    ASSUME SequencerInv, Drained, taken = {}, \A t \in Tickets : Done(t)
    PROVE  ThreadsInv'
  <1>1. /\ pc = "drain" /\ outstanding = 0 /\ Reset
        /\ UNCHANGED <<op, poolVars, hasher, block, blocks, history, stateVars, simulator>>
    BY DEF Drained
  <1>2. /\ stream' = <<>> /\ taken' = {} /\ nodes' = <<>>
        /\ UNCHANGED <<available, inbox, running, env, worker, events, committed, store>>
    BY <1>1 DEF Reset, poolVars, stateVars
  <1>3. op \in Boundaries
    BY <1>1 DEF SequencerInv, ControlInv
  <1>4. /\ pc' \in {"transition", "await_simulator", "paused", "join"}
        /\ pc' = "transition" <=> op \in {"block", "checkpoint"}
        /\ pc' = "await_simulator" => op = "barrier"
        /\ pc' = "paused" => op = "shutdown"
    BY <1>3 DEF Drained, Boundaries
  <1>5. unsent' = IF op \in {"block", "checkpoint"} THEN Executors ELSE unsent
    BY DEF Drained
  <1>6. simulation' \in Seq({"txn", "barrier"})
    <2>1. simulation \in Seq({"txn", "barrier"})
      BY DEF SequencerInv, ControlInv
    <2>2. Append(simulation, "barrier") \in Seq({"txn", "barrier"})
      BY <2>1, Longer
    <2> QED BY <2>1, <2>2 DEF Drained
  <1>7. taken = {} /\ \A t \in Tickets : Done(t)
    OBVIOUS
  <1>9. ControlInv'
    BY <1>1, <1>2, <1>3, <1>4, <1>5, <1>6 DEF SequencerInv, ControlInv
  <1>10. PoolInv'
    <2>1. PoolTypes'
      BY <1>2 DEF SequencerInv, PoolInv, PoolTypes
    <2>2. ASSUME NEW f \in Executors PROVE ChannelInv(f)'
      <3>1. (\A i \in DOMAIN inbox'[f] : inbox'[f][i].kind = "block") /\ running'[f] = NoWork
        BY <1>2, <1>7, NobodyWorks
      <3> QED BY <3>1 DEF ChannelInv
    <2>3. EventsInv'
      BY <1>2, <1>7, NobodyWorks DEF EventsInv
    <2>4. WorkInv'
      BY <1>2 DEF SequencerInv, PoolInv, WorkInv
    <2> QED BY <2>1, <2>2, <2>3, <2>4 DEF PoolInv
  <1>11. EnvInv'
    <2>1. \A f \in Executors : Told(f)' = Told(f)
      BY <1>1, <1>4, <1>5 DEF Told
    <2> QED BY <1>2, <2>1, EnvFrame DEF SequencerInv
  <1>12. ChainInv'
    <2>1. op \in {"block", "checkpoint"} =>
             block = [slot |-> Len(blocks), parent |-> Len(blocks), txns |-> hasher.current]
      BY <1>1 DEF SequencerInv, ChainInv
    <2>2. DOMAIN stream' = {} /\ Len(stream') = 0
      BY <1>2
    <2>3. Len(stream') <= Len(history')
      BY <1>1, <2>2, Places DEF SequencerInv
    <2>4. \A k : InSlot(k)' = InSlot(k)
      BY <1>1 DEF InSlot
    <2> QED BY <1>1, <2>1, <2>2, <2>3, <2>4 DEF SequencerInv, ChainInv
  <1>13. CommitInv'
    <2>1. Tickets' = {} /\ Len(stream') = 0
      BY <1>2 DEF Tickets
    <2>2. ASSUME NEW j \in DOMAIN history PROVE j \in committed
      <3>1. CASE j \in 1..(Len(history) - Len(stream))
        BY <3>1 DEF SequencerInv, CommitInv
      <3>2. CASE \E t \in Tickets : j = IndexOf(t)
        BY <1>7, <3>2 DEF SequencerInv, CommitInv
      <3> QED BY <3>1, <3>2, Places DEF SequencerInv
    <2>3. DOMAIN history = 1..Len(history) /\ Len(history) \in Nat
      BY Places DEF SequencerInv
    <2>4. 1..(Len(history') - Len(stream')) \subseteq committed'
      BY <1>1, <1>2, <2>1, <2>2, <2>3
    <2>5. committed' \subseteq DOMAIN history'
      BY <1>1, <1>2 DEF SequencerInv, CommitInv
    <2> QED BY <2>1, <2>4, <2>5 DEF CommitInv
  <1>14. StoreInv'
    BY <1>1, <1>2, StoreFrame DEF SequencerInv
  <1> QED BY <1>9, <1>10, <1>11, <1>12, <1>13, <1>14 DEF ThreadsInv

(* A block boundary is sent to the next executor, behind everything it was sent. *)
LEMMA SendTransitionInv == ASSUME SequencerInv, SendTransition, Min(unsent) \in unsent PROVE ThreadsInv'
  <1>1. PICK e : e = Min(unsent)
    OBVIOUS
  <1> DEFINE m == [kind |-> "block", ticket |-> NoTicket, index |-> block.slot + 1]
  <1>2. /\ pc = "transition" /\ unsent # {} /\ pc' = pc /\ op' = op
        /\ inbox' = [inbox EXCEPT ![e] = Append(inbox[e], m)] /\ unsent' = unsent \ {e}
        /\ UNCHANGED <<tableVars, available, running, env, worker, events, hasher, block, blocks,
                       history, stateVars, simVars>>
    BY <1>1 DEF SendTransition
  <1>3. UNCHANGED <<taken, nodes, stream, committed, store, simulation, simulator>>
    BY <1>2 DEF tableVars, stateVars, simVars
  <1>4. unsent \subseteq Executors /\ unsent \subseteq Nat /\ stream = <<>>
    BY <1>2, SequencerAssumption DEF SequencerInv, ControlInv
  <1>5. e \in unsent /\ e \in Executors
    BY <1>1, <1>4
  <1>6. taken = {} /\ taken' = {}
    BY <1>3, <1>4, EmptyEpoch DEF SequencerInv
  <1>7. PoolTypes /\ inbox[e] \in Seq(Message)
    BY <1>5 DEF SequencerInv, PoolInv, PoolTypes
  <1>8. /\ block.slot = Len(blocks) /\ Len(blocks) \in Nat
    <2>1. block = [slot |-> Len(blocks), parent |-> Len(blocks), txns |-> hasher.current]
      BY <1>2 DEF SequencerInv, ControlInv, ChainInv
    <2>2. Len(blocks) \in Nat
      BY Elements DEF SequencerInv, ChainInv
    <2> QED BY <2>1, <2>2
  <1>9. m \in Message /\ m.kind = "block" /\ m.index = Len(blocks) + 1
    BY <1>8 DEF Message, NoTicket
  <1> HIDE DEF m
  <1>10. /\ inbox'[e] = Append(inbox[e], m) /\ \A f \in Executors \ {e} : inbox'[f] = inbox[f]
    BY <1>2, <1>5, <1>7 DEF PoolTypes
  <1>11. /\ inbox'[e] \in Seq(Message) /\ Len(inbox[e]) \in Nat /\ Len(inbox'[e]) = Len(inbox[e]) + 1
         /\ DOMAIN inbox[e] = 1..Len(inbox[e]) /\ DOMAIN inbox'[e] = 1..(Len(inbox[e]) + 1)
         /\ inbox'[e][Len(inbox[e]) + 1] = m /\ inbox'[e] # <<>>
         /\ \A i \in 1..Len(inbox[e]) : inbox'[e][i] = inbox[e][i]
    BY <1>7, <1>9, <1>10, Longer
  <1>12. \A i \in DOMAIN inbox[e] : inbox[e][i].kind = "block"
    BY <1>5, <1>6, NobodyWorks
  <1>13. \A i \in DOMAIN inbox'[e] : inbox'[e][i].kind = "block"
    BY <1>9, <1>11, <1>12
  <1>14. PoolInv'
    <2>1. PoolTypes'
      <3>1. inbox' \in [Executors -> Seq(Message)]
        BY <1>2, <1>5, <1>7, <1>10, <1>11 DEF PoolTypes
      <3> QED BY <1>2, <1>7, <3>1 DEF PoolTypes
    <2>2. ASSUME NEW f \in Executors PROVE ChannelInv(f)'
      <3>1. \A i \in DOMAIN inbox'[f] : inbox'[f][i].kind = "block"
        BY <1>6, <1>10, <1>13, NobodyWorks
      <3>2. running'[f] = NoWork
        BY <1>2, <1>6, NobodyWorks
      <3> QED BY <3>1, <3>2 DEF ChannelInv
    <2>3. EventsInv' /\ WorkInv'
      BY <1>2, <1>3, <1>6 DEF SequencerInv, PoolInv, EventsInv, WorkInv
    <2> QED BY <2>1, <2>2, <2>3 DEF PoolInv
  <1>15. EnvInv'
    <2> SUFFICES ASSUME NEW f \in Executors, worker'[f] # "failed"
                 PROVE  /\ \A i \in DOMAIN inbox'[f] : inbox'[f][i].kind = "block" =>
                              inbox'[f][i].index = env'[f] + i
                        /\ env'[f] + BlocksQueued(inbox'[f]) = Told(f)'
      BY DEF EnvInv
    <2>1. /\ \A i \in DOMAIN inbox[f] : inbox[f][i].kind = "block" => inbox[f][i].index = env[f] + i
          /\ env[f] + BlocksQueued(inbox[f]) = Told(f)
      BY <1>2 DEF SequencerInv, EnvInv
    <2>2. CASE f # e
      <3>1. Told(f)' = Told(f)
        BY <1>2, <2>2 DEF Told
      <3> QED BY <1>2, <1>10, <2>1, <2>2, <3>1
    <2>3. CASE f = e
      <3>1. Told(e) = Len(blocks) /\ Told(e)' = Len(blocks) + 1
        BY <1>2, <1>5 DEF Told
      <3>2. BlocksQueued(inbox[e]) = Len(inbox[e])
        <4>1. CASE inbox[e] = <<>>
          BY <4>1 DEF BlocksQueued
        <4>2. CASE inbox[e] # <<>>
          <5>1. Len(inbox[e]) # 0
            BY <1>7, <4>2, ZeroLength
          <5>2. Len(inbox[e]) \in DOMAIN inbox[e]
            BY <1>11, <5>1
          <5> QED BY <1>12, <5>2 DEF BlocksQueued
        <4> QED BY <4>1, <4>2
      <3>3. BlocksQueued(inbox'[e]) = Len(inbox[e]) + 1
        <4>1. inbox'[e][Len(inbox'[e])].kind = "block"
          BY <1>9, <1>11
        <4> QED BY <1>11, <4>1 DEF BlocksQueued
      <3>4. env[e] \in Nat /\ env'[e] = env[e]
        BY <1>2, <1>5, <1>7 DEF PoolTypes
      <3>5. env[e] + Len(inbox[e]) = Len(blocks)
        BY <2>1, <2>3, <3>1, <3>2
      <3>6. ASSUME NEW i \in DOMAIN inbox'[e] PROVE inbox'[e][i].index = env[e] + i
        <4>1. CASE i = Len(inbox[e]) + 1
          BY <1>8, <1>9, <1>11, <3>4, <3>5, <4>1
        <4>2. CASE i \in DOMAIN inbox[e]
          BY <1>11, <1>12, <2>1, <2>3, <4>2
        <4> QED BY <1>11, <4>1, <4>2
      <3>7. env[e] + (Len(inbox[e]) + 1) = Len(blocks) + 1
        <4>1. \A a, b, c \in Nat : a + b = c => a + (b + 1) = c + 1
          OBVIOUS
        <4> QED BY <1>8, <1>11, <3>4, <3>5, <4>1, Zenon
      <3>8. env'[e] + BlocksQueued(inbox'[e]) = Told(e)'
        BY <3>1, <3>3, <3>4, <3>7
      <3> QED BY <2>3, <3>4, <3>6, <3>8
    <2> QED BY <2>2, <2>3
  <1>16. ControlInv'
    BY <1>2, <1>3, <1>4 DEF SequencerInv, ControlInv
  <1>17. ChainInv'
    <2>1. op \in {"block", "checkpoint"} /\ pc \in {"dispatch", "drain", "transition"} =>
             block = [slot |-> Len(blocks), parent |-> Len(blocks), txns |-> hasher.current]
      BY DEF SequencerInv, ChainInv
    <2> QED BY <1>2, <1>3, <2>1, ChainFrame DEF SequencerInv
  <1>18. CommitInv' /\ StoreInv'
    BY <1>2, <1>3, CommitFrame, StoreFrame DEF SequencerInv
  <1> QED BY <1>14, <1>15, <1>16, <1>17, <1>18 DEF ThreadsInv

(* The block is ledgered: it names the previous one and holds the transactions *)
(* since, and the next slot starts empty.                                       *)
LEMMA AppendBlockInv == SequencerInv /\ AppendBlock => ThreadsInv'
  <1> SUFFICES ASSUME SequencerInv, AppendBlock PROVE ThreadsInv'
    OBVIOUS
  <1> DEFINE n == Len(blocks)
  <1>1. /\ pc = "transition" /\ unsent = {} /\ blocks' = Append(blocks, block)
        /\ hasher' = [parent |-> n + 1, current |-> {}]
        /\ \/ pc' = "paused" /\ op' = "checkpoint"
           \/ pc' = "process" /\ op' = "none"
        /\ UNCHANGED <<tableVars, poolVars, unsent, history, stateVars, simVars>>
    BY DEF AppendBlock
  <1>2. UNCHANGED <<taken, nodes, stream, inbox, running, env, worker, events, committed, store,
                    simulation, simulator>>
    BY <1>1 DEF tableVars, poolVars, stateVars, simVars
  <1>3. stream = <<>>
    BY <1>1 DEF SequencerInv, ControlInv
  <1>4. /\ block = [slot |-> n, parent |-> n, txns |-> InSlot(n)]
        /\ blocks \in Seq([slot : Nat, parent : Nat, txns : SUBSET Nat]) /\ n \in Nat
        /\ history \in Seq([request : Request, slot : Nat])
    <2>1. blocks \in Seq([slot : Nat, parent : Nat, txns : SUBSET Nat]) /\ n \in Nat
          /\ history \in Seq([request : Request, slot : Nat])
      BY Elements DEF SequencerInv, ChainInv
    <2>2. block = [slot |-> n, parent |-> n, txns |-> hasher.current]
      BY <1>1 DEF SequencerInv, ControlInv, ChainInv
    <2>3. hasher.current = InSlot(n)
      BY DEF SequencerInv, ChainInv
    <2> QED BY <2>1, <2>2, <2>3
  <1>5. block \in [slot : Nat, parent : Nat, txns : SUBSET Nat]
    <2>1. InSlot(n) \subseteq Nat
      BY <1>4, Elements DEF InSlot
    <2> QED BY <1>4, <2>1
  <1>6. /\ blocks' \in Seq([slot : Nat, parent : Nat, txns : SUBSET Nat]) /\ Len(blocks') = n + 1
        /\ DOMAIN blocks = 1..n /\ DOMAIN blocks' = 1..(n + 1) /\ blocks'[n + 1] = block
        /\ \A k \in 1..n : blocks'[k] = blocks[k]
    BY <1>1, <1>4, <1>5, Longer
  <1>7. \A k : InSlot(k)' = InSlot(k)
    BY <1>1 DEF InSlot
  <1>8. CommitInv' /\ StoreInv'
    BY <1>1, <1>2, CommitFrame, StoreFrame DEF SequencerInv
  <1>9. PoolInv'
    BY <1>1, <1>2, PoolFrame DEF SequencerInv
  <1>10. ControlInv'
    BY <1>1, <1>2, <1>3 DEF SequencerInv, ControlInv
  <1>11. EnvInv'
    <2>1. \A f \in Executors : Told(f)' = Told(f)
      BY <1>1, <1>6 DEF Told
    <2> QED BY <1>2, <2>1, EnvFrame DEF SequencerInv
  <1>12. ChainInv'
    <2>1. \A i \in DOMAIN history : history[i].slot <= n /\ history[i].slot \in Nat
      <3>1. \A i \in DOMAIN history : history[i] \in [request : Request, slot : Nat]
        BY <1>4, Elements
      <3> QED BY <3>1 DEF SequencerInv, ChainInv
    <2>2. InSlot(n + 1) = {}
      BY <1>4, <2>1 DEF InSlot
    <2>3. (hasher = [parent |-> Len(blocks), current |-> InSlot(Len(blocks))])'
      <3>1. InSlot(Len(blocks))' = InSlot(n + 1)
        BY <1>1, <1>6 DEF InSlot
      <3> QED BY <1>1, <1>6, <2>2, <3>1
    <2>4. \A i \in DOMAIN history' : history'[i].slot <= Len(blocks')
      BY <1>1, <1>4, <1>6, <2>1
    <2>5. ASSUME NEW k \in DOMAIN blocks'
          PROVE  blocks'[k] = [slot |-> k - 1, parent |-> k - 1, txns |-> InSlot(k - 1)]
      <3>1. CASE k = n + 1
        <4>1. k - 1 = n
          BY <1>4, <3>1
        <4> QED BY <1>4, <1>6, <3>1, <4>1
      <3>2. CASE k \in 1..n
        BY <1>6, <3>2 DEF SequencerInv, ChainInv
      <3> QED BY <1>4, <1>6, <3>1, <3>2
    <2>6. DOMAIN stream' = {} /\ Len(stream') <= Len(history')
      <3>1. stream' = <<>>
        BY <1>2, <1>3
      <3>2. Len(stream) <= Len(history) /\ history' = history /\ stream' = stream
        BY <1>1, <1>2, <1>3 DEF SequencerInv, ChainInv
      <3> QED BY <3>1, <3>2
    <2>7. ~(op' \in {"block", "checkpoint"} /\ pc' \in {"dispatch", "drain", "transition"})
      BY <1>1
    <2> QED BY <1>1, <1>4, <1>6, <1>7, <2>3, <2>4, <2>5, <2>6, <2>7 DEF ChainInv
  <1> QED BY <1>8, <1>9, <1>10, <1>11, <1>12 DEF ThreadsInv

-----------------------------------------------------------------------------
(* The invariant.                                                           *)

(* The sequencer starts with an empty table, idle executors and no ledger. *)
LEMMA SequencerInitInv == Init => ThreadsInv
  <1> SUFFICES ASSUME Init PROVE ThreadsInv
    OBVIOUS
  <1>2. /\ taken = {} /\ stream = <<>> /\ nodes = <<>> /\ Tickets = {}
    BY DEF Init, TableInit, Tickets
  <1>3. ControlInv
    <2>1. <<>> \in Seq({"txn", "barrier"})
      BY EmptyQueue
    <2> QED BY <2>1 DEF Init, ControlInv
  <1>4. PoolInv
    <2>1. <<>> \in Seq(Message) /\ <<>> \in Seq(Outcome)
      BY EmptyQueue
    <2>2. PoolTypes
      BY <2>1 DEF Init, PoolTypes, NoWork, NoTicket
    <2>3. ASSUME NEW f \in Executors PROVE ChannelInv(f)
      <3>1. DOMAIN inbox[f] = {} /\ running[f] = NoWork
        BY DEF Init
      <3> QED BY <3>1 DEF ChannelInv
    <2>4. EventsInv
      BY DEF Init, EventsInv
    <2>5. WorkInv
      BY <1>2 DEF Init, WorkInv
    <2> QED BY <2>2, <2>3, <2>4, <2>5 DEF PoolInv
  <1>5. EnvInv
    <2> SUFFICES ASSUME NEW f \in Executors
                 PROVE  /\ \A i \in DOMAIN inbox[f] : inbox[f][i].kind = "block" => inbox[f][i].index = env[f] + i
                        /\ env[f] + BlocksQueued(inbox[f]) = Told(f)
      BY DEF EnvInv
    <2>1. inbox[f] = <<>> /\ env[f] = 0 /\ Told(f) = 0
      BY DEF Init, Told
    <2>2. BlocksQueued(inbox[f]) = 0
      BY <2>1 DEF BlocksQueued
    <2> QED BY <2>1, <2>2
  <1>6. ChainInv
    <2>1. /\ history = <<>> /\ blocks = <<>> /\ hasher = [parent |-> 0, current |-> {}] /\ op = "none"
      BY DEF Init
    <2>2. <<>> \in Seq([request : Request, slot : Nat])
          /\ <<>> \in Seq([slot : Nat, parent : Nat, txns : SUBSET Nat])
      BY EmptyQueue
    <2>3. InSlot(Len(blocks)) = {}
      BY <2>1 DEF InSlot
    <2>4. /\ DOMAIN history = {} /\ DOMAIN blocks = {} /\ DOMAIN stream = {}
          /\ Len(history) = 0 /\ Len(blocks) = 0 /\ Len(stream) = 0
      BY <1>2, <2>1
    <2>5. /\ history \in Seq([request : Request, slot : Nat])
          /\ blocks \in Seq([slot : Nat, parent : Nat, txns : SUBSET Nat])
      BY <2>1, <2>2
    <2>6. hasher = [parent |-> Len(blocks), current |-> InSlot(Len(blocks))]
      BY <2>1, <2>3, <2>4
    <2>7. Len(stream) <= Len(history)
      BY <2>4
    <2>8. /\ \A t \in DOMAIN stream : history[IndexOf(t)] = [request |-> stream[t], slot |-> Len(blocks)]
          /\ \A i \in DOMAIN history : history[i].slot <= Len(blocks)
          /\ \A k \in DOMAIN blocks :
                blocks[k] = [slot |-> k - 1, parent |-> k - 1, txns |-> InSlot(k - 1)]
      BY <2>4, Zenon
    <2> QED BY <2>1, <2>5, <2>6, <2>7, <2>8 DEF ChainInv
  <1>7. CommitInv
    BY <1>2 DEF Init, CommitInv
  <1>8. StoreInv
    BY DEF Init, StoreInv
  <1> QED BY <1>3, <1>4, <1>5, <1>6, <1>7, <1>8 DEF ThreadsInv

-----------------------------------------------------------------------------
(* What the invariant says.                                                 *)
=============================================================================
