--------------------------- MODULE ExecutorProofs ---------------------------
(***************************************************************************)
(* The steps of the executor threads keep the sequencer's invariant: a     *)
(* ticket or a block is taken from the channel, a transaction commits or   *)
(* fails, and the thread exits.                                            *)
(***************************************************************************)
EXTENDS SequencerLemmas

(* An executor thread ends: its channel is empty and closed. *)
LEMMA ExitInv == ASSUME NEW e \in Executors PROVE SequencerInv /\ Exit(e) => ThreadsInv'
  <1> SUFFICES ASSUME SequencerInv, Exit(e) PROVE ThreadsInv'
    OBVIOUS
  <1>1. /\ worker[e] = "alive" /\ running[e] = NoWork /\ worker' = [worker EXCEPT ![e] = "exited"]
        /\ UNCHANGED <<tableVars, pc, op, available, inbox, running, env, events, chainVars,
                       stateVars, simVars>>
    BY DEF Exit
  <1>2. /\ worker \in [Executors -> {"alive", "failed", "exited"}]
        /\ worker' \in [Executors -> {"alive", "failed", "exited"}]
        /\ \A f \in Executors : worker'[f] = "failed" <=> worker[f] = "failed"
        /\ \A f \in Executors : running[f] # NoWork => worker'[f] = worker[f]
    BY <1>1 DEF SequencerInv, PoolInv, PoolTypes
  <1>3. UNCHANGED <<taken, stream, nodes, history, blocks, hasher, block, unsent, committed, store>>
    BY <1>1 DEF tableVars, chainVars, stateVars
  <1>4. PoolInv'
    <2>1. \A t : IndexOf(t)' = IndexOf(t)
      BY <1>3 DEF IndexOf
    <2>2. PoolTypes' /\ EventsInv'
      BY <1>1, <1>2, <1>3 DEF SequencerInv, PoolInv, PoolTypes, EventsInv
    <2>3. \A f \in Executors : ChannelInv(f)'
      BY <1>1, <1>2, <1>3, <2>1 DEF SequencerInv, PoolInv, ChannelInv
    <2>4. WorkInv'
      BY <1>1, <1>2, <1>3 DEF SequencerInv, PoolInv, PoolTypes, WorkInv, Works
    <2> QED BY <2>2, <2>3, <2>4 DEF PoolInv
  <1>5. EnvInv'
    BY <1>1, <1>2, <1>3 DEF SequencerInv, EnvInv, Told
  <1>6. ControlInv'
    BY <1>1, <1>3 DEF SequencerInv, ControlInv, Held, simVars
  <1>7. ChainInv'
    <2>1. op \in {"block", "checkpoint"} /\ pc \in {"dispatch", "drain", "transition"} =>
             block = [slot |-> Len(blocks), parent |-> Len(blocks), txns |-> hasher.current]
      BY DEF SequencerInv, ChainInv
    <2> QED BY <1>1, <1>3, <2>1, ChainFrame DEF SequencerInv
  <1>8. CommitInv' /\ StoreInv'
    BY <1>1, <1>3, CommitFrame, StoreFrame DEF SequencerInv
  <1> QED BY <1>4, <1>5, <1>6, <1>7, <1>8 DEF ThreadsInv

-----------------------------------------------------------------------------
(* The dispatch loop and the executors.                                     *)

(* The first ready transaction goes to an executor that has nothing in hand. *)
LEMMA DispatchInv == ASSUME SequencerInv, Dispatch, Min(available) \in available PROVE ThreadsInv'
  <1> DEFINE e == Min(available)
             t == Head(ready)
             m == [kind |-> "txn", ticket |-> t, index |-> IndexOf(t)]
  <1>1. /\ e \in Executors /\ e \in available
    BY DEF SequencerInv, PoolInv, PoolTypes
  <1>2. /\ inbox' = [inbox EXCEPT ![e] = Append(inbox[e], m)] /\ available' = available \ {e}
        /\ TakeReady
        /\ UNCHANGED <<pc, op, running, env, worker, events, chainVars, stateVars, simVars>>
    BY DEF Dispatch
  <1>3. /\ t \in Tickets /\ t \in Nat \ {0} /\ t \notin taken /\ taken' = taken \cup {t}
        /\ UNCHANGED <<stream, nodes, history, blocks, hasher, block, unsent, committed, store>>
    <2>1. ready \in Seq(Tickets) /\ ready # <<>> /\ Tickets = 1..Len(nodes)
      BY <1>2, TicketsAre DEF TakeReady, SequencerInv, TableInv, TableTypeOK
    <2>2. t \in Tickets /\ t = ready[1] /\ 1 \in DOMAIN ready
      BY <2>1, Shorter
    <2>3. t \in Range(ready)
      BY <2>2 DEF Range
    <2>4. t \notin taken
      BY <2>3 DEF SequencerInv, TableInv, NothingLost
    <2> QED BY <1>2, <2>1, <2>2, <2>4 DEF TakeReady, chainVars, stateVars
  <1> HIDE DEF e, t
  <1>4. m \in Message
    <2>1. Len(stream) \in Nat /\ Len(history) \in Nat /\ Len(stream) <= Len(history)
      BY Elements DEF SequencerInv, ChainInv, TableInv, TableTypeOK
    <2>2. IndexOf(t) \in Nat
      BY <1>3, <2>1 DEF IndexOf
    <2> QED BY <1>3, <2>2 DEF Message
  <1>5. \A u : IndexOf(u)' = IndexOf(u)
    BY <1>3 DEF IndexOf
  <1>6. m.kind = "txn" /\ m.ticket = t /\ m.index = IndexOf(t)
    OBVIOUS
  <1> HIDE DEF m
  <1>7. /\ inbox \in [Executors -> Seq(Message)] /\ inbox' \in [Executors -> Seq(Message)]
        /\ inbox'[e] = Append(inbox[e], m) /\ \A f \in Executors \ {e} : inbox'[f] = inbox[f]
    BY <1>1, <1>2, <1>4, Longer DEF SequencerInv, PoolInv, PoolTypes
  <1>8. /\ \A u : ~Works(e, u)
        /\ \A i \in DOMAIN inbox[e] : inbox[e][i].kind = "block"
        /\ running[e] = NoWork
    BY <1>1, IdleHands DEF SequencerInv, PoolInv, WorkInv
  <1>9. ASSUME NEW f \in Executors, NEW u
        PROVE  Queues(inbox'[f], u) <=> Queues(inbox[f], u) \/ (f = e /\ u = t)
    <2>1. CASE f = e
      <3>1. inbox[e] \in Seq(Message)
        BY <1>1, <1>7
      <3>2. Queues(Append(inbox[e], m), u) <=> Queues(inbox[e], u) \/ (m.kind = "txn" /\ m.ticket = u)
        BY <1>4, <3>1, QueuesAppend
      <3> QED BY <1>6, <1>7, <2>1, <3>2
    <2>2. CASE f # e
      BY <1>7, <2>2
    <2> QED BY <2>1, <2>2
  <1>10. \A f \in Executors : ~Works(f, t)
    BY <1>3, WorkIsTaken DEF SequencerInv
  <1>11. /\ Len(inbox[e]) \in Nat /\ DOMAIN inbox[e] = 1..Len(inbox[e]) /\ inbox'[e] # <<>>
         /\ Len(inbox'[e]) = Len(inbox[e]) + 1 /\ DOMAIN inbox'[e] = 1..(Len(inbox[e]) + 1)
         /\ inbox'[e][Len(inbox[e]) + 1] = m
         /\ \A i \in 1..Len(inbox[e]) : inbox'[e][i] = inbox[e][i]
    BY <1>1, <1>4, <1>7, Longer
  <1>12. PoolInv'
    <2>1. PoolTypes'
      BY <1>2, <1>7 DEF SequencerInv, PoolInv, PoolTypes
    <2>2. ASSUME NEW f \in Executors PROVE ChannelInv(f)'
      <3>1. ChannelInv(f)
        BY DEF SequencerInv, PoolInv
      <3>2. CASE f = e
        BY <1>2, <1>3, <1>5, <1>6, <1>8, <1>11, <3>2 DEF ChannelInv
      <3>3. CASE f # e
        BY <1>2, <1>3, <1>5, <1>7, <3>1, <3>3 DEF ChannelInv
      <3> QED BY <3>2, <3>3
    <2>3. EventsInv'
      BY <1>2, <1>3 DEF SequencerInv, PoolInv, EventsInv
    <2>4. WorkInv'
      <3>1. \A f \in Executors : \A u : Works(f, u)' <=> Works(f, u) \/ (f = e /\ u = t)
        BY <1>2, <1>9 DEF Works
      <3>2. \A f \in available' : worker'[f] # "failed"
        BY <1>2 DEF SequencerInv, PoolInv, WorkInv
      <3>3. ASSUME NEW f \in Executors, NEW u \in taken', Works(f, u)'
            PROVE  /\ f \notin available' /\ worker'[f] # "failed"
                   /\ ~(Queues(inbox'[f], u) /\ Runs(running'[f], u))
                   /\ ~(Reports(events', f, u) /\ (Queues(inbox'[f], u) \/ Runs(running'[f], u)))
                   /\ \A g \in Executors, v \in taken' :
                         Works(g, v)' /\ (f = g \/ u = v) => f = g /\ u = v
        <4>1. CASE f = e /\ u = t
          <5>1. ~Runs(running[e], t) /\ ~Reports(events, e, t)
            BY <1>8 DEF Works
          <5>2. worker[e] # "failed"
            BY <1>1 DEF SequencerInv, PoolInv, WorkInv
          <5> QED BY <1>2, <1>8, <1>10, <3>1, <4>1, <5>1, <5>2
        <4>2. CASE Works(f, u) /\ ~(f = e /\ u = t)
          <5>1. f # e /\ u # t /\ u \in taken
            BY <1>3, <1>8, <1>10, <3>3, <4>2
          <5>2. /\ f \notin available /\ worker[f] # "failed"
                /\ ~(Queues(inbox[f], u) /\ Runs(running[f], u))
                /\ ~(Reports(events, f, u) /\ (Queues(inbox[f], u) \/ Runs(running[f], u)))
                /\ \A g \in Executors, v \in taken :
                         Works(g, v) /\ (f = g \/ u = v) => f = g /\ u = v
            BY <4>2, <5>1 DEF SequencerInv, PoolInv, WorkInv
          <5>3. \A g \in Executors, v \in taken' :
                         Works(g, v)' /\ (f = g \/ u = v) => f = g /\ u = v
            <6> SUFFICES ASSUME NEW g \in Executors, NEW v \in taken', Works(g, v)', f = g \/ u = v
                         PROVE  f = g /\ u = v
              OBVIOUS
            <6>1. Works(g, v)
              BY <3>1, <5>1
            <6>2. v \in taken
              BY <6>1, WorkIsTaken DEF SequencerInv
            <6> QED BY <5>2, <6>1, <6>2
          <5> QED BY <1>2, <1>9, <5>1, <5>2, <5>3
        <4> QED BY <3>1, <3>3, <4>1, <4>2
      <3> QED BY <3>2, <3>3, Zenon DEF WorkInv
    <2> QED BY <2>1, <2>2, <2>3, <2>4 DEF PoolInv
  <1>13. EnvInv'
    <2>1. \A f \in Executors : Told(f)' = Told(f)
      BY <1>2, <1>3 DEF Told
    <2>2. BlocksQueued(inbox[e]) = Len(inbox[e]) /\ BlocksQueued(inbox'[e]) = Len(inbox[e])
      <3>1. inbox[e] # <<>> => Len(inbox[e]) \in DOMAIN inbox[e]
        BY <1>1, <1>7, <1>11, ZeroLength
      <3> QED BY <1>6, <1>8, <1>11, <3>1 DEF BlocksQueued
    <2>3. \A i \in DOMAIN inbox'[e] : inbox'[e][i].kind = "block" =>
             i \in DOMAIN inbox[e] /\ inbox'[e][i] = inbox[e][i]
      BY <1>6, <1>11
    <2> QED BY <1>2, <1>7, <2>1, <2>2, <2>3 DEF SequencerInv, EnvInv
  <1>15. ControlInv'
    BY <1>2, <1>3 DEF SequencerInv, ControlInv, Held, simVars
  <1>16. ChainInv'
    <2>1. op \in {"block", "checkpoint"} /\ pc \in {"dispatch", "drain", "transition"} =>
             block = [slot |-> Len(blocks), parent |-> Len(blocks), txns |-> hasher.current]
      BY DEF SequencerInv, ChainInv
    <2> QED BY <1>2, <1>3, <2>1, ChainFrame DEF SequencerInv
  <1>17. CommitInv' /\ StoreInv'
    BY <1>2, <1>3, CommitFrame, StoreFrame DEF SequencerInv
  <1> QED BY <1>12, <1>13, <1>15, <1>16, <1>17 DEF ThreadsInv

(* An executor takes a transaction out of its channel. *)
LEMMA ReceiveTxnInv ==
    ASSUME SequencerInv, NEW e \in Executors, Receive(e), Head(inbox[e]).kind = "txn"
    PROVE  PoolInv' /\ EnvInv'
  <1> DEFINE t == Head(inbox[e]).ticket
             w == [ticket |-> t, index |-> Head(inbox[e]).index]
  <1>1. /\ worker[e] = "alive" /\ running[e] = NoWork /\ inbox[e] # <<>>
        /\ running' = [running EXCEPT ![e] = w] /\ inbox' = [inbox EXCEPT ![e] = Tail(inbox[e])]
        /\ UNCHANGED <<tableVars, pc, op, available, worker, events, chainVars, env>>
    BY DEF Receive
  <1>2. /\ inbox \in [Executors -> Seq(Message)] /\ inbox[e] \in Seq(Message)
        /\ running \in [Executors -> [ticket : Nat, index : Nat]]
    BY DEF SequencerInv, PoolInv, PoolTypes
  <1>3. /\ Len(inbox[e]) \in Nat \ {0} /\ 1 \in DOMAIN inbox[e] /\ Head(inbox[e]) = inbox[e][1]
        /\ Head(inbox[e]) \in Message /\ Tail(inbox[e]) \in Seq(Message)
        /\ Len(Tail(inbox[e])) = Len(inbox[e]) - 1
    BY <1>1, <1>2, Shorter
  <1>4. Len(inbox[e]) = 1 /\ t \in taken /\ Head(inbox[e]).index = IndexOf(t)
    BY <1>3 DEF SequencerInv, PoolInv, ChannelInv
  <1>5. Tail(inbox[e]) = <<>>
    <2>1. Len(Tail(inbox[e])) = 0
      BY <1>3, <1>4
    <2> QED BY <1>3, <2>1, ZeroLength
  <1>6. t \in Nat \ {0} /\ w \in [ticket : Nat, index : Nat] /\ w.ticket = t /\ w.index = IndexOf(t) /\ w # NoWork
    <2>1. t \in Nat \ {0}
      BY <1>4, TicketsAre DEF SequencerInv, TableInv, TableTypeOK
    <2> QED BY <1>3, <1>4, <2>1 DEF Message, NoWork, NoTicket
  <1>7. UNCHANGED <<taken, stream, nodes, history, blocks, unsent>>
    BY <1>1 DEF tableVars, chainVars
  <1> HIDE DEF w, t
  <1>8. /\ inbox' \in [Executors -> Seq(Message)] /\ inbox'[e] = <<>>
        /\ \A f \in Executors \ {e} : inbox'[f] = inbox[f]
    BY <1>1, <1>2, <1>3, <1>5
  <1>9. /\ running' \in [Executors -> [ticket : Nat, index : Nat]] /\ running'[e] = w
        /\ \A f \in Executors \ {e} : running'[f] = running[f]
    BY <1>1, <1>2, <1>6
  <1>10. \A u : IndexOf(u)' = IndexOf(u)
    BY <1>7 DEF IndexOf
  <1>11. Works(e, t) /\ Queues(inbox[e], t)
    BY <1>3 DEF Works, Queues, t
  <1>12. \A u : ~Queues(inbox'[e], u)
    BY <1>8 DEF Queues
  <1>13. PoolInv'
    <2>1. PoolTypes' /\ EventsInv'
      BY <1>1, <1>7, <1>8, <1>9 DEF SequencerInv, PoolInv, PoolTypes, EventsInv
    <2>2. ASSUME NEW f \in Executors PROVE ChannelInv(f)'
      <3>1. ChannelInv(f)
        BY DEF SequencerInv, PoolInv
      <3>2. CASE f = e
        BY <1>1, <1>4, <1>6, <1>7, <1>8, <1>9, <1>10, <3>2 DEF ChannelInv
      <3>3. CASE f # e
        BY <1>1, <1>7, <1>8, <1>9, <1>10, <3>1, <3>3 DEF ChannelInv
      <3> QED BY <3>2, <3>3
    <2>3. ASSUME NEW f \in Executors, NEW u \in taken', Works(f, u)'
          PROVE  /\ Works(f, u) /\ f \notin available' /\ worker'[f] # "failed"
                 /\ ~(Queues(inbox'[f], u) /\ Runs(running'[f], u))
                 /\ ~(Reports(events', f, u) /\ (Queues(inbox'[f], u) \/ Runs(running'[f], u)))
      <3>1. CASE f = e
        <4>1. Runs(running'[e], u) => u = t
          BY <1>6, <1>9 DEF Runs
        <4>2. Reports(events, e, u) => u = t
          BY <1>11, OnePlace DEF SequencerInv, Works
        <4>3. ~Reports(events, e, t) /\ e \notin available /\ worker[e] # "failed"
          BY <1>11, OnePlace DEF SequencerInv
        <4> QED BY <1>1, <1>11, <1>12, <2>3, <3>1, <4>1, <4>2, <4>3 DEF Works
      <3>2. CASE f # e
        <4>1. Works(f, u)
          BY <1>1, <1>8, <1>9, <2>3, <3>2 DEF Works
        <4> QED BY <1>1, <1>8, <1>9, <3>2, <4>1, OnePlace DEF SequencerInv
      <3> QED BY <3>1, <3>2
    <2>4. WorkInv'
      <3>1. \A f \in available' : worker'[f] # "failed"
        BY <1>1 DEF SequencerInv, PoolInv, WorkInv
      <3> QED BY <1>7, <2>3, <3>1, WorkShrinks DEF SequencerInv
    <2> QED BY <2>1, <2>2, <2>4 DEF PoolInv
  <1>14. EnvInv'
    <2>1. \A f \in Executors : Told(f)' = Told(f)
      BY <1>1, <1>7 DEF Told
    <2>2. BlocksQueued(inbox[e]) = 0 /\ BlocksQueued(inbox'[e]) = 0
      BY <1>1, <1>3, <1>4, <1>8 DEF BlocksQueued
    <2>3. DOMAIN inbox'[e] = {}
      BY <1>8
    <2> QED BY <1>1, <1>8, <2>1, <2>2, <2>3 DEF SequencerInv, EnvInv
  <1> QED BY <1>13, <1>14

(* An executor applies a block boundary: it is the next one for it. *)
LEMMA ReceiveBlockInv ==
    ASSUME SequencerInv, NEW e \in Executors, Receive(e), Head(inbox[e]).kind # "txn"
    PROVE  PoolInv' /\ EnvInv'
  <1> DEFINE q == inbox[e]
  <1>1. /\ worker[e] = "alive" /\ running[e] = NoWork /\ q # <<>>
        /\ env' = [env EXCEPT ![e] = Head(q).index] /\ inbox' = [inbox EXCEPT ![e] = Tail(q)]
        /\ UNCHANGED <<tableVars, pc, op, available, worker, events, chainVars, running>>
    BY DEF Receive
  <1>2. /\ inbox \in [Executors -> Seq(Message)] /\ q \in Seq(Message) /\ env \in [Executors -> Nat]
    BY DEF SequencerInv, PoolInv, PoolTypes
  <1> HIDE DEF q
  <1>3. /\ Len(q) \in Nat \ {0} /\ DOMAIN q = 1..Len(q) /\ Head(q) = q[1]
        /\ Head(q) \in Message /\ Tail(q) \in Seq(Message)
        /\ Len(Tail(q)) = Len(q) - 1 /\ DOMAIN Tail(q) = 1..(Len(q) - 1)
        /\ \A i \in 1..(Len(q) - 1) : Tail(q)[i] = q[i + 1]
    BY <1>1, <1>2, Shorter
  <1>4. Head(q).kind = "block" /\ Head(q).index = env[e] + 1 /\ Head(q).index \in Nat
    <2>1. Head(q).kind = "block" /\ Head(q).index \in Nat
      BY <1>3 DEF Message, q
    <2>2. q[1].kind = "block" => q[1].index = env[e] + 1
      BY <1>1, <1>3 DEF SequencerInv, EnvInv, q
    <2> QED BY <1>3, <2>1, <2>2
  <1>5. UNCHANGED <<taken, stream, nodes, history, blocks, unsent>>
    BY <1>1 DEF tableVars, chainVars
  <1>6. /\ inbox' \in [Executors -> Seq(Message)] /\ inbox'[e] = Tail(q)
        /\ \A f \in Executors \ {e} : inbox'[f] = inbox[f]
    BY <1>1, <1>2, <1>3
  <1>7. /\ env' \in [Executors -> Nat] /\ env'[e] = env[e] + 1
        /\ \A f \in Executors \ {e} : env'[f] = env[f]
    BY <1>1, <1>2, <1>4
  <1>8. \A u : IndexOf(u)' = IndexOf(u)
    BY <1>5 DEF IndexOf
  <1>9. ASSUME NEW f \in Executors, NEW u PROVE Queues(inbox'[f], u) <=> Queues(inbox[f], u)
    <2>1. CASE f = e
      <3>1. Queues(q, u) <=> Queues(Tail(q), u) \/ (Head(q).kind = "txn" /\ Head(q).ticket = u)
        BY <1>1, <1>2, QueuesTail
      <3> QED BY <1>4, <1>6, <2>1, <3>1 DEF q
    <2>2. CASE f # e
      BY <1>6, <2>2
    <2> QED BY <2>1, <2>2
  <1>10. PoolInv'
    <2>1. PoolTypes' /\ EventsInv'
      BY <1>1, <1>5, <1>6, <1>7 DEF SequencerInv, PoolInv, PoolTypes, EventsInv
    <2>2. ASSUME NEW f \in Executors PROVE ChannelInv(f)'
      <3>1. ChannelInv(f)
        BY DEF SequencerInv, PoolInv
      <3>2. CASE f = e
        <4>1. \A i \in DOMAIN Tail(q) : i + 1 \in DOMAIN q /\ Tail(q)[i] = q[i + 1]
          BY <1>3
        <4>2. \A i \in DOMAIN q : q[i].kind = "txn" =>
                 /\ i = Len(q) /\ q[i].ticket \in taken /\ q[i].index = IndexOf(q[i].ticket)
          BY <3>1, <3>2 DEF ChannelInv, q
        <4>3. \A i \in DOMAIN Tail(q) : Tail(q)[i].kind = "txn" =>
                 /\ i = Len(Tail(q)) /\ Tail(q)[i].ticket \in taken
                 /\ Tail(q)[i].index = IndexOf(Tail(q)[i].ticket)
          <5> SUFFICES ASSUME NEW i \in DOMAIN Tail(q), Tail(q)[i].kind = "txn"
                       PROVE  /\ i = Len(Tail(q)) /\ Tail(q)[i].ticket \in taken
                              /\ Tail(q)[i].index = IndexOf(Tail(q)[i].ticket)
            OBVIOUS
          <5>1. i + 1 \in DOMAIN q /\ Tail(q)[i] = q[i + 1]
            BY <4>1
          <5>2. /\ i + 1 = Len(q) /\ q[i + 1].ticket \in taken
                /\ q[i + 1].index = IndexOf(q[i + 1].ticket)
            BY <4>2, <5>1
          <5>3. i = Len(Tail(q))
            BY <1>3, <5>2
          <5> QED BY <5>1, <5>2, <5>3
        <4> QED BY <1>1, <1>5, <1>6, <1>8, <3>2, <4>3 DEF ChannelInv
      <3>3. CASE f # e
        BY <1>1, <1>5, <1>6, <1>8, <3>1, <3>3 DEF ChannelInv
      <3> QED BY <3>2, <3>3
    <2>3. ASSUME NEW f \in Executors, NEW u \in taken', Works(f, u)'
          PROVE  /\ Works(f, u) /\ f \notin available' /\ worker'[f] # "failed"
                 /\ ~(Queues(inbox'[f], u) /\ Runs(running'[f], u))
                 /\ ~(Reports(events', f, u) /\ (Queues(inbox'[f], u) \/ Runs(running'[f], u)))
      <3>1. Works(f, u)
        BY <1>1, <1>9, <2>3 DEF Works
      <3> QED BY <1>1, <1>9, <3>1, OnePlace DEF SequencerInv
    <2>4. WorkInv'
      <3>1. \A f \in available' : worker'[f] # "failed"
        BY <1>1 DEF SequencerInv, PoolInv, WorkInv
      <3> QED BY <1>5, <2>3, <3>1, WorkShrinks DEF SequencerInv
    <2> QED BY <2>1, <2>2, <2>4 DEF PoolInv
  <1>11. EnvInv'
    <2>1. \A f \in Executors : Told(f)' = Told(f)
      BY <1>1, <1>5 DEF Told
    <2>2. BlocksQueued(Tail(q)) = BlocksQueued(q) - 1
      <3>1. CASE Len(q) = 1
        <4>1. Tail(q) = <<>> /\ Len(Tail(q)) = 0
          BY <1>3, <3>1, ZeroLength
        <4> QED BY <1>1, <1>3, <1>4, <3>1, <4>1 DEF BlocksQueued
      <3>2. CASE Len(q) # 1
        <4>1. Tail(q) # <<>> /\ Tail(q)[Len(Tail(q))] = q[Len(q)]
          <5>1. Len(Tail(q)) \in 1..(Len(q) - 1) /\ Len(Tail(q)) + 1 = Len(q)
            BY <1>3, <3>2
          <5>2. Tail(q) # <<>>
            <6>1. Len(Tail(q)) # 0
              BY <1>3, <5>1
            <6>2. Len(Tail(q)) = 0 <=> Tail(q) = <<>>
              BY <1>3, ZeroLength
            <6> QED BY <6>1, <6>2
          <5> QED BY <1>3, <5>1, <5>2
        <4> QED BY <1>1, <1>3, <4>1 DEF BlocksQueued
      <3> QED BY <3>1, <3>2
    <2>3. ASSUME NEW i \in DOMAIN Tail(q), Tail(q)[i].kind = "block"
          PROVE  Tail(q)[i].index = env'[e] + i
      <3>1. i \in Nat /\ i + 1 \in DOMAIN q /\ q[i + 1] = Tail(q)[i]
        BY <1>3, <2>3
      <3>2. q[i + 1].index = env[e] + (i + 1)
        BY <1>1, <2>3, <3>1 DEF SequencerInv, EnvInv, q
      <3> QED BY <1>2, <1>7, <3>1, <3>2
    <2>4. env[e] + BlocksQueued(q) = Told(e) /\ BlocksQueued(q) \in Int /\ env[e] \in Nat
      BY <1>1, <1>2, <1>3 DEF SequencerInv, EnvInv, BlocksQueued, q
    <2>5. env'[e] + BlocksQueued(Tail(q)) = Told(e)
      BY <1>7, <2>2, <2>4
    <2>6. ASSUME NEW f \in Executors, worker[f] # "failed", f # e
          PROVE  /\ \A i \in DOMAIN inbox[f] : inbox[f][i].kind = "block" => inbox[f][i].index = env[f] + i
                 /\ env[f] + BlocksQueued(inbox[f]) = Told(f)
      BY <2>6 DEF SequencerInv, EnvInv
    <2> QED BY <1>1, <1>6, <1>7, <2>1, <2>3, <2>5, <2>6 DEF EnvInv
  <1> QED BY <1>10, <1>11

(* An executor takes the next message of its channel. *)
LEMMA ReceiveInv == ASSUME NEW e \in Executors PROVE SequencerInv /\ Receive(e) => ThreadsInv'
  <1> SUFFICES ASSUME SequencerInv, Receive(e) PROVE ThreadsInv'
    OBVIOUS
  <1>1. UNCHANGED <<tableVars, pc, op, events, chainVars, stateVars, simVars>>
    BY DEF Receive
  <1>2. UNCHANGED <<stream, nodes, history, blocks, hasher, block, unsent, committed, store>>
    BY <1>1 DEF tableVars, chainVars, stateVars
  <1>3. PoolInv' /\ EnvInv'
    BY ReceiveTxnInv, ReceiveBlockInv
  <1>4. ControlInv'
    BY <1>1, <1>2 DEF SequencerInv, ControlInv, Held, simVars
  <1>5. ChainInv'
    <2>1. op \in {"block", "checkpoint"} /\ pc \in {"dispatch", "drain", "transition"} =>
             block = [slot |-> Len(blocks), parent |-> Len(blocks), txns |-> hasher.current]
      BY DEF SequencerInv, ChainInv
    <2> QED BY <1>1, <1>2, <2>1, ChainFrame DEF SequencerInv
  <1>6. CommitInv' /\ StoreInv'
    BY <1>1, <1>2, CommitFrame, StoreFrame DEF SequencerInv
  <1> QED BY <1>3, <1>4, <1>5, <1>6 DEF ThreadsInv

(* A transaction commits and is reported: its ticket stays in the same hands. *)
LEMMA CommitPoolInv ==
    ASSUME SequencerInv, NEW e \in Executors, Commit(e)
    PROVE  /\ PoolInv'
           /\ \A f \in Executors : \A u : Reports(events', f, u) <=>
                 Reports(events, f, u) \/ (f = e /\ u = running[e].ticket)
  <1> DEFINE t == running[e].ticket
             m == [kind |-> "completed", id |-> e, ticket |-> t]
  <1>1. /\ running[e] # NoWork /\ events' = Append(events, m)
        /\ running' = [running EXCEPT ![e] = NoWork]
        /\ UNCHANGED <<tableVars, pc, op, available, inbox, env, worker, chainVars>>
    BY DEF Commit
  <1>2. /\ t \in taken /\ Works(e, t) /\ Runs(running[e], t) /\ ~Reported(t)
    BY <1>1, RunningFacts
  <1>3. /\ running \in [Executors -> [ticket : Nat, index : Nat]] /\ events \in Seq(Outcome)
        /\ t \in Nat
    BY DEF SequencerInv, PoolInv, PoolTypes
  <1>4. m \in Outcome /\ m.kind = "completed" /\ m.id = e /\ m.ticket = t
    BY <1>3 DEF Outcome
  <1> HIDE DEF m, t
  <1>5. UNCHANGED <<taken, stream, history>>
    BY <1>1 DEF tableVars, chainVars
  <1>6. \A u : IndexOf(u)' = IndexOf(u)
    BY <1>5 DEF IndexOf
  <1>7. /\ running' \in [Executors -> [ticket : Nat, index : Nat]] /\ running'[e] = NoWork
        /\ \A f \in Executors \ {e} : running'[f] = running[f]
    BY <1>1, <1>3 DEF NoWork, NoTicket
  <1>8. /\ events' \in Seq(Outcome) /\ Len(events) \in Nat /\ DOMAIN events = 1..Len(events)
        /\ DOMAIN events' = 1..(Len(events) + 1) /\ events'[Len(events) + 1] = m
        /\ \A i \in 1..Len(events) : events'[i] = events[i]
    BY <1>1, <1>3, <1>4, Longer
  <1>9. ASSUME NEW f \in Executors, NEW u
        PROVE  Reports(events', f, u) <=> Reports(events, f, u) \/ (f = e /\ u = t)
    <2>1. Reports(Append(events, m), f, u) <=>
            Reports(events, f, u) \/ (m.kind = "completed" /\ m.id = f /\ m.ticket = u)
      BY <1>3, <1>4, ReportsAppend
    <2> QED BY <1>1, <1>4, <2>1
  <1>10. \A u : ~Runs(running'[e], u)
    BY <1>7 DEF Runs
  <1>11. PoolTypes'
    BY <1>1, <1>7, <1>8 DEF SequencerInv, PoolInv, PoolTypes
  <1>12. ASSUME NEW f \in Executors PROVE ChannelInv(f)'
    <2>1. ChannelInv(f)
      BY DEF SequencerInv, PoolInv
    <2>2. CASE f = e
      BY <1>1, <1>5, <1>6, <1>7, <2>1, <2>2 DEF ChannelInv
    <2>3. CASE f # e
      BY <1>1, <1>5, <1>6, <1>7, <2>1, <2>3 DEF ChannelInv
    <2> QED BY <2>2, <2>3
  <1>13. EventsInv'
    <2>1. \A i \in DOMAIN events : events[i].kind = "completed" => events[i].ticket # t
      <3>1. \A i \in DOMAIN events : events[i].id \in Executors
        <4>1. \A i \in DOMAIN events : events[i] \in Outcome
          BY <1>3, <1>8, Elements
        <4> QED BY <4>1 DEF Outcome
      <3> QED BY <1>2, <3>1 DEF Reported, Reports
    <2>2. EventsInv
      BY DEF SequencerInv, PoolInv
    <2>3. \A i \in DOMAIN events' : i \in DOMAIN events \/ events'[i] = m
      BY <1>8
    <2>4. ASSUME NEW i \in DOMAIN events', events'[i].kind = "completed"
          PROVE  events'[i].ticket \in taken
      BY <1>2, <1>4, <1>8, <2>2, <2>3, <2>4 DEF EventsInv
    <2>5. ASSUME NEW i \in DOMAIN events', NEW j \in DOMAIN events',
                 events'[i].kind = "completed", events'[j].kind = "completed",
                 events'[i].ticket = events'[j].ticket
          PROVE  i = j
      <3>1. CASE i \in DOMAIN events /\ j \in DOMAIN events
        <4>1. events'[i] = events[i] /\ events'[j] = events[j]
          BY <1>8, <3>1
        <4> QED BY <2>2, <2>5, <3>1, <4>1, Zenon DEF EventsInv
      <3>2. CASE i \in DOMAIN events /\ j = Len(events) + 1
        BY <1>4, <1>8, <2>1, <2>5, <3>2
      <3>3. CASE i = Len(events) + 1 /\ j \in DOMAIN events
        BY <1>4, <1>8, <2>1, <2>5, <3>3
      <3>4. CASE i = Len(events) + 1 /\ j = Len(events) + 1
        BY <3>4
      <3> QED BY <1>8, <3>1, <3>2, <3>3, <3>4
    <2> QED BY <1>5, <2>4, <2>5, Zenon DEF EventsInv
  <1>14. ASSUME NEW f \in Executors, NEW u \in taken', Works(f, u)'
         PROVE  /\ Works(f, u) /\ f \notin available' /\ worker'[f] # "failed"
                /\ ~(Queues(inbox'[f], u) /\ Runs(running'[f], u))
                /\ ~(Reports(events', f, u) /\ (Queues(inbox'[f], u) \/ Runs(running'[f], u)))
    <2>1. CASE f = e
      <3>1. ASSUME Queues(inbox[e], u) PROVE FALSE
        <4>1. u = t
          BY <1>2, <3>1, OnePlace DEF SequencerInv, Works
        <4> QED BY <1>2, <3>1, <4>1, OnePlace DEF SequencerInv
      <3>2. e \notin available /\ worker[e] # "failed"
        BY <1>2, OnePlace DEF SequencerInv
      <3>3. Works(e, u)
        BY <1>1, <1>2, <1>9, <1>10, <1>14, <2>1, <3>1 DEF Works
      <3> QED BY <1>1, <1>10, <2>1, <3>1, <3>2, <3>3
    <2>2. CASE f # e
      <3>1. Reports(events', f, u) <=> Reports(events, f, u)
        BY <1>9, <2>2
      <3>2. Works(f, u)
        BY <1>1, <1>7, <1>14, <2>2, <3>1 DEF Works
      <3> QED BY <1>1, <1>7, <2>2, <3>1, <3>2, OnePlace DEF SequencerInv
    <2> QED BY <2>1, <2>2
  <1>15. WorkInv'
    <2>1. \A f \in available' : worker'[f] # "failed"
      BY <1>1 DEF SequencerInv, PoolInv, WorkInv
    <2> QED BY <1>5, <1>14, <2>1, WorkShrinks DEF SequencerInv
  <1> QED BY <1>9, <1>11, <1>12, <1>13, <1>15 DEF PoolInv, t

(* The store holds the writes of the transaction that commits: it is the last *)
(* committed writer of each of its accounts.                                   *)
LEMMA CommitStoreInv ==
    ASSUME SequencerInv, NEW e \in Executors, Commit(e)
    PROVE  StoreInv'
  <1> DEFINE t == running[e].ticket
             i == running[e].index
  <1>1. /\ running[e] # NoWork /\ committed' = committed \cup {i} /\ UNCHANGED <<history, stream>>
        /\ store' = [x \in Account |-> IF x \in history[i].request.writes THEN i ELSE store[x]]
    BY DEF Commit, chainVars, tableVars
  <1>2. /\ t \in Tickets /\ t \in Unfinished /\ i = IndexOf(t) /\ i \in DOMAIN history
        /\ history[i] = [request |-> stream[t], slot |-> Len(blocks)]
    BY <1>1, RunningFacts
  <1>3. /\ i \in Nat \ {0} /\ committed \subseteq DOMAIN history /\ DOMAIN history \subseteq Nat
    BY <1>2, Places DEF SequencerInv, CommitInv
  <1>4. store \in [Account -> Nat]
    BY DEF SequencerInv, StoreInv
  <1>5. \A u \in Tickets : stream[u] \in Request
    BY Places, Elements DEF SequencerInv, TableInv, TableTypeOK
  <1> HIDE DEF i, t
  <1>6. ASSUME NEW x \in Account, x \in history[i].request.writes, NEW j \in committed,
               x \in history[j].request.writes
        PROVE  j <= i
    <2>1. CASE j \in 1..(Len(history) - Len(stream))
      <3>1. j < IndexOf(t)
        BY <1>2, <2>1, Places DEF SequencerInv
      <3> QED BY <1>2, <1>3, <3>1
    <2>2. CASE \E u \in Tickets : j = IndexOf(u)
      <3>1. PICK u \in Tickets : j = IndexOf(u)
        BY <2>2
      <3>2. history[j].request = stream[u] /\ history[i].request = stream[t]
        <4>1. history[IndexOf(u)] = [request |-> stream[u], slot |-> Len(blocks)]
          BY Places DEF SequencerInv
        <4> QED BY <1>2, <3>1, <4>1
      <3>3. Conflict(stream[t], stream[u])
        BY <1>2, <1>5, <1>6, <3>2 DEF Conflict
      <3>4. ~(t < u)
        BY <1>2, <3>1, <3>3, CommittedConflicts
      <3>5. ~(IndexOf(t) < IndexOf(u))
        BY <1>2, <3>4, Places DEF SequencerInv
      <3> QED BY <1>2, <1>3, <3>1, <3>5
    <2>3. j \in DOMAIN history
      BY <1>3
    <2> QED BY <2>1, <2>2, <2>3, Places DEF SequencerInv
  <1>7. store' \in [Account -> Nat]
    BY <1>1, <1>3, <1>4
  <1>8. ASSUME NEW x \in Account
        PROVE  /\ store'[x] # 0 => store'[x] \in committed' /\ x \in history'[store'[x]].request.writes
               /\ \A j \in committed' : x \in history'[j].request.writes => j <= store'[x]
    <2>1. /\ store[x] # 0 => store[x] \in committed /\ x \in history[store[x]].request.writes
          /\ \A j \in committed : x \in history[j].request.writes => j <= store[x]
      BY DEF SequencerInv, StoreInv
    <2>2. CASE x \in history[i].request.writes
      <3>1. store'[x] = i
        BY <1>1, <2>2
      <3> QED BY <1>1, <1>3, <1>6, <2>2, <3>1
    <2>3. CASE x \notin history[i].request.writes
      <3>1. store'[x] = store[x]
        BY <1>1, <2>3
      <3> QED BY <1>1, <2>1, <2>3, <3>1
    <2> QED BY <2>2, <2>3
  <1> QED BY <1>7, <1>8 DEF StoreInv

(* An executor commits a transaction. *)
LEMMA CommitStepInv ==
    ASSUME SequencerInv, NEW e \in Executors, Commit(e)
    PROVE  ThreadsInv'
  <1> DEFINE t == running[e].ticket
  <1>1. /\ running[e] # NoWork /\ committed' = committed \cup {running[e].index}
        /\ UNCHANGED <<tableVars, pc, op, inbox, env, worker, chainVars, simVars>>
    BY DEF Commit
  <1>2. UNCHANGED <<taken, stream, nodes, unsent, hasher, block, blocks, history, simulation, simulator>>
    BY <1>1 DEF tableVars, chainVars, simVars
  <1>4. ControlInv'
    BY <1>1, <1>2 DEF SequencerInv, ControlInv, Held
  <1>5. EnvInv'
    <2>1. \A f \in Executors : Told(f)' = Told(f)
      BY <1>1, <1>2 DEF Told
    <2> QED BY <1>1, <2>1, EnvFrame DEF SequencerInv
  <1>6. ChainInv'
    <2>1. op \in {"block", "checkpoint"} /\ pc \in {"dispatch", "drain", "transition"} =>
             block = [slot |-> Len(blocks), parent |-> Len(blocks), txns |-> hasher.current]
      BY DEF SequencerInv, ChainInv
    <2> QED BY <1>1, <1>2, <2>1, ChainFrame DEF SequencerInv
  <1>7. CommitInv'
    <2>1. t \in Tickets /\ running[e].index = IndexOf(t) /\ running[e].index \in DOMAIN history
      BY <1>1, RunningFacts
    <2>2. /\ Tickets' = Tickets
          /\ \A u : IndexOf(u)' = IndexOf(u) /\ Done(u)' = Done(u)
      BY <1>2 DEF IndexOf, Tickets, Done
    <2>3. \A u : Reported(u)' <=> Reported(u) \/ u = t
      BY CommitPoolInv DEF Reported
    <2> HIDE DEF t
    <2>4. committed' = committed \cup {IndexOf(t)}
      BY <1>1, <2>1
    <2>5. ASSUME NEW u \in Tickets
          PROVE  IndexOf(u) \in committed' <=> Done(u) \/ Reported(u)'
      <3>1. IndexOf(u) = IndexOf(t) <=> u = t
        BY <2>1, Places DEF SequencerInv
      <3>2. IndexOf(u) \in committed <=> Done(u) \/ Reported(u)
        BY DEF SequencerInv, CommitInv
      <3> QED BY <2>3, <2>4, <3>1, <3>2
    <2>6. committed' \subseteq DOMAIN history' /\ 1..(Len(history') - Len(stream')) \subseteq committed'
      BY <1>2, <2>1, <2>4 DEF SequencerInv, CommitInv
    <2> QED BY <2>2, <2>5, <2>6 DEF CommitInv
  <1> QED BY <1>4, <1>5, <1>6, <1>7, CommitPoolInv, CommitStoreInv DEF ThreadsInv

(* An executor fails: the transaction it ran is nobody's, and it takes no other. *)
LEMMA FailInv ==
    ASSUME SequencerInv, NEW e \in Executors, Fail(e)
    PROVE  ThreadsInv'
  <1> DEFINE t == running[e].ticket
             m == [kind |-> "failed", id |-> e, ticket |-> NoTicket]
  <1>1. /\ running[e] # NoWork /\ events' = Append(events, m)
        /\ running' = [running EXCEPT ![e] = NoWork]
        /\ worker' = [worker EXCEPT ![e] = "failed"]
        /\ inbox' = [inbox EXCEPT ![e] = <<>>]
        /\ UNCHANGED <<tableVars, pc, op, available, env, chainVars, stateVars, simVars>>
    BY DEF Fail
  <1>2. /\ t \in taken /\ Works(e, t) /\ Runs(running[e], t)
    BY <1>1, RunningFacts
  <1>3. PoolTypes
    BY DEF SequencerInv, PoolInv
  <1>4. m \in Outcome /\ m.kind = "failed"
    BY DEF Outcome, NoTicket
  <1> HIDE DEF m, t
  <1>5. UNCHANGED <<taken, stream, nodes, unsent, hasher, block, blocks, history, committed, store,
                    simulation, simulator>>
    BY <1>1 DEF tableVars, chainVars, stateVars, simVars
  <1>6. \A u : IndexOf(u)' = IndexOf(u)
    BY <1>5 DEF IndexOf
  <1>7. /\ running' \in [Executors -> [ticket : Nat, index : Nat]] /\ running'[e] = NoWork
        /\ \A f \in Executors \ {e} : running'[f] = running[f]
    BY <1>1, <1>3 DEF NoWork, NoTicket, PoolTypes
  <1>8. /\ inbox' \in [Executors -> Seq(Message)] /\ inbox'[e] = <<>>
        /\ \A f \in Executors \ {e} : inbox'[f] = inbox[f]
    <2>1. <<>> \in Seq(Message)
      BY EmptyQueue
    <2> QED BY <1>1, <1>3, <2>1 DEF PoolTypes
  <1>9. /\ worker' \in [Executors -> {"alive", "failed", "exited"}] /\ worker'[e] = "failed"
        /\ \A f \in Executors \ {e} : worker'[f] = worker[f]
    BY <1>1, <1>3 DEF PoolTypes
  <1>10. /\ events \in Seq(Outcome) /\ events' \in Seq(Outcome) /\ Len(events) \in Nat
         /\ DOMAIN events = 1..Len(events)
         /\ DOMAIN events' = 1..(Len(events) + 1) /\ events'[Len(events) + 1] = m
         /\ \A i \in 1..Len(events) : events'[i] = events[i]
    BY <1>1, <1>3, <1>4, Longer DEF PoolTypes
  <1>11. ASSUME NEW f, NEW u PROVE Reports(events', f, u) <=> Reports(events, f, u)
    <2>1. Reports(Append(events, m), f, u) <=>
            Reports(events, f, u) \/ (m.kind = "completed" /\ m.id = f /\ m.ticket = u)
      BY <1>4, <1>10, ReportsAppend
    <2> QED BY <1>1, <1>4, <2>1
  <1>12. \A u : ~Runs(running'[e], u) /\ ~Queues(inbox'[e], u)
    <2>1. DOMAIN inbox'[e] = {}
      BY <1>8
    <2> QED BY <1>7, <2>1 DEF Runs, Queues
  <1>13. PoolTypes'
    BY <1>1, <1>3, <1>7, <1>8, <1>9, <1>10 DEF PoolTypes
  <1>14. ASSUME NEW f \in Executors PROVE ChannelInv(f)'
    <2>1. ChannelInv(f)
      BY DEF SequencerInv, PoolInv
    <2>2. CASE f = e
      <3>1. DOMAIN inbox'[f] = {} /\ running'[f] = NoWork
        BY <1>7, <1>8, <2>2
      <3> QED BY <3>1 DEF ChannelInv
    <2>3. CASE f # e
      <3>1. inbox'[f] = inbox[f] /\ running'[f] = running[f] /\ worker'[f] = worker[f]
        BY <1>7, <1>8, <1>9, <2>3
      <3> QED BY <1>5, <1>6, <2>1, <3>1 DEF ChannelInv
    <2> QED BY <2>2, <2>3
  <1>15. EventsInv'
    <2>1. EventsInv
      BY DEF SequencerInv, PoolInv
    <2>2. \A i \in DOMAIN events' : events'[i].kind = "completed" =>
             i \in DOMAIN events /\ events'[i] = events[i]
      BY <1>4, <1>10
    <2> QED BY <1>5, <2>1, <2>2 DEF EventsInv
  <1>16. ASSUME NEW f \in Executors, NEW u \in taken', Works(f, u)'
         PROVE  /\ Works(f, u) /\ f \notin available' /\ worker'[f] # "failed"
                /\ ~(Queues(inbox'[f], u) /\ Runs(running'[f], u))
                /\ ~(Reports(events', f, u) /\ (Queues(inbox'[f], u) \/ Runs(running'[f], u)))
    <2>1. CASE f = e
      <3>1. Reports(events, e, u) /\ Works(e, u)
        BY <1>11, <1>12, <1>16, <2>1 DEF Works
      <3>2. u = t
        BY <1>2, <3>1, OnePlace DEF SequencerInv
      <3> QED BY <1>2, <3>1, <3>2, OnePlace DEF SequencerInv
    <2>2. CASE f # e
      <3>1. /\ Reports(events', f, u) <=> Reports(events, f, u)
            /\ inbox'[f] = inbox[f] /\ running'[f] = running[f] /\ worker'[f] = worker[f]
        BY <1>7, <1>8, <1>9, <1>11, <2>2
      <3>2. Works(f, u)
        BY <1>16, <3>1 DEF Works
      <3> QED BY <1>1, <3>1, <3>2, OnePlace DEF SequencerInv
    <2> QED BY <2>1, <2>2
  <1>17. PoolInv'
    <2>1. \A f \in available' : f # e
      BY <1>1, <1>2, OnePlace DEF SequencerInv
    <2>2. \A f \in available' : worker'[f] # "failed"
      BY <1>1, <1>3, <1>9, <2>1 DEF SequencerInv, PoolInv, WorkInv, PoolTypes
    <2>3. WorkInv'
      BY <1>5, <1>16, <2>2, WorkShrinks DEF SequencerInv
    <2> QED BY <1>13, <1>14, <1>15, <2>3 DEF PoolInv
  <1>18. EnvInv'
    <2> SUFFICES ASSUME NEW f \in Executors, worker'[f] # "failed"
                 PROVE  /\ \A i \in DOMAIN inbox'[f] : inbox'[f][i].kind = "block" =>
                              inbox'[f][i].index = env'[f] + i
                        /\ env'[f] + BlocksQueued(inbox'[f]) = Told(f)'
      BY DEF EnvInv
    <2>1. f # e
      BY <1>9
    <2>2. inbox'[f] = inbox[f] /\ worker'[f] = worker[f] /\ env'[f] = env[f] /\ Told(f)' = Told(f)
      BY <1>1, <1>5, <1>8, <1>9, <2>1 DEF Told
    <2> QED BY <2>2 DEF SequencerInv, EnvInv
  <1>19. ControlInv'
    BY <1>1, <1>5 DEF SequencerInv, ControlInv, Held
  <1>20. ChainInv'
    <2>1. op \in {"block", "checkpoint"} /\ pc \in {"dispatch", "drain", "transition"} =>
             block = [slot |-> Len(blocks), parent |-> Len(blocks), txns |-> hasher.current]
      BY DEF SequencerInv, ChainInv
    <2> QED BY <1>1, <1>5, <2>1, ChainFrame DEF SequencerInv
  <1>21. CommitInv'
    <2>1. /\ Tickets' = Tickets
          /\ \A u : IndexOf(u)' = IndexOf(u) /\ Done(u)' = Done(u) /\ Reported(u)' = Reported(u)
      BY <1>5, <1>11 DEF IndexOf, Tickets, Done, Reported
    <2> QED BY <1>5, <2>1 DEF SequencerInv, CommitInv
  <1>22. StoreInv'
    BY <1>1, <1>5, StoreFrame DEF SequencerInv
  <1> QED BY <1>17, <1>18, <1>19, <1>20, <1>21, <1>22 DEF ThreadsInv
=============================================================================
