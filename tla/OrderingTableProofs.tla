------------------------ MODULE OrderingTableProofs ------------------------
(***************************************************************************)
(* Proofs about the ordering table, for every set of accounts, every set   *)
(* of transactions and every number of tickets.                            *)
(***************************************************************************)
EXTENDS OrderingTable, FiniteSetTheorems, SequenceTheorems, TLAPS

Node == [predecessors : Nat \cup {COMPLETE}, dependents : SUBSET Nat]

(* The members of a set with one element are equal. *)
LEMMA OneElement ==
    ASSUME NEW S, IsFiniteSet(S), Cardinality(S) = 1, NEW x \in S, NEW y \in S
    PROVE  x = y
  <1>1. PICK z : S = {z}
    BY FS_Singleton
  <1> QED
    BY <1>1

(* Tickets are an interval, so every set of tickets is finite. *)
LEMMA TicketSetsFinite ==
    ASSUME TableTypeOK
    PROVE  /\ Tickets = 1..Len(nodes)
           /\ Len(nodes) \in Nat
           /\ \A S : S \subseteq Tickets => IsFiniteSet(S) /\ Cardinality(S) \in Nat
  <1>1. Tickets = 1..Len(nodes) /\ Len(nodes) \in Nat
    BY DEF TableTypeOK, Tickets
  <1>2. IsFiniteSet(Tickets)
    BY <1>1, FS_Interval
  <1>3. ASSUME NEW S, S \subseteq Tickets
        PROVE  IsFiniteSet(S) /\ Cardinality(S) \in Nat
    BY <1>2, <1>3, FS_Subset, FS_CardinalityType
  <1> QED
    BY <1>1, <1>3

(* Conflicts go through an account: one of the two writes it. *)
LEMMA ConflictAccount ==
    ASSUME NEW r \in Request, NEW s \in Request
    PROVE  Conflict(r, s) <=>
             \E x \in Account : \/ x \in r.writes /\ x \in s.writes \cup s.reads
                                \/ x \in r.reads /\ x \in s.writes
  BY RequestAssumption DEF Conflict

-----------------------------------------------------------------------------
(* What an epoch starts with satisfies the invariant. *)
LEMMA TableInitInv == TableInit => TableInv
  <1> SUFFICES ASSUME TableInit PROVE TableInv
    OBVIOUS
  <1>1. Tickets = {} /\ Unfinished = {} /\ Range(ready) = {}
    BY DEF TableInit, Tickets, Unfinished, Range
  <1>2. TableTypeOK
    <2>1. EmptyFrontier \in [last_writer : Nat, readers : SUBSET Nat]
      BY DEF EmptyFrontier, NoTicket
    <2> QED
      BY <2>1, <1>1 DEF TableInit, TableTypeOK
  <1>3. NothingLost
    BY <1>1, FS_EmptySet DEF TableInit, NothingLost, IsInjective
  <1>4. Frontiers
    BY <1>1 DEF TableInit, Frontiers, EmptyFrontier
  <1>5. Edges /\ EdgesCover /\ StreamOrder
    BY <1>1 DEF Edges, EdgesCover, StreamOrder
  <1> QED
    BY <1>2, <1>3, <1>4, <1>5 DEF TableInv

-----------------------------------------------------------------------------
(* The last writer of an account is unfinished while anything before it     *)
(* that accesses the account is.                                            *)
LEMMA LastWriterLive ==
    ASSUME TableInv, NEW x \in Account, NEW t \in Unfinished,
           x \in stream[t].writes \cup stream[t].reads,
           t <= accounts[x].last_writer
    PROVE  LET w == accounts[x].last_writer
           IN  /\ LiveWriter(x) = {w} /\ w \in Unfinished
               /\ w = t \/ (t < w /\ Conflict(stream[t], stream[w]))
  <1> DEFINE w == accounts[x].last_writer
  <1>0. Tickets = 1..Len(nodes) /\ Len(nodes) \in Nat /\ w \in Nat
    BY TicketSetsFinite DEF TableInv, TableTypeOK
  <1>1. \A u \in Tickets : stream[u] \in Request
    BY <1>0 DEF TableInv, TableTypeOK
  <1>2. t \in Tickets
    BY DEF Unfinished
  <1>3. w # NoTicket
    BY <1>0, <1>2 DEF NoTicket
  <1>4. w \in Tickets /\ x \in stream[w].writes
    BY <1>3 DEF TableInv, Frontiers
  <1>5. w = t \/ (t < w /\ Conflict(stream[t], stream[w]))
    BY <1>0, <1>1, <1>2, <1>4, ConflictAccount
  <1>6. w \in Unfinished
    <2>1. CASE w = t
      BY <2>1
    <2>2. CASE t < w /\ Conflict(stream[t], stream[w])
      BY <1>4, <2>2 DEF TableInv, StreamOrder, NothingLost
    <2> QED
      BY <1>5, <2>1, <2>2
  <1> QED
    BY <1>3, <1>5, <1>6 DEF LiveWriter, Unfinished

(* Before Register: what the new transaction waits for is unfinished and    *)
(* conflicts with it, and it waits for something if anything conflicts.     *)
LEMMA PredecessorsExact ==
    ASSUME TableInv, NEW req \in Request
    PROVE  /\ Predecessors(req) \subseteq Unfinished
           /\ \A p \in Predecessors(req) : Conflict(stream[p], req)
           /\ \A p \in Unfinished : Conflict(stream[p], req) =>
                 \E q \in Predecessors(req) :
                    q = p \/ (p < q /\ Conflict(stream[p], stream[q]))
  <1> USE DEF TableInv
  <1>0. Tickets = 1..Len(nodes) /\ Len(nodes) \in Nat
    BY TicketSetsFinite
  <1>1. \A t \in Tickets : stream[t] \in Request
    BY <1>0 DEF TableTypeOK
  <1>2. ASSUME NEW p \in Predecessors(req)
        PROVE  p \in Unfinished /\ Conflict(stream[p], req)
    <2>1. CASE \E x \in req.writes \cup req.reads : p \in LiveWriter(x)
      <3>1. PICK x \in req.writes \cup req.reads : p \in LiveWriter(x)
        BY <2>1
      <3>2. x \in Account
        BY RequestAssumption
      <3>3. p = accounts[x].last_writer /\ p # NoTicket /\ ~Done(p)
        BY <3>1 DEF LiveWriter
      <3>4. p \in Tickets /\ x \in stream[p].writes
        BY <3>2, <3>3 DEF Frontiers
      <3> QED
        BY <1>1, <3>2, <3>3, <3>4, ConflictAccount DEF Unfinished
    <2>2. CASE \E x \in req.writes : p \in LiveReaders(x)
      <3>1. PICK x \in req.writes : p \in LiveReaders(x)
        BY <2>2
      <3>2. x \in Account
        BY RequestAssumption
      <3>3. p \in Tickets /\ x \in stream[p].reads /\ ~Done(p)
        BY <3>1, <3>2 DEF LiveReaders, Frontiers
      <3> QED
        BY <1>1, <3>2, <3>3, ConflictAccount DEF Unfinished
    <2> QED
      BY <2>1, <2>2 DEF Predecessors
  <1>3. ASSUME NEW p \in Unfinished, Conflict(stream[p], req)
        PROVE  \E q \in Predecessors(req) :
                  q = p \/ (p < q /\ Conflict(stream[p], stream[q]))
    <2>1. p \in Tickets /\ stream[p] \in Request
      BY <1>1 DEF Unfinished
    <2>2. PICK x \in Account :
             \/ x \in stream[p].writes /\ x \in req.writes \cup req.reads
             \/ x \in stream[p].reads /\ x \in req.writes
      BY <1>3, <2>1, ConflictAccount
    <2> DEFINE w == accounts[x].last_writer
    <2>3. w \in Nat
      BY DEF TableTypeOK
    <2>4. /\ x \in stream[p].writes => p <= w
          /\ x \in stream[p].reads => p < w \/ p \in accounts[x].readers
      BY DEF Frontiers
    <2>5. CASE p <= w
      <3>1. /\ w \in LiveWriter(x)
            /\ w = p \/ (p < w /\ Conflict(stream[p], stream[w]))
        BY <2>2, <2>5, LastWriterLive
      <3>2. w \in Predecessors(req)
        BY <2>2, <3>1 DEF Predecessors
      <3> QED
        BY <3>1, <3>2
    <2>6. CASE ~(p <= w)
      <3>1. p \in accounts[x].readers /\ x \in req.writes
        BY <1>0, <2>1, <2>2, <2>3, <2>4, <2>6
      <3>2. p \in LiveReaders(x)
        BY <3>1 DEF LiveReaders, Unfinished
      <3> QED
        BY <3>1, <3>2 DEF Predecessors
    <2> QED
      BY <2>5, <2>6
  <1> QED
    BY <1>2, <1>3

(* What registering req as ticket n does to the state the invariant speaks of. *)
Registered(req, n) ==
    /\ TableTypeOK'
    /\ n \in Nat /\ n \notin Tickets /\ (\A t \in Tickets : t < n)
    /\ Tickets' = Tickets \cup {n}
    /\ \A t \in Tickets : stream'[t] = stream[t] /\ stream[t] \in Request
    /\ stream'[n] = req
    /\ \A t \in Tickets : nodes'[t].predecessors = nodes[t].predecessors
    /\ nodes'[n].predecessors = Cardinality(Predecessors(req))
    /\ \A t \in Tickets : nodes'[t].dependents =
              IF t \in Predecessors(req) THEN nodes[t].dependents \cup {n}
                                         ELSE nodes[t].dependents
    /\ nodes'[n].dependents = {}
    /\ Unfinished' = Unfinished \cup {n}
    /\ \A t \in Tickets : (Waits(t))' = Waits(t)
    /\ (Waits(n))' = Predecessors(req)
    /\ Range(ready') = IF Predecessors(req) = {} THEN Range(ready) \cup {n}
                                                     ELSE Range(ready)

(* What Register changes, ticket by ticket. *)
LEMMA RegisterEffect ==
    ASSUME TableInv, NEW req \in Request, Register(req), NEW n, n = Len(nodes) + 1
    PROVE  Registered(req, n)
  <1> DEFINE P == Predecessors(req)
             base == [t \in Tickets |-> IF t \in P
                        THEN [nodes[t] EXCEPT !.dependents = @ \cup {n}] ELSE nodes[t]]
             new == [predecessors |-> Cardinality(P), dependents |-> {}]
  <1>1. TableTypeOK
    BY DEF TableInv
  <1>2. Tickets = 1..Len(nodes) /\ Len(nodes) \in Nat
    BY <1>1, TicketSetsFinite
  <1>3. P \subseteq Unfinished /\ Unfinished \subseteq Tickets
    BY PredecessorsExact DEF Unfinished
  <1>4. Cardinality(P) \in Nat
    BY <1>1, <1>3, TicketSetsFinite
  <1>5. nodes \in Seq(Node) /\ nodes \in [1..Len(nodes) -> Node]
    <2>1. nodes \in Seq(Node)
      BY <1>1 DEF TableTypeOK, Node
    <2> QED
      BY <2>1, LenProperties
  <1>6. n \in Nat /\ n \notin Tickets /\ (\A t \in Tickets : t < n)
    BY <1>2
  <1>7. base \in [1..Len(nodes) -> Node]
    <2> SUFFICES ASSUME NEW t \in Tickets
                 PROVE  base[t] \in Node
      BY <1>2
    <2>1. nodes[t] \in Node
      BY <1>2, <1>5
    <2> QED
      BY <2>1, <1>6 DEF Node
  <1>8. base \in Seq(Node) /\ Len(base) = Len(nodes)
    BY <1>2, <1>7
  <1>9. new \in Node
    BY <1>4 DEF Node
  <1>10. nodes' = Append(base, new)
    BY DEF Register
  <1> HIDE DEF base, new
  <1>11. /\ nodes' \in Seq(Node) /\ Len(nodes') = n
         /\ nodes'[n] = new
         /\ \A t \in Tickets : nodes'[t] = base[t]
    BY <1>2, <1>8, <1>9, <1>10
  <1>12. Tickets' = Tickets \cup {n}
    BY <1>2, <1>11 DEF Tickets
  <1>13. stream \in Seq(Request) /\ Len(stream) = Len(nodes) /\ stream' = Append(stream, req)
    BY <1>1 DEF TableTypeOK, Register
  <1>14. /\ stream' \in Seq(Request) /\ Len(stream') = n /\ stream'[n] = req
         /\ \A t \in Tickets : stream'[t] = stream[t] /\ stream[t] \in Request
    BY <1>2, <1>13
  <1>15. nodes'[n].predecessors = Cardinality(P) /\ nodes'[n].dependents = {}
    BY <1>11 DEF new
  <1>16. \A t \in Tickets :
            /\ nodes'[t].predecessors = nodes[t].predecessors
            /\ nodes'[t].dependents = IF t \in P THEN nodes[t].dependents \cup {n}
                                                 ELSE nodes[t].dependents
    <2> SUFFICES ASSUME NEW t \in Tickets
                 PROVE  /\ nodes'[t].predecessors = nodes[t].predecessors
                        /\ nodes'[t].dependents = IF t \in P THEN nodes[t].dependents \cup {n}
                                                             ELSE nodes[t].dependents
      BY Zenon
    <2>1. nodes[t] \in Node /\ nodes'[t] = base[t]
      BY <1>2, <1>5, <1>11
    <2> QED
      BY <2>1 DEF base, Node
  <1>17. Unfinished' = Unfinished \cup {n}
    <2>1. ~(Done(n))'
      BY <1>4, <1>15 DEF Done, COMPLETE
    <2>2. \A t \in Tickets : (Done(t))' <=> Done(t)
      BY <1>16, Zenon DEF Done
    <2> QED
      BY <1>6, <1>12, <2>1, <2>2 DEF Unfinished
  <1>18. \A p \in Tickets : \A t \in nodes[p].dependents : t \in Tickets
    BY DEF TableInv, Edges, Unfinished
  <1>19. \A t \in Tickets : (Waits(t))' = Waits(t)
    BY <1>6, <1>12, <1>15, <1>16, Zenon DEF Waits
  <1>20. (Waits(n))' = P
    BY <1>3, <1>6, <1>12, <1>15, <1>16, <1>18, Zenon DEF Waits
  <1>21. /\ ready \in Seq(Tickets)
         /\ ready' = IF P # {} THEN ready ELSE Append(ready, n)
    BY <1>1 DEF TableTypeOK, Register
  <1>22. Range(ready') = IF P = {} THEN Range(ready) \cup {n} ELSE Range(ready)
    <2>1. CASE P # {}
      BY <1>21, <2>1
    <2>2. CASE P = {}
      <3>1. DOMAIN ready = 1..Len(ready) /\ Len(ready) \in Nat
        BY <1>21
      <3>2. /\ DOMAIN ready' = DOMAIN ready \cup {Len(ready) + 1}
            /\ \A i \in DOMAIN ready : ready'[i] = ready[i]
            /\ ready'[Len(ready) + 1] = n
        BY <1>21, <2>2, <3>1
      <3> QED
        BY <2>2, <3>2 DEF Range
    <2> QED
      BY <2>1, <2>2
  <1>23. TableTypeOK'
    <2>1. accounts' \in [Account -> [last_writer : Nat, readers : SUBSET Nat]]
      <3> SUFFICES ASSUME NEW x \in Account
                   PROVE  NextFrontier(x, n, req) \in [last_writer : Nat, readers : SUBSET Nat]
        BY DEF Register
      <3>1. accounts[x] \in [last_writer : Nat, readers : SUBSET Nat]
        BY <1>1 DEF TableTypeOK
      <3> QED
        BY <1>6, <3>1 DEF NextFrontier, NoTicket
    <2>2. blocked' \subseteq Tickets' /\ taken' \subseteq Tickets'
      BY <1>1, <1>12 DEF TableTypeOK, Register
    <2>3. ready' \in Seq(Tickets')
      <3>1. ready \in Seq(Tickets') /\ n \in Tickets'
        BY <1>12, <1>21, SeqMonotonic
      <3> QED
        BY <1>21, <3>1
    <2>4. outstanding' \in Nat
      BY <1>1 DEF TableTypeOK, Register
    <2> QED
      BY <2>1, <2>2, <2>3, <2>4, <1>11, <1>14 DEF TableTypeOK, Node
  <1> QED
    BY <1>6, <1>12, <1>14, <1>15, <1>16, <1>17, <1>19, <1>20, <1>22, <1>23, Zenon
    DEF Registered

(* Registering a transaction preserves the invariant. *)
LEMMA RegisterInv ==
    ASSUME TableInv, NEW req \in Request, Register(req)
    PROVE  TableInv'
  <1>0. PICK n : n = Len(nodes) + 1
    OBVIOUS
  <1> DEFINE P == Predecessors(req)
  <1>1. /\ TableTypeOK'
        /\ n \in Nat /\ n \notin Tickets /\ (\A t \in Tickets : t < n)
        /\ Tickets' = Tickets \cup {n}
        /\ \A t \in Tickets : stream'[t] = stream[t] /\ stream[t] \in Request
        /\ stream'[n] = req
        /\ \A t \in Tickets : nodes'[t].predecessors = nodes[t].predecessors
        /\ nodes'[n].predecessors = Cardinality(P)
        /\ \A t \in Tickets : nodes'[t].dependents =
              IF t \in P THEN nodes[t].dependents \cup {n} ELSE nodes[t].dependents
        /\ nodes'[n].dependents = {}
        /\ Unfinished' = Unfinished \cup {n}
        /\ \A t \in Tickets : (Waits(t))' = Waits(t)
        /\ (Waits(n))' = P
        /\ Range(ready') = IF P = {} THEN Range(ready) \cup {n} ELSE Range(ready)
    <2>1. Registered(req, n)
      BY <1>0, RegisterEffect
    <2> QED
      BY <2>1 DEF Registered
  <1>2. /\ P \subseteq Unfinished
        /\ \A p \in P : Conflict(stream[p], req)
        /\ \A p \in Unfinished : Conflict(stream[p], req) =>
              \E q \in P : q = p \/ (p < q /\ Conflict(stream[p], stream[q]))
    BY PredecessorsExact
  <1>3. Unfinished \subseteq Tickets
    BY DEF Unfinished
  <1>4. /\ accounts' = [x \in Account |-> NextFrontier(x, n, req)]
        /\ blocked' = IF P # {} THEN blocked \cup {n} ELSE blocked
        /\ ready' = IF P # {} THEN ready ELSE Append(ready, n)
        /\ outstanding' = outstanding + 1
        /\ taken' = taken
    BY <1>0 DEF Register
  <1>5. Tickets = 1..Len(nodes) /\ Len(nodes) \in Nat
    BY TicketSetsFinite DEF TableInv
  <1> HIDE DEF P
  <1>6. NothingLost'
    <2>1. blocked \subseteq Tickets /\ taken \subseteq Tickets /\ Range(ready) \subseteq Tickets
      BY DEF TableInv, TableTypeOK, Range
    <2>2. IsInjective(ready')
      <3>1. CASE P # {}
        BY <1>4, <3>1 DEF TableInv, NothingLost
      <3>2. CASE P = {}
        <4>1. ready \in Seq(Tickets) /\ ready' = Append(ready, n)
          BY <1>4, <3>2 DEF TableInv, TableTypeOK
        <4>2. /\ DOMAIN ready = 1..Len(ready) /\ Len(ready) \in Nat
              /\ DOMAIN ready' = DOMAIN ready \cup {Len(ready) + 1}
              /\ \A i \in DOMAIN ready : ready'[i] = ready[i] /\ ready[i] \in Tickets
              /\ ready'[Len(ready) + 1] = n
          BY <4>1
        <4> QED
          BY <1>1, <4>2 DEF IsInjective, TableInv, NothingLost
      <3> QED
        BY <3>1, <3>2
    <2>3. outstanding' = Cardinality(Unfinished')
      <3>1. IsFiniteSet(Unfinished) /\ outstanding = Cardinality(Unfinished)
        BY <1>3, TicketSetsFinite DEF TableInv, NothingLost
      <3> QED
        BY <1>1, <1>3, <1>4, <3>1, FS_AddElement, Zenon
    <2> QED
      BY <1>1, <1>4, <2>1, <2>2, <2>3 DEF TableInv, NothingLost
  <1>7. Frontiers'
    <2> SUFFICES ASSUME NEW x \in Account
                 PROVE  LET w == accounts'[x].last_writer
                        IN  /\ w # NoTicket => w \in Tickets' /\ x \in stream'[w].writes
                            /\ \A r \in accounts'[x].readers :
                                  r \in Tickets' /\ x \in stream'[r].reads
                            /\ \A t \in Unfinished' :
                                  /\ x \in stream'[t].writes => t <= w
                                  /\ x \in stream'[t].reads =>
                                        t < w \/ t \in accounts'[x].readers
      BY DEF Frontiers
    <2> DEFINE w == accounts[x].last_writer
    <2>1. w \in Nat /\ accounts[x].readers \subseteq Nat
      BY DEF TableInv, TableTypeOK
    <2>2. /\ w # NoTicket => w \in Tickets /\ x \in stream[w].writes
          /\ \A r \in accounts[x].readers : r \in Tickets /\ x \in stream[r].reads
          /\ \A t \in Unfinished :
                /\ x \in stream[t].writes => t <= w
                /\ x \in stream[t].reads => t < w \/ t \in accounts[x].readers
      BY DEF TableInv, Frontiers
    <2>3. req.writes \cap req.reads = {}
      BY RequestAssumption
    <2>4. CASE x \in req.writes
      <3>1. accounts'[x] = [last_writer |-> n, readers |-> {}]
        BY <1>4, <2>3, <2>4 DEF NextFrontier
      <3> QED
        BY <1>1, <1>3, <1>5, <2>3, <2>4, <3>1
    <2>5. CASE x \in req.reads /\ LiveWriter(x) = {}
      <3>1. accounts'[x] = [last_writer |-> NoTicket, readers |-> accounts[x].readers \cup {n}]
        BY <1>4, <2>3, <2>5, Zenon DEF NextFrontier
      <3>2. ASSUME NEW t \in Unfinished, x \in stream[t].writes \cup stream[t].reads
            PROVE  ~(t <= w)
        BY <2>5, <3>2, LastWriterLive
      <3>3. \A t \in Unfinished : /\ x \notin stream[t].writes
                                  /\ x \in stream[t].reads => t \in accounts[x].readers
        BY <1>3, <1>5, <2>1, <2>2, <3>2
      <3> QED
        BY <1>1, <1>3, <2>2, <2>3, <2>5, <3>1, <3>3
    <2>6. CASE x \in req.reads /\ LiveWriter(x) # {}
      <3>1. accounts'[x] = [last_writer |-> w, readers |-> accounts[x].readers \cup {n}]
        BY <1>4, <2>3, <2>6, Zenon DEF NextFrontier
      <3> QED
        BY <1>1, <1>3, <2>2, <2>3, <2>6, <3>1
    <2>7. CASE x \notin req.writes \cup req.reads
      <3>1. accounts'[x] = accounts[x]
        BY <1>4, <2>7 DEF NextFrontier
      <3> QED
        BY <1>1, <1>3, <2>2, <2>7, <3>1
    <2> QED
      BY <2>4, <2>5, <2>6, <2>7
  <1>8. Edges'
    <2>1. ASSUME NEW p \in Tickets', NEW t \in nodes'[p].dependents
          PROVE  /\ t \in Unfinished' /\ p \in Unfinished' /\ p < t
                 /\ Conflict(stream'[p], stream'[t])
      <3>1. p \in Tickets
        BY <1>1, <2>1
      <3>2. CASE t \in nodes[p].dependents
        BY <1>1, <1>3, <3>1, <3>2 DEF TableInv, Edges
      <3>3. CASE t = n /\ p \in P
        BY <1>1, <1>2, <3>1, <3>3
      <3> QED
        BY <1>1, <2>1, <3>1, <3>2, <3>3, Zenon
    <2>2. ASSUME NEW t \in Unfinished'
          PROVE  /\ nodes'[t].predecessors = Cardinality((Waits(t))')
                 /\ t \in blocked' <=> (Waits(t))' # {}
      <3>1. CASE t \in Unfinished
        BY <1>1, <1>3, <1>4, <3>1 DEF TableInv, Edges
      <3>2. CASE t = n
        <4>1. (Waits(t))' = P /\ nodes'[t].predecessors = Cardinality(P)
          BY <1>1, <3>2 DEF Waits
        <4> QED
          BY <1>1, <1>4, <3>2, <4>1 DEF TableInv, TableTypeOK
      <3> QED
        BY <1>1, <2>2, <3>1, <3>2
    <2> QED
      BY <2>1, <2>2 DEF Edges
  <1>9. EdgesCover'
    <2> SUFFICES ASSUME NEW p \in Unfinished', NEW t \in Unfinished',
                        p < t, Conflict(stream'[p], stream'[t])
                 PROVE  \E q \in (Waits(t))' :
                           q = p \/ (p < q /\ Conflict(stream'[p], stream'[q]))
      BY DEF EdgesCover
    <2>1. p \in Unfinished
      BY <1>1, <1>3, <1>5
    <2>2. CASE t = n
      <3>1. Conflict(stream[p], req)
        BY <1>1, <1>3, <2>1, <2>2
      <3>2. PICK q \in P : q = p \/ (p < q /\ Conflict(stream[p], stream[q]))
        BY <1>2, <2>1, <3>1
      <3>3. (Waits(t))' = P
        BY <1>1, <2>2 DEF Waits
      <3>4. \A p2 \in P : stream'[p2] = stream[p2]
        BY <1>1, <1>2, <1>3
      <3> QED
        BY <1>1, <1>3, <2>1, <3>2, <3>3, <3>4
    <2>3. CASE t \in Unfinished
      <3>1. PICK q \in Waits(t) : q = p \/ (p < q /\ Conflict(stream[p], stream[q]))
        BY <1>1, <1>3, <2>1, <2>3 DEF TableInv, EdgesCover
      <3>2. q \in Tickets
        BY DEF Waits
      <3> QED
        BY <1>1, <1>3, <2>1, <2>3, <3>1, <3>2
    <2> QED
      BY <1>1, <2>2, <2>3
  <1>10. StreamOrder'
    <2> SUFFICES ASSUME NEW p \in Unfinished', NEW t \in Tickets',
                        p < t, Conflict(stream'[p], stream'[t])
                 PROVE  t \in blocked'
      BY DEF StreamOrder
    <2>1. p \in Unfinished
      BY <1>1, <1>3, <1>5
    <2>2. CASE t = n
      <3>1. P # {}
        BY <1>1, <1>2, <1>3, <2>1, <2>2, Zenon
      <3> QED
        BY <1>4, <2>2, <3>1
    <2>3. CASE t \in Tickets
      BY <1>1, <1>3, <1>4, <2>1, <2>3 DEF TableInv, StreamOrder
    <2> QED
      BY <1>1, <2>2, <2>3
  <1> QED
    BY <1>1, <1>6, <1>7, <1>8, <1>9, <1>10 DEF TableInv

-----------------------------------------------------------------------------
(* Taking the first ready ticket preserves the invariant. *)
LEMMA TakeReadyInv ==
    ASSUME TableInv, TakeReady
    PROVE  TableInv'
  <1>1. /\ ready \in Seq(Tickets) /\ ready # <<>> /\ ready' = Tail(ready)
        /\ taken' = taken \cup {Head(ready)}
        /\ accounts' = accounts /\ nodes' = nodes /\ blocked' = blocked
        /\ outstanding' = outstanding /\ stream' = stream
    BY DEF TableInv, TableTypeOK, TakeReady
  <1>2. /\ DOMAIN ready = 1..Len(ready) /\ Len(ready) \in Nat /\ Len(ready) > 0
        /\ Head(ready) = ready[1] /\ Head(ready) \in Tickets
        /\ ready' \in Seq(Tickets)
        /\ DOMAIN ready' = 1..(Len(ready) - 1)
        /\ \A i \in DOMAIN ready' : ready'[i] = ready[i + 1]
    BY <1>1
  <1>3. Range(ready) = Range(ready') \cup {Head(ready)}
    <2>1. ASSUME NEW i \in DOMAIN ready
          PROVE  ready[i] \in Range(ready') \cup {Head(ready)}
      <3>1. CASE i = 1
        BY <1>2, <3>1
      <3>2. CASE i # 1
        <4>1. i - 1 \in DOMAIN ready' /\ ready'[i - 1] = ready[i]
          BY <1>2, <2>1, <3>2
        <4> QED
          BY <4>1 DEF Range
      <3> QED
        BY <3>1, <3>2
    <2>2. ASSUME NEW i \in DOMAIN ready'
          PROVE  ready'[i] \in Range(ready)
      <3>1. i + 1 \in DOMAIN ready
        BY <1>2, <2>2
      <3> QED
        BY <1>2, <2>2, <3>1 DEF Range
    <2>3. Head(ready) \in Range(ready)
      BY <1>2 DEF Range
    <2> QED
      BY <2>1, <2>2, <2>3 DEF Range
  <1>4. IsInjective(ready') /\ Head(ready) \notin Range(ready')
    <2>1. \A i, j \in DOMAIN ready : ready[i] = ready[j] => i = j
      BY DEF TableInv, NothingLost, IsInjective
    <2>2. ASSUME NEW i \in DOMAIN ready'
          PROVE  i + 1 \in DOMAIN ready /\ i + 1 # 1
      BY <1>2, <2>2
    <2>3. 1 \in DOMAIN ready
      BY <1>2
    <2>4. ASSUME NEW i \in DOMAIN ready', NEW j \in DOMAIN ready', ready'[i] = ready'[j]
          PROVE  i = j
      <3>1. ready[i + 1] = ready[j + 1]
        BY <1>2, <2>4
      <3>2. i + 1 = j + 1
        BY <2>1, <2>2, <3>1
      <3> QED
        BY <1>2, <3>2
    <2>5. \A i \in DOMAIN ready' : ready'[i] # Head(ready)
      BY <1>2, <2>1, <2>2, <2>3
    <2> QED
      BY <2>4, <2>5 DEF IsInjective, Range
  <1>5. Tickets' = Tickets /\ Unfinished' = Unfinished
    BY <1>1 DEF Tickets, Unfinished, Done
  <1>6. TableTypeOK'
    BY <1>1, <1>2, <1>5 DEF TableInv, TableTypeOK
  <1>7. NothingLost'
    BY <1>1, <1>3, <1>4, <1>5 DEF TableInv, NothingLost
  <1>8. Frontiers'
    BY <1>1, <1>5 DEF TableInv, Frontiers
  <1>9. Edges' /\ EdgesCover'
    <2>1. \A t : (Waits(t))' = Waits(t)
      BY <1>1 DEF Waits, Tickets
    <2> QED
      BY <1>1, <1>5, <2>1 DEF TableInv, Edges, EdgesCover
  <1>10. StreamOrder'
    BY <1>1, <1>5 DEF TableInv, StreamOrder
  <1> QED
    BY <1>6, <1>7, <1>8, <1>9, <1>10 DEF TableInv

(* Resetting a drained table establishes the invariant of a fresh one. *)
LEMMA ResetInv ==
    ASSUME TableInv, outstanding = 0, Reset
    PROVE  TableInv'
  <1>1. TableInit'
    BY DEF Reset, TableInit
  <1> QED
    BY <1>1, TableInitInv, PTL

-----------------------------------------------------------------------------
(* What completing ticket c does to the state the invariant speaks of. *)
Completed(c) ==
    /\ c \in Unfinished /\ c \notin blocked
    /\ \A p \in Unfinished : p < c => ~Conflict(stream[p], stream[c])
    /\ nodes[c].dependents \subseteq Unfinished \cap blocked /\ c \notin nodes[c].dependents
    /\ \A d \in nodes[c].dependents : nodes[d].predecessors = 1 <=> Waits(d) = {c}
    /\ Tickets' = Tickets
    /\ nodes' \in Seq(Node) /\ Len(nodes') = Len(nodes)
    /\ Unfinished' = Unfinished \ {c}
    /\ \A t \in Tickets : (Waits(t))' = Waits(t) \ {c}
    /\ \A t \in Tickets \ {c} : nodes'[t].dependents = nodes[t].dependents
    /\ nodes'[c].dependents = {}
    /\ \A t \in Unfinished \ {c} : nodes'[t].predecessors = Cardinality(Waits(t) \ {c})

(* What Complete changes, ticket by ticket. *)
LEMMA CompleteEffect ==
    ASSUME TableInv, NEW c \in taken, Complete(c)
    PROVE  Completed(c)
  <1> DEFINE D == nodes[c].dependents
  <1>1. TableTypeOK /\ Tickets = 1..Len(nodes) /\ Len(nodes) \in Nat
    BY TicketSetsFinite DEF TableInv
  <1>2. c \in Unfinished /\ c \notin blocked /\ c \in Tickets
    BY DEF TableInv, NothingLost, Unfinished
  <1>3. \A p \in Unfinished : p < c => ~Conflict(stream[p], stream[c])
    BY <1>2 DEF TableInv, StreamOrder
  <1>4. \A t \in Tickets : nodes[t] \in Node
    <2>1. nodes \in Seq(Node)
      BY <1>1 DEF TableTypeOK, Node
    <2> QED
      BY <1>1, <2>1
  <1>5. D \subseteq Unfinished /\ c \notin D
    BY <1>1, <1>2 DEF TableInv, Edges
  <1>6. \A t \in Unfinished : /\ t \in Tickets /\ IsFiniteSet(Waits(t))
                              /\ Cardinality(Waits(t)) \in Nat
                              /\ nodes[t].predecessors = Cardinality(Waits(t))
    BY <1>1, TicketSetsFinite DEF TableInv, Edges, Unfinished, Waits
  <1>7. \A t \in Tickets : c \in Waits(t) <=> t \in D
    BY <1>2 DEF Waits
  <1>8. ASSUME NEW d \in D
        PROVE  /\ d \in blocked
               /\ Cardinality(Waits(d) \ {c}) = nodes[d].predecessors - 1
               /\ Cardinality(Waits(d) \ {c}) \in Nat
               /\ nodes[d].predecessors = 1 <=> Waits(d) = {c}
    <2>1. d \in Unfinished /\ d \in Tickets /\ c \in Waits(d)
      BY <1>5, <1>6, <1>7
    <2>2. d \in blocked
      BY <2>1 DEF TableInv, Edges
    <2>3. /\ IsFiniteSet(Waits(d) \ {c})
          /\ Cardinality(Waits(d) \ {c}) = Cardinality(Waits(d)) - 1
      BY <1>6, <2>1, FS_RemoveElement, Zenon
    <2>4. Cardinality(Waits(d) \ {c}) \in Nat
      BY <2>3, FS_CardinalityType
    <2>5. Cardinality(Waits(d)) = 1 => Waits(d) = {c}
      BY <1>6, <2>1, OneElement
    <2>6. Waits(d) = {c} => Cardinality(Waits(d)) = 1
      BY FS_Singleton
    <2> QED
      BY <1>6, <2>1, <2>2, <2>3, <2>4, <2>5, <2>6
  <1>9. nodes' = [d \in Tickets |->
                    IF d = c THEN [predecessors |-> COMPLETE, dependents |-> {}]
                    ELSE IF d \in D THEN [nodes[d] EXCEPT !.predecessors = @ - 1]
                    ELSE nodes[d]]
    BY DEF Complete
  <1>10. /\ Tickets' = Tickets
         /\ nodes'[c] = [predecessors |-> COMPLETE, dependents |-> {}]
         /\ \A t \in Tickets \ {c} :
               /\ nodes'[t].dependents = nodes[t].dependents
               /\ nodes'[t].predecessors = IF t \in D THEN nodes[t].predecessors - 1
                                                      ELSE nodes[t].predecessors
    BY <1>2, <1>4, <1>9 DEF Tickets, Node
  <1>11. \A t \in Tickets : nodes'[t] \in Node
    <2> SUFFICES ASSUME NEW t \in Tickets PROVE nodes'[t] \in Node
      OBVIOUS
    <2>1. CASE t = c
      BY <1>10, <2>1 DEF Node, COMPLETE
    <2>2. CASE t # c /\ t \in D
      <3>1. nodes[t].predecessors - 1 \in Nat
        BY <1>8, <2>2, Zenon
      <3>2. nodes'[t] = [nodes[t] EXCEPT !.predecessors = @ - 1]
        BY <1>9, <2>2
      <3> QED
        BY <1>4, <3>1, <3>2 DEF Node
    <2>3. CASE t # c /\ t \notin D
      BY <1>4, <1>9, <2>3
    <2> QED
      BY <2>1, <2>2, <2>3
  <1>12. nodes' \in Seq(Node) /\ Len(nodes') = Len(nodes)
    <2>1. nodes' \in [1..Len(nodes) -> Node]
      BY <1>1, <1>9, <1>11, Zenon
    <2> QED
      BY <1>1, <2>1
  <1>13. Unfinished' = Unfinished \ {c}
    <2>1. ASSUME NEW t \in Tickets, t # c
          PROVE  nodes'[t].predecessors = COMPLETE <=> nodes[t].predecessors = COMPLETE
      <3>1. CASE t \in D
        <4>1. nodes[t].predecessors - 1 \in Nat /\ nodes[t].predecessors \in Nat
          BY <1>5, <1>6, <1>8, <3>1, Zenon
        <4> QED
          BY <1>10, <2>1, <3>1, <4>1 DEF COMPLETE
      <3>2. CASE t \notin D
        BY <1>10, <2>1, <3>2
      <3> QED
        BY <3>1, <3>2
    <2>2. nodes'[c].predecessors = COMPLETE
      BY <1>10
    <2> QED
      BY <1>2, <1>10, <2>1, <2>2 DEF Unfinished, Done
  <1>14. \A t \in Tickets : (Waits(t))' = Waits(t) \ {c}
    BY <1>2, <1>10 DEF Waits
  <1>15. ASSUME NEW t \in Unfinished \ {c}
         PROVE  nodes'[t].predecessors = Cardinality(Waits(t) \ {c})
    <2>1. CASE t \in D
      BY <1>6, <1>8, <1>10, <2>1
    <2>2. CASE t \notin D
      <3>1. Waits(t) \ {c} = Waits(t)
        BY <1>6, <1>7, <2>2
      <3> QED
        BY <1>6, <1>10, <2>2, <3>1, Zenon
    <2> QED
      BY <2>1, <2>2
  <1>16. /\ D \subseteq Unfinished \cap blocked
         /\ \A d \in D : nodes[d].predecessors = 1 <=> Waits(d) = {c}
    BY <1>5, <1>8, Zenon
  <1>17. /\ \A t \in Tickets \ {c} : nodes'[t].dependents = nodes[t].dependents
         /\ nodes'[c].dependents = {}
    BY <1>10
  <1>18. \A t \in Unfinished \ {c} : nodes'[t].predecessors = Cardinality(Waits(t) \ {c})
    BY <1>15
  <1>19. Tickets' = Tickets
    BY <1>10
  <1> QED
    BY <1>2, <1>3, <1>5, <1>12, <1>13, <1>14, <1>16, <1>17, <1>18, <1>19 DEF Completed

(* The dependents released by a completion, appended to ready, stay distinct. *)
LEMMA AppendDistinct ==
    ASSUME NEW T, NEW q \in Seq(T), IsInjective(q),
           NEW R \in SUBSET T, IsFiniteSet(R), R \cap Range(q) = {},
           NEW s \in Ascending(R), \A x \in T : x \in Nat
    PROVE  /\ q \o s \in Seq(T)
           /\ IsInjective(q \o s)
           /\ Range(q \o s) = Range(q) \cup R
  <1>1. /\ s \in [1..Cardinality(R) -> R] /\ Range(s) = R
        /\ \A i, j \in DOMAIN s : i < j => s[i] < s[j]
    BY DEF Ascending
  <1>2. Cardinality(R) \in Nat
    BY FS_CardinalityType
  <1>3. s \in Seq(T) /\ Len(s) = Cardinality(R)
    BY <1>1, <1>2
  <1>4. /\ q \o s \in Seq(T) /\ Len(q) \in Nat /\ Len(s) \in Nat
        /\ DOMAIN q = 1..Len(q) /\ DOMAIN s = 1..Len(s)
        /\ DOMAIN (q \o s) = 1..(Len(q) + Len(s))
        /\ \A i \in 1..(Len(q) + Len(s)) :
              (q \o s)[i] = IF i <= Len(q) THEN q[i] ELSE s[i - Len(q)]
    <2>1. /\ q \o s \in Seq(T) /\ Len(q \o s) = Len(q) + Len(s)
          /\ \A i \in 1..(Len(q) + Len(s)) :
                (q \o s)[i] = IF i <= Len(q) THEN q[i] ELSE s[i - Len(q)]
      BY <1>3, ConcatProperties, Zenon
    <2>2. Len(q) \in Nat /\ DOMAIN q = 1..Len(q) /\ Len(s) \in Nat /\ DOMAIN s = 1..Len(s)
      BY <1>3
    <2>3. DOMAIN (q \o s) = 1..Len(q \o s)
      BY <2>1, LenProperties
    <2> QED
      BY <2>1, <2>2, <2>3
  <1>5. \A i, j \in DOMAIN s : s[i] = s[j] => i = j
    <2> SUFFICES ASSUME NEW i \in DOMAIN s, NEW j \in DOMAIN s, s[i] = s[j], i # j
                 PROVE  FALSE
      OBVIOUS
    <2>1. s[i] \in Nat /\ s[j] \in Nat
      BY <1>1
    <2>2. i < j \/ j < i
      BY <1>4
    <2>3. s[i] < s[j] \/ s[j] < s[i]
      BY <1>1, <2>2
    <2> QED
      BY <2>1, <2>3
  <1>6. Range(q \o s) = Range(q) \cup R
    BY <1>1, <1>3, RangeConcatenation
  <1>7. ASSUME NEW i \in 1..(Len(q) + Len(s)), NEW j \in 1..(Len(q) + Len(s)),
               (q \o s)[i] = (q \o s)[j], i <= Len(q), ~(j <= Len(q))
        PROVE  FALSE
    <2>1. q[i] \in Range(q)
      <3>1. i \in DOMAIN q
        BY <1>4, <1>7
      <3> QED
        BY <3>1 DEF Range
    <2>2. j - Len(q) \in DOMAIN s
      BY <1>4, <1>7
    <2>3. s[j - Len(q)] \in R
      BY <1>1, <2>2
    <2> QED
      BY <1>4, <1>7, <2>1, <2>3
  <1>8. ASSUME NEW i \in 1..(Len(q) + Len(s)), NEW j \in 1..(Len(q) + Len(s)),
               (q \o s)[i] = (q \o s)[j]
        PROVE  i = j
    <2>1. CASE i <= Len(q) /\ j <= Len(q)
      <3>1. i \in DOMAIN q /\ j \in DOMAIN q /\ q[i] = q[j]
        BY <1>4, <1>8, <2>1
      <3> QED
        BY <3>1 DEF IsInjective
    <2>2. CASE ~(i <= Len(q)) /\ ~(j <= Len(q))
      <3>1. i - Len(q) \in DOMAIN s /\ j - Len(q) \in DOMAIN s
        BY <1>4, <2>2
      <3>2. s[i - Len(q)] = s[j - Len(q)]
        BY <1>4, <1>8, <2>2
      <3>3. i - Len(q) = j - Len(q)
        BY <1>5, <3>1, <3>2
      <3> QED
        BY <1>4, <3>3
    <2> QED
      BY <1>7, <1>8, <2>1, <2>2
  <1> QED
    BY <1>4, <1>6, <1>8, Zenon DEF IsInjective

(* Completing a ticket that was handed out preserves the invariant. *)
LEMMA CompleteInv ==
    ASSUME TableInv, NEW c \in taken, Complete(c)
    PROVE  TableInv'
  <1> DEFINE D == nodes[c].dependents
             R == Released(c)
  <1>1. Completed(c)
    BY CompleteEffect
  <1>2. /\ c \in Unfinished /\ c \notin blocked
        /\ \A p \in Unfinished : p < c => ~Conflict(stream[p], stream[c])
        /\ D \subseteq Unfinished \cap blocked /\ c \notin D
        /\ \A d \in D : nodes[d].predecessors = 1 <=> Waits(d) = {c}
        /\ Tickets' = Tickets
        /\ Unfinished' = Unfinished \ {c}
        /\ \A t \in Tickets : (Waits(t))' = Waits(t) \ {c}
        /\ \A t \in Tickets \ {c} : nodes'[t].dependents = nodes[t].dependents
        /\ nodes'[c].dependents = {}
        /\ \A t \in Unfinished \ {c} : nodes'[t].predecessors = Cardinality(Waits(t) \ {c})
    BY <1>1 DEF Completed
  <1>3. /\ blocked' = blocked \ R /\ taken' = taken \ {c}
        /\ outstanding' = outstanding - 1
        /\ accounts' = accounts /\ stream' = stream
    BY DEF Complete
  <1>4. /\ R \subseteq D /\ R \subseteq blocked
        /\ \A t \in D : t \in R <=> Waits(t) = {c}
    BY <1>2 DEF Released
  <1>5. /\ TableTypeOK /\ Unfinished \subseteq Tickets
        /\ Tickets = 1..Len(nodes) /\ Len(nodes) \in Nat
    BY TicketSetsFinite DEF TableInv, Unfinished
  <1>6. PICK s \in Ascending(R) : ready' = ready \o s
    BY DEF Complete
  <1>7. /\ ready' \in Seq(Tickets) /\ IsInjective(ready')
        /\ Range(ready') = Range(ready) \cup R
    <2>1. ready \in Seq(Tickets) /\ IsInjective(ready) /\ blocked \cap Range(ready) = {}
      BY DEF TableInv, TableTypeOK, NothingLost
    <2>2. R \subseteq Tickets /\ R \cap Range(ready) = {} /\ \A x \in Tickets : x \in Nat
      <3> HIDE DEF D, R
      <3>1. R \subseteq Tickets
        BY <1>2, <1>4, <1>5
      <3>2. R \cap Range(ready) = {}
        BY <1>4, <2>1
      <3>3. \A x \in Tickets : x \in Nat
        BY <1>5
      <3> QED
        BY <3>1, <3>2, <3>3
    <2>3. IsFiniteSet(R)
      BY <1>5, <2>2, TicketSetsFinite
    <2> QED
      BY <1>6, <2>1, <2>2, <2>3, AppendDistinct
  <1> HIDE DEF D, R
  <1>8. outstanding' = Cardinality(Unfinished') /\ outstanding' \in Nat
    <2>1. IsFiniteSet(Unfinished) /\ outstanding = Cardinality(Unfinished)
      BY <1>5, TicketSetsFinite DEF TableInv, NothingLost
    <2>2. /\ IsFiniteSet(Unfinished \ {c})
          /\ Cardinality(Unfinished \ {c}) = Cardinality(Unfinished) - 1
      BY <1>2, <2>1, FS_RemoveElement
    <2>3. Cardinality(Unfinished \ {c}) \in Nat
      BY <2>2, FS_CardinalityType
    <2> QED
      BY <1>2, <1>3, <2>1, <2>2, <2>3
  <1>9. TableTypeOK'
    <2>1. nodes' \in Seq(Node) /\ Len(nodes') = Len(nodes)
      BY <1>1 DEF Completed
    <2> QED
      BY <1>2, <1>3, <1>5, <1>7, <1>8, <2>1 DEF TableTypeOK, Node
  <1>10. NothingLost'
    BY <1>2, <1>3, <1>4, <1>7, <1>8 DEF TableInv, NothingLost
  <1>11. Frontiers'
    BY <1>2, <1>3 DEF TableInv, Frontiers
  <1>12. Edges'
    <2>1. ASSUME NEW p \in Tickets', NEW t \in nodes'[p].dependents
          PROVE  /\ t \in Unfinished' /\ p \in Unfinished' /\ p < t
                 /\ Conflict(stream'[p], stream'[t])
      <3>1. p \in Tickets \ {c} /\ t \in nodes[p].dependents
        BY <1>2, <2>1
      <3>2. t \in Unfinished /\ p \in Unfinished /\ p < t /\ Conflict(stream[p], stream[t])
        BY <3>1 DEF TableInv, Edges
      <3>3. t # c
        BY <1>2, <3>2
      <3> QED
        BY <1>2, <1>3, <3>1, <3>2, <3>3
    <2>2. ASSUME NEW t \in Unfinished'
          PROVE  /\ nodes'[t].predecessors = Cardinality((Waits(t))')
                 /\ t \in blocked' <=> (Waits(t))' # {}
      <3>1. t \in Unfinished \ {c} /\ t \in Tickets
        BY <1>2, <1>5
      <3>2. nodes'[t].predecessors = Cardinality((Waits(t))')
        BY <1>2, <3>1
      <3>3. t \in blocked <=> Waits(t) # {}
        BY <3>1 DEF TableInv, Edges
      <3>4. c \in Waits(t) <=> t \in D
        BY <1>2, <1>5 DEF Waits, D
      <3> QED
        BY <1>2, <1>3, <1>4, <3>1, <3>2, <3>3, <3>4
    <2> QED
      BY <2>1, <2>2 DEF Edges
  <1>13. ASSUME NEW p \in Unfinished', NEW t \in Unfinished,
                p < t, Conflict(stream[p], stream[t])
         PROVE  \E q \in Waits(t) \ {c} :
                   q = p \/ (p < q /\ Conflict(stream[p], stream[q]))
    <2>1. PICK q \in Waits(t) : q = p \/ (p < q /\ Conflict(stream[p], stream[q]))
      BY <1>2, <1>13 DEF TableInv, EdgesCover
    <2>2. q # c
      BY <1>2, <2>1
    <2> QED
      BY <2>1, <2>2
  <1>14. EdgesCover'
    <2> SUFFICES ASSUME NEW p \in Unfinished', NEW t \in Unfinished',
                        p < t, Conflict(stream[p], stream[t])
                 PROVE  \E q \in (Waits(t))' :
                           q = p \/ (p < q /\ Conflict(stream[p], stream[q]))
      BY <1>3 DEF EdgesCover
    <2>1. t \in Unfinished /\ (Waits(t))' = Waits(t) \ {c}
      BY <1>2, <1>5
    <2> QED
      BY <1>13, <2>1
  <1>15. StreamOrder'
    <2> SUFFICES ASSUME NEW p \in Unfinished', NEW t \in Tickets,
                        p < t, Conflict(stream[p], stream[t]), t \in R
                 PROVE  FALSE
      BY <1>2, <1>3 DEF StreamOrder, TableInv
    <2>1. Waits(t) = {c} /\ t \in Unfinished
      BY <1>2, <1>4
    <2> QED
      BY <1>13, <2>1
  <1> QED
    BY <1>9, <1>10, <1>11, <1>12, <1>14, <1>15 DEF TableInv

-----------------------------------------------------------------------------
(* Every step of the table preserves the invariant. *)
LEMMA TableStepInv == TableInv /\ [TableNext]_tableVars => TableInv'
  <1> SUFFICES ASSUME TableInv, [TableNext]_tableVars
               PROVE  TableInv'
    OBVIOUS
  <1>1. ASSUME NEW req \in Request, Register(req)
        PROVE  TableInv'
    BY <1>1, RegisterInv
  <1>2. CASE TakeReady
    BY <1>2, TakeReadyInv
  <1>3. ASSUME NEW t \in taken, Complete(t)
        PROVE  TableInv'
    BY <1>3, CompleteInv
  <1>4. CASE outstanding = 0 /\ Reset
    BY <1>4, ResetInv
  <1>5. CASE UNCHANGED tableVars
    <2>1. /\ accounts' = accounts /\ nodes' = nodes /\ blocked' = blocked
          /\ ready' = ready /\ outstanding' = outstanding
          /\ stream' = stream /\ taken' = taken
      BY <1>5 DEF tableVars
    <2>2. Tickets' = Tickets /\ Unfinished' = Unfinished /\ \A t : (Waits(t))' = Waits(t)
      BY <2>1 DEF Tickets, Unfinished, Done, Waits
    <2>3. TableTypeOK' /\ NothingLost'
      BY <2>1, <2>2 DEF TableInv, TableTypeOK, NothingLost
    <2>4. Frontiers' /\ StreamOrder'
      BY <2>1, <2>2 DEF TableInv, Frontiers, StreamOrder
    <2>5. Edges' /\ EdgesCover'
      BY <2>1, <2>2 DEF TableInv, Edges, EdgesCover
    <2> QED
      BY <2>3, <2>4, <2>5 DEF TableInv
  <1> QED
    BY <1>1, <1>2, <1>3, <1>4, <1>5 DEF TableNext

(***************************************************************************)
(* The table keeps its inductive invariant: register, take_ready, complete *)
(* and reset preserve it for any accounts, transactions and epoch length.  *)
(***************************************************************************)
THEOREM TableCorrect == TableSpec => []TableInv
  <1>1. TableInit => TableInv
    BY TableInitInv
  <1>2. TableInv /\ [TableNext]_tableVars => TableInv'
    BY TableStepInv
  <1> QED
    BY <1>1, <1>2, PTL DEF TableSpec

(* The state of the table is well typed in every reachable state. *)
THEOREM TableTyped == TableSpec => []TableTypeOK
  <1>1. TableInv => TableTypeOK
    BY DEF TableInv
  <1> QED
    BY <1>1, TableCorrect, PTL

(***************************************************************************)
(* What take_ready can hand out, or has handed out, never has an           *)
(* unfinished conflicting transaction before it in the input stream.       *)
(***************************************************************************)
THEOREM TableFollowsStream == TableSpec => []ConflictsFollowStream
  <1>1. TableInv => ConflictsFollowStream
    <2> SUFFICES ASSUME TableInv, NEW p \in Unfinished, NEW t \in Range(ready) \cup taken,
                        p < t, Conflict(stream[p], stream[t])
                 PROVE  FALSE
      BY DEF ConflictsFollowStream
    <2>1. t \in Tickets /\ t \notin blocked
      BY DEF TableInv, NothingLost, Unfinished
    <2> QED
      BY <2>1 DEF TableInv, StreamOrder
  <1> QED
    BY <1>1, TableCorrect, PTL

(* Conflict does not depend on the order of the two transactions. *)
LEMMA ConflictSymmetric == \A r, s : Conflict(r, s) <=> Conflict(s, r)
  BY DEF Conflict

(***************************************************************************)
(* Two transactions that take_ready handed out and complete has not seen   *)
(* yet never conflict: executors run them in parallel without locks.       *)
(***************************************************************************)
THEOREM TableHandsOutDisjoint == TableSpec => []TakenDisjoint
  <1>1. TableInv => TakenDisjoint
    <2> SUFFICES ASSUME TableInv, NEW s \in taken, NEW t \in taken, s # t,
                        Conflict(stream[s], stream[t])
                 PROVE  FALSE
      BY DEF TakenDisjoint
    <2>1. /\ s \in Unfinished /\ t \in Unfinished /\ s \in Tickets /\ t \in Tickets
          /\ s \notin blocked /\ t \notin blocked
      BY DEF TableInv, NothingLost, Unfinished
    <2>2. s \in Nat /\ t \in Nat
      BY <2>1, TicketSetsFinite DEF TableInv
    <2>3. s < t \/ t < s
      BY <2>2
    <2>4. Conflict(stream[t], stream[s])
      BY ConflictSymmetric
    <2> QED
      BY <2>1, <2>3, <2>4 DEF TableInv, StreamOrder
  <1> QED
    BY <1>1, TableCorrect, PTL

(***************************************************************************)
(* A registered transaction is in exactly one of blocked, ready and handed *)
(* out until it completes, and outstanding counts exactly those.           *)
(***************************************************************************)
THEOREM TableLosesNothing == TableSpec => []NothingLost
  <1>1. TableInv => NothingLost
    BY DEF TableInv
  <1> QED
    BY <1>1, TableCorrect, PTL

(***************************************************************************)
(* The table adds no dependency without a conflict: a transaction is       *)
(* blocked only behind an unfinished earlier one that conflicts with it.   *)
(***************************************************************************)
THEOREM TableStaysParallel == TableSpec => []BlockedOnlyByConflict
  <1>1. TableInv => BlockedOnlyByConflict
    <2> SUFFICES ASSUME TableInv, NEW t \in blocked
                 PROVE  \E p \in Unfinished : p < t /\ Conflict(stream[p], stream[t])
      BY DEF BlockedOnlyByConflict
    <2>1. t \in Unfinished
      BY DEF TableInv, NothingLost
    <2>2. PICK p \in Waits(t) : TRUE
      BY <2>1 DEF TableInv, Edges
    <2>3. p \in Tickets /\ t \in nodes[p].dependents
      BY DEF Waits
    <2> QED
      BY <2>3 DEF TableInv, Edges
  <1> QED
    BY <1>1, TableCorrect, PTL
=============================================================================
