--------------------------- MODULE OrderingTable ---------------------------
(***************************************************************************)
(* The input-ordered account dependency table of the sequencer             *)
(* (processor/src/sequencer/order.rs).  One drain epoch of the table is a  *)
(* dependency graph over tickets: Register adds the next transaction of    *)
(* the input stream, TakeReady hands a transaction without unfinished      *)
(* predecessors to the caller, Complete finishes a transaction that was    *)
(* handed out, Reset ends the epoch once everything has completed.         *)
(*                                                                         *)
(* Tickets are the indices of the node arena.  The arena of the code is    *)
(* indexed from 0, TLA+ sequences from 1; a ticket here is the code's      *)
(* ticket plus one, and 0 stands for the absent ticket (Option::None).     *)
(* The payload of a ticket is its element of the stream: the code moves it *)
(* along with the ticket, so blocked and ready hold tickets only.          *)
(***************************************************************************)
EXTENDS Integers, Sequences, FiniteSets, Functions

CONSTANTS Account,        \* account addresses
          Request,        \* transactions: the accounts each writes and reads
          MaxRegistered   \* bound on the tickets of one epoch

(***************************************************************************)
(* Sanitization rejects duplicate static account keys, so a transaction    *)
(* accesses an account either for writing or for reading.                  *)
(***************************************************************************)
ASSUME RequestAssumption ==
    \A r \in Request : /\ r.writes \in SUBSET Account
                       /\ r.reads \in SUBSET Account
                       /\ r.writes \cap r.reads = {}

ASSUME MaxRegisteredAssumption == MaxRegistered \in Nat

VARIABLES accounts,     \* per account: last unfinished writer, readers after it
          nodes,        \* the arena: predecessor count and dependents
          blocked,      \* tickets whose payload waits for predecessors
          ready,        \* dependency-free tickets awaiting an executor
          outstanding,  \* number of registered, uncompleted tickets
          stream,       \* the transactions registered in this epoch, in order
          taken         \* tickets handed out by TakeReady, not completed yet

tableVars == <<accounts, nodes, blocked, ready, outstanding, stream, taken>>

(* Sentinel predecessor count of a completed node (usize::MAX in the code). *)
COMPLETE == -1

NoTicket == 0

Tickets == DOMAIN nodes

Done(t) == nodes[t].predecessors = COMPLETE

Unfinished == {t \in Tickets : ~Done(t)}

(* Two transactions conflict when one writes an account the other accesses. *)
Conflict(r, s) ==
    \/ r.writes \cap (s.writes \cup s.reads) # {}
    \/ r.reads \cap s.writes # {}

-----------------------------------------------------------------------------
EmptyFrontier == [last_writer |-> NoTicket, readers |-> {}]

TableInit ==
    /\ accounts = [a \in Account |-> EmptyFrontier]
    /\ nodes = <<>>
    /\ blocked = {}
    /\ ready = <<>>
    /\ outstanding = 0
    /\ stream = <<>>
    /\ taken = {}

(* The last writer of an account, unless it is absent or already complete. *)
LiveWriter(a) == {w \in {accounts[a].last_writer} : w # NoTicket /\ ~Done(w)}

LiveReaders(a) == {r \in accounts[a].readers : ~Done(r)}

(* What a new transaction waits for: the live writer of every account it    *)
(* accesses and the live readers of every account it writes.                *)
Predecessors(req) ==
    (UNION {LiveWriter(a) : a \in req.writes \cup req.reads})
        \cup (UNION {LiveReaders(a) : a \in req.writes})

(* Mutant of NextFrontier: a read takes the last writer out of the frontier. *)
NextFrontierTaken(a, t, req) ==
    CASE a \in req.writes -> [last_writer |-> t, readers |-> {}]
      [] a \in req.reads -> [last_writer |-> NoTicket,
                             readers |-> accounts[a].readers \cup {t}]
      [] OTHER -> accounts[a]

(* The frontier of account a once ticket t with request req is registered.  *)
NextFrontier(a, t, req) ==
    CASE a \in req.writes -> [last_writer |-> t, readers |-> {}]
      [] a \in req.reads ->
            [last_writer |-> IF LiveWriter(a) = {} THEN NoTicket
                                                   ELSE accounts[a].last_writer,
             readers |-> accounts[a].readers \cup {t}]
      [] OTHER -> accounts[a]

(* Registers a transaction after every earlier accepted transaction. *)
Register(req) ==
    LET ticket == Len(nodes) + 1
        preds == Predecessors(req)
    IN  /\ Len(nodes) < MaxRegistered
        /\ accounts' = [a \in Account |-> NextFrontier(a, ticket, req)]
        /\ nodes' = Append([t \in Tickets |->
                              IF t \in preds
                              THEN [nodes[t] EXCEPT !.dependents = @ \cup {ticket}]
                              ELSE nodes[t]],
                           [predecessors |-> Cardinality(preds), dependents |-> {}])
        /\ blocked' = IF preds # {} THEN blocked \cup {ticket} ELSE blocked
        /\ ready' = IF preds # {} THEN ready ELSE Append(ready, ticket)
        /\ outstanding' = outstanding + 1
        /\ stream' = Append(stream, req)
        /\ UNCHANGED taken

(* Takes the next dependency-free transaction for dispatch. *)
TakeReady ==
    /\ ready # <<>>
    /\ ready' = Tail(ready)
    /\ taken' = taken \cup {Head(ready)}
    /\ UNCHANGED <<accounts, nodes, blocked, outstanding, stream>>

(* The members of a set of tickets in ascending order.  Dependents are      *)
(* pushed when they register, so their list is ascending.                   *)
Ascending(S) ==
    {s \in [1..Cardinality(S) -> S] :
        /\ Range(s) = S
        /\ \A i, j \in DOMAIN s : i < j => s[i] < s[j]}

(* Mutant of Released: any completed predecessor releases. *)
ReleasedEarly(t) == {d \in nodes[t].dependents : d \in blocked}

(* The dependents of t whose last unfinished predecessor is t. *)
Released(t) ==
    {d \in nodes[t].dependents : nodes[d].predecessors = 1 /\ d \in blocked}

(* Completes a ticket: marks its node, takes its dependents, counts each of *)
(* them down and makes the ones that reach zero ready.                      *)
Complete(t) ==
    /\ nodes' = [d \in Tickets |->
                   IF d = t THEN [predecessors |-> COMPLETE, dependents |-> {}]
                   ELSE IF d \in nodes[t].dependents
                   THEN [nodes[d] EXCEPT !.predecessors = @ - 1]
                   ELSE nodes[d]]
    /\ outstanding' = outstanding - 1
    /\ blocked' = blocked \ Released(t)
    /\ \E s \in Ascending(Released(t)) : ready' = ready \o s
    /\ taken' = taken \ {t}
    /\ UNCHANGED <<accounts, stream>>

(* Ends the epoch: clears the arena and the account frontiers. *)
Reset ==
    /\ accounts' = [a \in Account |-> EmptyFrontier]
    /\ nodes' = <<>>
    /\ blocked' = {}
    /\ ready' = <<>>
    /\ stream' = <<>>
    /\ taken' = {}
    /\ UNCHANGED outstanding

(* The callers of the table complete only what they took, and reset it when *)
(* nothing is outstanding.                                                  *)
TableNext ==
    \/ \E req \in Request : Register(req)
    \/ TakeReady
    \/ \E t \in taken : Complete(t)
    \/ outstanding = 0 /\ Reset

TableSpec == TableInit /\ [][TableNext]_tableVars

-----------------------------------------------------------------------------
TableTypeOK ==
    /\ accounts \in [Account -> [last_writer : Nat, readers : SUBSET Nat]]
    /\ nodes \in Seq([predecessors : Nat \cup {COMPLETE}, dependents : SUBSET Nat])
    /\ blocked \subseteq Tickets
    /\ ready \in Seq(Tickets)
    /\ outstanding \in Nat
    /\ stream \in Seq(Request)
    /\ Len(stream) = Len(nodes)
    /\ taken \subseteq Tickets

(***************************************************************************)
(* A transaction that is ready or handed out has no unfinished conflicting *)
(* transaction before it in the stream: "every conflict containing a write *)
(* follows the input stream".  A dependency is recorded only on the latest *)
(* writer and the readers after it, so this rests on the whole chain.      *)
(***************************************************************************)
ConflictsFollowStream ==
    \A p \in Unfinished : \A t \in Range(ready) \cup taken :
        p < t => ~Conflict(stream[p], stream[t])

(***************************************************************************)
(* Transactions handed out at the same time never conflict.                *)
(***************************************************************************)
TakenDisjoint ==
    \A s, t \in taken : s # t => ~Conflict(stream[s], stream[t])

(***************************************************************************)
(* Every uncompleted ticket is in exactly one of blocked, ready and taken, *)
(* and outstanding counts them: nothing is lost or queued twice, and a     *)
(* drain that waits for outstanding = 0 waits for all of it.               *)
(***************************************************************************)
NothingLost ==
    /\ blocked \cap Range(ready) = {}
    /\ blocked \cap taken = {}
    /\ Range(ready) \cap taken = {}
    /\ IsInjective(ready)
    /\ blocked \cup Range(ready) \cup taken = Unfinished
    /\ outstanding = Cardinality(Unfinished)

(***************************************************************************)
(* A blocked ticket waits, directly or through other blocked tickets, for  *)
(* one that is ready or handed out: the table never deadlocks itself.      *)
(* Stated on the lowest blocked ticket of a table with nothing else.       *)
(***************************************************************************)
BlockedHasCause == blocked # {} => Range(ready) \cup taken # {}

(***************************************************************************)
(* Non-conflicting transactions stay parallel: a ticket is blocked only if *)
(* some unfinished earlier transaction conflicts with it.                  *)
(***************************************************************************)
BlockedOnlyByConflict ==
    \A t \in blocked : \E p \in Unfinished :
        p < t /\ Conflict(stream[p], stream[t])

-----------------------------------------------------------------------------
(* The tickets that t directly waits for. *)
Waits(t) == {p \in Tickets : t \in nodes[p].dependents}

Frontiers ==
    \A x \in Account :
        LET w == accounts[x].last_writer
        IN  /\ w # NoTicket => w \in Tickets /\ x \in stream[w].writes
            /\ \A r \in accounts[x].readers : r \in Tickets /\ x \in stream[r].reads
            /\ \A t \in Unfinished :
                   /\ x \in stream[t].writes => t <= w
                   /\ x \in stream[t].reads => t < w \/ t \in accounts[x].readers

Edges ==
    /\ \A p \in Tickets : \A t \in nodes[p].dependents :
           /\ t \in Unfinished
           /\ p \in Unfinished
           /\ p < t
           /\ Conflict(stream[p], stream[t])
    /\ \A t \in Unfinished : /\ nodes[t].predecessors = Cardinality(Waits(t))
                             /\ t \in blocked <=> Waits(t) # {}

EdgesCover ==
    \A p, t \in Unfinished :
        p < t /\ Conflict(stream[p], stream[t]) =>
            \E q \in Waits(t) : q = p \/ (p < q /\ Conflict(stream[p], stream[q]))

StreamOrder ==
    \A p \in Unfinished, t \in Tickets :
        p < t /\ Conflict(stream[p], stream[t]) => t \in blocked

(***************************************************************************)
(* The inductive invariant behind the theorems of OrderingTableProofs.     *)
(* The frontier of an account names its last writer and every unfinished   *)
(* reader after it; the two directions of an edge agree, so a predecessor  *)
(* count is the number of tickets waited for; every conflict between two   *)
(* unfinished tickets is covered by a direct edge, or by one from a ticket *)
(* that itself follows the earlier of the two; and no ticket leaves        *)
(* blocked while an earlier conflicting ticket is unfinished.              *)
(***************************************************************************)
TableInv ==
    /\ TableTypeOK
    /\ NothingLost
    /\ Frontiers
    /\ Edges
    /\ EdgesCover
    /\ StreamOrder
=============================================================================
