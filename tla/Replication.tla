----------------------------- MODULE Replication -----------------------------
(***************************************************************************)
(* A follower that pulls a leader's ledger (replicator): the dispatcher    *)
(* and its connection workers, the client with its decoder, and what both  *)
(* engines do for it: block production, seals, checkpoints and resets      *)
(* (engine/src/pacemaker.rs, keeper/src/lib.rs).                           *)
(*                                                                         *)
(* The leader's blockstore is the sequence `log`; a BlockstorePosition is  *)
(* the number of records before it, and its superblock the number of seals *)
(* among them plus one.  A position at the end of a superblock and the one *)
(* at the start of the next are the same.  Records carry a unique id, and  *)
(* a seal or a checkpoint the state it claims, which is the number of      *)
(* transactions.  A block hash stands for the number of transactions in    *)
(* the block.  Signatures verify, so which side of the hand-off verifies a *)
(* batch does not matter.                                                  *)
(*                                                                         *)
(* Crashes are of the process: what was published is in the files.         *)
(***************************************************************************)
EXTENDS Integers, Sequences, SequencesExt

CONSTANTS
    Conns,          \* numbered connections, reused once both ends have left them
    Superblock,     \* blocks of a superblock
    Checkpoint,     \* blocks between checkpoints, 0 for none
    Lag,            \* capacity of the position broadcast
    MaxBatch,       \* MAX_BATCH_TRANSACTIONS
    MaxTries,       \* MAX_RECONNECT_ATTEMPTS
    Past,           \* the leader's records when the model starts
    Load,           \* transactions of each of the leader's blocks: its length bounds them
    MaxFaults       \* bound on leaders and followers that go down, lost connections and timeouts

ASSUME ReplicationAssumption ==
    /\ Conns \subseteq Nat
    /\ {Superblock, MaxBatch, MaxTries} \subseteq Nat \ {0}
    /\ {Checkpoint, Lag, MaxFaults} \subseteq Nat
    /\ Load \in Seq(Nat)

VARIABLES
    log,            \* leader: records published
    pubs,           \* leader: positions broadcast since it started
    oldest,         \* leader: oldest retained superblock
    due,            \* leader: seal or checkpoint queued behind the last block
    archived,       \* leader: superblocks whose directory holds a snapshot archive
    up,             \* leader: it is running
    worker,         \* leader: worker of every connection
    wire,           \* bytes on the way to the follower
    broken,         \* connections that failed
    client,         \* follower: the replication client
    queue,          \* follower: sequencer input
    base,           \* follower: position and count of the snapshot it started from
    own,            \* follower: records of its ledger since then
    hashed,         \* follower: transactions its sequencer hashed since the last block
    ownPub,         \* follower: how many of them are published
    stop,           \* follower: shutdown has been requested
    faults          \* faults so far

leader == <<log, pubs, oldest, due, archived, up>>
follower == <<queue, base, own, hashed, ownPub>>
vars == <<leader, worker, wire, broken, client, follower, stop, faults>>

-----------------------------------------------------------------------------
Count(kind, records) == Len(SelectSeq(records, LAMBDA r : r.kind = kind))

SuperblockOf(n) == 1 + Count("Seal", SubSeq(log, 1, n))

(* Position at which superblock s starts. *)
StartOf(s) == CHOOSE n \in 0..Len(log) :
                /\ SuperblockOf(n) = s
                /\ \A m \in 0..Len(log) : SuperblockOf(m) = s => n <= m

Record(kind, count, id) == [kind |-> kind, count |-> count, id |-> id]

NoRecord == Record("none", 0, 0)

NoWorker == [at |-> "none", req |-> 0, cur |-> 0, sampled |-> 0, heard |-> 0, reply |-> "none"]

NewClient == [at |-> "resume", conn |-> 0, tries |-> 0, batch |-> <<>>,
              draining |-> FALSE, held |-> NoRecord, exit |-> "none"]

(* The leader has sealed, archived and dropped its first superblock, and    *)
(* gone on.  The follower has restored that archive; or it is new, and the  *)
(* bound then leaves no room for faults.                                    *)
Init ==
    /\ log = Past
    /\ pubs = <<>> /\ oldest = 2 /\ due = "none" /\ archived = {2} /\ up = TRUE
    /\ worker = [c \in Conns |-> NoWorker]
    /\ wire = [c \in Conns |-> <<>>] /\ broken = {}
    /\ client = NewClient
    /\ queue = <<>> /\ own = <<>> /\ hashed = 0 /\ ownPub = 0
    /\ stop = FALSE
    /\ \/ base = [pos |-> StartOf(2), count |-> 0] /\ faults = 0
       \/ base = [pos |-> 0, count |-> 0] /\ faults = MaxFaults

-----------------------------------------------------------------------------
(* The leader.                                                              *)

(* Blockstore bytes are published and broadcast. *)
Publish(records) ==
    /\ log' = log \o records
    /\ pubs' = Append(pubs, Len(log'))

(* PaceMaker::handle: a boundary, which publishes the transactions before   *)
(* it, and behind which a seal or a checkpoint is queued where one is due.  *)
(* The block may find the ledger too large, and drop its oldest superblock. *)
LeaderBlock ==
    LET slot == 1 + Count("Block", log)
        next == Len(log) + 1
    IN  /\ up /\ due = "none" /\ slot <= Len(Load)
        /\ Publish(Append([i \in 1..Load[slot] |-> Record("Tx", 0, next + i - 1)],
                          Record("Block", Load[slot], next + Load[slot])))
        /\ due' = IF slot % Superblock = 0 THEN "Seal"
                  ELSE IF Checkpoint # 0 /\ slot % Checkpoint = 0 THEN "Checkpoint" ELSE "none"
        /\ oldest' \in {oldest, Min({oldest + 1, SuperblockOf(Len(log))})}
        /\ archived' = {s \in archived : s >= oldest'}
        /\ UNCHANGED <<up, worker, wire, broken, client, follower, stop, faults>>

(* finalize_superblock or checkpoint reaches the appender. *)
LeaderRecord ==
    /\ up /\ due # "none"
    /\ Publish(<<Record(due, Count("Tx", log), Len(log) + 1)>>)
    /\ due' = "none"
    /\ UNCHANGED <<oldest, archived, up, worker, wire, broken, client, follower, stop, faults>>

(* The archiver of finalize_superblock finishes, in any order. *)
Archive(s) ==
    /\ up /\ s \in Max({2, oldest})..SuperblockOf(Len(log)) /\ s \notin archived
    /\ archived' = archived \cup {s}
    /\ UNCHANGED <<log, pubs, oldest, due, up, worker, wire, broken, client, follower,
                   stop, faults>>

(* What a worker leaves behind: an answer its client has not read. *)
Closed(c) == [NoWorker EXCEPT !.reply = worker[c].reply]

(* The leader restarts from its published ledger and appends its startup    *)
(* reset; or it stops for good.                                             *)
LeaderRestart ==
    /\ up /\ faults < MaxFaults
    /\ log' = Append(log, Record("Reset", 0, Len(log) + 1))
    /\ pubs' = <<>> /\ due' = "none"
    /\ worker' = [c \in Conns |-> Closed(c)]
    /\ broken' = Conns
    /\ faults' = faults + 1
    /\ UNCHANGED <<oldest, archived, up, wire, client, follower, stop>>

LeaderStop ==
    /\ up /\ faults < MaxFaults
    /\ up' = FALSE
    /\ worker' = [c \in Conns |-> Closed(c)]
    /\ broken' = Conns
    /\ faults' = faults + 1
    /\ UNCHANGED <<log, pubs, oldest, due, archived, wire, client, follower, stop>>

-----------------------------------------------------------------------------
(* A connection worker.                                                     *)

(* The identity's lease lives as long as a worker that got past reserve. *)
Leased(c) == worker[c].at \in {"stream", "archive"}

Reply(c, at, reply) == worker' = [worker EXCEPT ![c] = [NoWorker EXCEPT !.at = at, !.reply = reply]]

SnapshotAction(c) ==
    IF archived = {} THEN Reply(c, "none", "Err") /\ UNCHANGED wire
    ELSE /\ Reply(c, "archive", "Snapshot")
         /\ wire' = [wire EXCEPT ![c] =
                       <<Record("Archive", Count("Tx", SubSeq(log, 1, StartOf(Max(archived)))),
                                StartOf(Max(archived)))>>]

(* Mutant: two streams of one follower are not told apart. *)
HandshakeUnreserved(c) ==
    LET w == worker[c] IN
    /\ w.at = "handshake"
    /\ IF w.req > w.sampled THEN Reply(c, "none", "Err") /\ UNCHANGED wire
       ELSE IF SuperblockOf(w.req) = 1 \/ SuperblockOf(w.req) < oldest THEN SnapshotAction(c)
       ELSE /\ worker' = [worker EXCEPT ![c] = [NoWorker EXCEPT !.at = "stream", !.reply = "Stream",
                                                               !.cur = Len(log), !.heard = w.heard]]
            /\ wire' = [wire EXCEPT ![c] = SubSeq(log, w.req + 1, Len(log))]
    /\ UNCHANGED <<leader, broken, client, follower, stop, faults>>

(* handshake, and the catch-up that follows it. *)
Handshake(c) ==
    LET w == worker[c] IN
    /\ w.at = "handshake"
    /\ IF \E d \in Conns \ {c} : Leased(d)
       THEN Reply(c, "none", "StreamActive") /\ UNCHANGED wire
       ELSE IF w.req > w.sampled THEN Reply(c, "none", "Err") /\ UNCHANGED wire
       ELSE IF SuperblockOf(w.req) = 1 \/ SuperblockOf(w.req) < oldest THEN SnapshotAction(c)
       ELSE /\ worker' = [worker EXCEPT ![c] = [NoWorker EXCEPT !.at = "stream", !.reply = "Stream",
                                                               !.cur = Len(log), !.heard = w.heard]]
            /\ wire' = [wire EXCEPT ![c] = SubSeq(log, w.req + 1, Len(log))]
    /\ UNCHANGED <<leader, broken, client, follower, stop, faults>>

ArchiveSent(c) ==
    /\ worker[c].at = "archive" /\ (wire[c] = <<>> \/ c \in broken)
    /\ worker' = [worker EXCEPT ![c] = Closed(c)]
    /\ UNCHANGED <<leader, wire, broken, client, follower, stop, faults>>

(* advance: fails when the superblock it has to finish is gone, and when    *)
(* the peer is.                                                             *)
Advanced(c, target, heard) ==
    LET cur == worker[c].cur
        lost == SuperblockOf(cur) < Min({oldest, SuperblockOf(target)})
    IN  IF target <= cur
        THEN worker' = [worker EXCEPT ![c].heard = heard] /\ UNCHANGED <<wire, broken>>
        ELSE IF lost \/ c \in broken
        THEN /\ worker' = [worker EXCEPT ![c] = Closed(c)]
             /\ broken' = broken \cup {c}
             /\ UNCHANGED wire
        ELSE /\ worker' = [worker EXCEPT ![c].cur = target, ![c].heard = heard]
             /\ wire' = [wire EXCEPT ![c] = @ \o SubSeq(log, cur + 1, target)]
             /\ UNCHANGED broken

(* Mutant: a worker that lagged goes on with the next position it gets,     *)
(* sending only the bytes of that update.                                   *)
FollowSkipping(c) ==
    LET behind == Len(pubs) - worker[c].heard IN
    /\ worker[c].at = "stream" /\ behind > 0 /\ c \notin broken
    /\ LET next == IF behind > Lag THEN Len(pubs) - Lag + 1 ELSE worker[c].heard + 1
           from == IF next = 1 THEN worker[c].cur ELSE pubs[next - 1]
       IN  /\ next <= Len(pubs)
           /\ worker' = [worker EXCEPT ![c].heard = next, ![c].cur = Max({@, pubs[next]})]
           /\ wire' = [wire EXCEPT ![c] = @ \o SubSeq(log, Max({from, worker[c].cur}) + 1, pubs[next])]
    /\ UNCHANGED <<leader, broken, client, follower, stop, faults>>

(* The loop over broadcast positions.  A receiver that lagged goes on from  *)
(* the oldest position still kept, after advancing to the latest.           *)
Follow(c) ==
    LET behind == Len(pubs) - worker[c].heard IN
    /\ worker[c].at = "stream" /\ behind > 0
    /\ IF behind > Lag
       THEN Advanced(c, Len(log), Len(pubs) - Lag)
       ELSE Advanced(c, pubs[worker[c].heard + 1], worker[c].heard + 1)
    /\ UNCHANGED <<leader, client, follower, stop, faults>>

(* The network loses a connection and some of what is on it. *)
Break(c) ==
    /\ c \notin broken /\ worker[c].at # "none" /\ faults < MaxFaults
    /\ \E n \in 0..Len(wire[c]) : wire' = [wire EXCEPT ![c] = SubSeq(@, 1, n)]
    /\ broken' = broken \cup {c}
    /\ faults' = faults + 1
    /\ UNCHANGED <<leader, worker, client, follower, stop>>

-----------------------------------------------------------------------------
(* The client.                                                              *)

Position == base.pos + Len(own)

Ended == client.at \in {"stopped", "failed", "mismatch", "diverged"}

(* resume: behind the barrier nothing is queued, and everything is synced. *)
Resume ==
    /\ client.at = "resume" /\ queue = <<>>
    /\ client' = [client EXCEPT !.at = "connect", !.tries = 0, !.conn = 0]
    /\ ownPub' = Len(own)
    /\ UNCHANGED <<leader, worker, wire, broken, queue, base, own, hashed, stop, faults>>

Retried(cl) ==
    [cl EXCEPT !.tries = @ + 1, !.at = IF cl.tries + 1 < MaxTries THEN "connect" ELSE "failed",
               !.conn = 0]

(* The dispatcher hands the connection to a worker, which subscribes to     *)
(* positions before it samples the current one.                             *)
Connect(c) ==
    /\ client.at = "connect" /\ up
    /\ worker[c].at = "none" /\ \A d \in Conns : worker[d].at = "none" => c <= d
    /\ worker' = [worker EXCEPT ![c] = [NoWorker EXCEPT !.at = "handshake", !.req = Position,
                                                        !.sampled = Len(log), !.heard = Len(pubs)]]
    /\ wire' = [wire EXCEPT ![c] = <<>>]
    /\ broken' = broken \ {c}
    /\ client' = [client EXCEPT !.at = "wait", !.conn = c]
    /\ UNCHANGED <<leader, follower, stop, faults>>

(* The client closes its end: what is on the way is not read. *)
Dropped == [wire EXCEPT ![client.conn] = <<>>]

ConnectFails ==
    /\ client.at = "connect" /\ ~up
    /\ client' = Retried(client)
    /\ UNCHANGED <<leader, worker, wire, broken, follower, stop, faults>>

(* The answer of the handshake, or a timeout.  The archive counts once it   *)
(* is complete: it is renamed, its seal recorded, and the host restarts.    *)
Answer ==
    LET c == client.conn
        reply == worker[c].reply
        whole == reply = "Snapshot" /\ wire[c] # <<>>
    IN  /\ client.at = "wait" /\ (reply # "none" \/ c \in broken)
        /\ \/ reply = "Stream" /\ client' = [client EXCEPT !.at = "read", !.draining = stop]
           \/ reply = "Err" /\ client' = [client EXCEPT !.at = "failed"]
           \/ reply = "StreamActive" /\ client' = Retried(client)
           \/ whole /\ client' = NewClient
           \/ reply = "Snapshot" /\ ~whole /\ client' = [client EXCEPT !.at = "failed"]
           \/ c \in broken /\ ~whole /\ client' = Retried(client)
        /\ base' = IF whole THEN [pos |-> Head(wire[c]).id, count |-> Head(wire[c]).count] ELSE base
        /\ own' = IF whole THEN <<>> ELSE own
        /\ hashed' = IF whole THEN 0 ELSE hashed
        /\ ownPub' = IF whole THEN 0 ELSE ownPub
        /\ stop' = (stop /\ ~whole)
        /\ wire' = IF reply = "Stream" THEN wire ELSE Dropped
        /\ worker' = [worker EXCEPT ![c].reply = "none"]
        /\ UNCHANGED <<leader, broken, queue, faults>>

(* A timed-out wait leaves the worker as it is: the server notices later.   *)
AnswerLate ==
    /\ client.at = "wait" /\ worker[client.conn].reply = "none" /\ faults < MaxFaults
    /\ client' = Retried(client)
    /\ broken' = broken \cup {client.conn}
    /\ wire' = Dropped
    /\ faults' = faults + 1
    /\ UNCHANGED <<leader, worker, follower, stop>>

(* Ingest::run: transactions are batched, and a batch is handed over when   *)
(* it is full and before any other record.                                  *)
Read ==
    LET c == client.conn
        r == Head(wire[c])
        batch == IF r.kind = "Tx" THEN Append(client.batch, r) ELSE client.batch
        hand == r.kind # "Tx" \/ Len(batch) >= MaxBatch
        sent == (IF hand THEN batch ELSE <<>>) \o (IF r.kind = "Block" THEN <<r>> ELSE <<>>)
    IN  /\ client.at = "read" /\ wire[c] # <<>>
        /\ wire' = [wire EXCEPT ![c] = Tail(@)]
        /\ queue' = queue \o sent
        /\ client' = [client EXCEPT !.batch = IF hand THEN <<>> ELSE batch,
                        !.held = IF r.kind \in {"Tx", "Block"} THEN NoRecord ELSE r,
                        !.at = IF r.kind = "Tx" THEN "read"
                               ELSE IF r.kind = "Block" THEN "block" ELSE "barrier"]
        /\ UNCHANGED <<leader, worker, broken, base, own, hashed, ownPub, stop, faults>>

(* The decoder ends with the transport: what it decoded is handed over. *)
Disconnected ==
    LET c == client.conn IN
    /\ client.at = "read" /\ wire[c] = <<>> /\ c \in broken
    /\ queue' = queue \o client.batch
    /\ client' = [client EXCEPT !.at = "resume", !.batch = <<>>]
    /\ UNCHANGED <<leader, worker, wire, broken, base, own, hashed, ownPub, stop, faults>>

(* consume is over: its end of the handoff closes, and the decoder is joined. *)
Leaving(exit) == [client EXCEPT !.at = "join", !.exit = exit, !.held = NoRecord]

(* Mutant: the client drains to no block. *)
BlockDoneUndrained ==
    /\ client.at = "block" /\ queue = <<>>
    /\ client' = [client EXCEPT !.at = "read"]
    /\ ownPub' = Len(own)
    /\ UNCHANGED <<leader, worker, wire, broken, queue, base, own, hashed, stop, faults>>

(* The block is acknowledged; a client that drains leaves here, synced. *)
BlockDone ==
    /\ client.at = "block" /\ queue = <<>>
    /\ client' = IF client.draining THEN Leaving("stopped") ELSE [client EXCEPT !.at = "read"]
    /\ ownPub' = Len(own)
    /\ UNCHANGED <<leader, worker, wire, broken, queue, base, own, hashed, stop, faults>>

BlockTimeout ==
    /\ client.at = "block" /\ queue # <<>> /\ faults < MaxFaults
    /\ client' = Leaving("failed")
    /\ faults' = faults + 1
    /\ UNCHANGED <<leader, worker, wire, broken, follower, stop>>

(* Seals, checkpoints and resets wait for the barrier.  A seal and a        *)
(* checkpoint must agree with the follower's own state.                     *)
BarrierDone ==
    LET r == client.held
        agrees == r.kind = "Reset" \/ r.count = base.count + Count("Tx", own)
    IN  /\ client.at = "barrier" /\ queue = <<>>
        /\ client' = IF agrees THEN [client EXCEPT !.at = "read", !.held = NoRecord]
                     ELSE Leaving("mismatch")
        /\ own' = IF agrees THEN Append(own, r) ELSE own
        /\ ownPub' = IF agrees THEN Len(own') ELSE ownPub
        /\ UNCHANGED <<leader, worker, wire, broken, queue, base, hashed, stop, faults>>

(* The decoder ends: at the next message, which nobody takes, at the end of *)
(* the stream, or when a silent leader exceeds the read timeout.            *)
Joined ==
    /\ client.at = "join"
    /\ client' = [client EXCEPT !.at = client.exit, !.batch = <<>>]
    /\ wire' = Dropped
    /\ broken' = broken \cup {client.conn}
    /\ UNCHANGED <<leader, worker, follower, stop, faults>>

(* The follower's sequencer, in order.  A block whose hash is not the one   *)
(* it computed stops it; another is appended and published.                 *)
Sequence ==
    LET r == Head(queue) IN
    /\ queue # <<>>
    /\ IF r.kind = "Block" /\ r.count # hashed
       THEN client' = [client EXCEPT !.at = "diverged"] /\ UNCHANGED follower
       ELSE /\ own' = Append(own, r)
            /\ queue' = Tail(queue)
            /\ hashed' = IF r.kind = "Block" THEN 0 ELSE hashed + 1
            /\ ownPub' = IF r.kind = "Block" THEN Len(own') ELSE ownPub
            /\ UNCHANGED <<client, base>>
    /\ UNCHANGED <<leader, worker, wire, broken, stop, faults>>

RequestShutdown ==
    /\ ~stop
    /\ stop' = TRUE
    /\ UNCHANGED <<leader, worker, wire, broken, client, follower, faults>>

SeeShutdown ==
    /\ client.at = "read" /\ stop /\ ~client.draining
    /\ client' = [client EXCEPT !.draining = TRUE]
    /\ UNCHANGED <<leader, worker, wire, broken, follower, stop, faults>>

(* The follower's process dies and restarts: its ledger is what it had      *)
(* published, and replay brings its accounts to the end of it.  The new     *)
(* sequencer hashes from the last block on.                                 *)
FollowerCrash ==
    /\ faults < MaxFaults /\ ~Ended
    /\ client' = NewClient
    /\ queue' = <<>>
    /\ own' = SubSeq(own, 1, ownPub)
    /\ hashed' = 0
    /\ broken' = broken \cup ({client.conn} \cap Conns)
    /\ wire' = IF client.conn \in Conns THEN Dropped ELSE wire
    /\ stop' = FALSE
    /\ faults' = faults + 1
    /\ UNCHANGED <<leader, worker, base, ownPub>>

-----------------------------------------------------------------------------
LeaderNext == LeaderBlock \/ LeaderRecord \/ LeaderRestart \/ LeaderStop
              \/ \E s \in 2..(Len(Load) + 1) : Archive(s)

WorkerNext(c) == Handshake(c) \/ ArchiveSent(c) \/ Follow(c)

ClientNext ==
    \/ Resume \/ ConnectFails \/ Answer \/ Read \/ Disconnected \/ BlockDone \/ BarrierDone
    \/ Joined \/ SeeShutdown \/ \E c \in Conns : Connect(c)

(* The model ends with the client. *)
Next ==
    /\ ~Ended
    /\ \/ LeaderNext \/ ClientNext \/ Sequence \/ RequestShutdown \/ AnswerLate \/ BlockTimeout
       \/ FollowerCrash
       \/ \E c \in Conns : WorkerNext(c) \/ Break(c)

Spec == Init /\ [][Next]_vars

(* Threads run on, the read timeout ends a decoder that is joined, and a    *)
(* leader's heartbeat makes blocks while it is up, as far as the bound.     *)
FairSpec ==
    /\ Spec
    /\ WF_vars(~Ended /\ ClientNext) /\ WF_vars(~Ended /\ Sequence)
    /\ WF_vars(~Ended /\ (LeaderBlock \/ LeaderRecord))
    /\ \A c \in Conns : WF_vars(~Ended /\ WorkerNext(c))

-----------------------------------------------------------------------------
(* The follower's ledger is a run of the leader's from the follower's       *)
(* snapshot on, without gap, repetition or reordering, over any number of   *)
(* connections, restarts and lagged updates; so no check of its state       *)
(* against a seal or a checkpoint fails.                                    *)
FollowsLeader ==
    /\ own = SubSeq(log, base.pos + 1, base.pos + Len(own))
    /\ client.at # "mismatch"

(* A client that stops on request stops at a block, all of it published,    *)
(* and an identity has one active stream.                                   *)
StopsAtBoundary ==
    /\ client.at = "stopped" =>
          own # <<>> /\ own[Len(own)].kind = "Block" /\ ownPub = Len(own) /\ queue = <<>>
    /\ \A c, d \in Conns : Leased(c) /\ Leased(d) => c = d

(* A follower can go on from a synchronized position: the blocks it gets    *)
(* are the ones its sequencer computes.  The code does not keep this over a *)
(* restart in the middle of a block.                                        *)
PositionSuffices == client.at # "diverged"

(* The bound: there is no further block for this follower. *)
NoMoreBlocks ==
    /\ Count("Block", log) = Len(Load)
    /\ Count("Block", SubSeq(log, base.pos + Len(own) + 1, Len(log))) = 0

(* A requested shutdown ends the client, unless its process dies first: at  *)
(* the block it waits for once it drains, and before the leader runs out of *)
(* blocks, whatever connections it loses on the way.                        *)
ShutdownEnds ==
    /\ (stop /\ client.at = "block" /\ client.draining) ~> (Ended \/ ~stop)
    /\ stop ~> (Ended \/ ~stop \/ NoMoreBlocks)
=============================================================================
