------------------------------- MODULE Ledger -------------------------------
(***************************************************************************)
(* The ledger: one appender thread consumes the event stream and writes    *)
(* the active superblock (ledger/src/appender.rs over storage.rs), one     *)
(* indexer thread commits index batches in the appender's order            *)
(* (indexer.rs), a truncation worker removes the oldest superblock         *)
(* (Ledger::truncate in lib.rs) and readers look transactions up           *)
(* (reader.rs).  The producer sends what the sequencer, the executors and  *)
(* the pacemaker send: executions follow their transaction, and a block, a *)
(* seal, a reset, a checkpoint or a sync is sent only with the pipeline    *)
(* drained.                                                                *)
(*                                                                         *)
(* A file holds entries, every entry is one unit long, and a span is the   *)
(* position of an entry.  Each store that another thread or a crash can    *)
(* see apart from the next one is a step.  A crash ends the process: file  *)
(* contents, mapped metadata and committed index batches survive, buffers, *)
(* queues and the uncommitted batch do not.                                *)
(***************************************************************************)
EXTENDS Integers, Sequences, SequencesExt

CONSTANTS
    Signature,              \* transactions
    Reader,                 \* reader threads
    MaxHead,                \* bound on superblock ids
    EventKinds,             \* kinds of events the producer sends
    MaxEvents,              \* bound on the events the producer sends
    MaxFaults,              \* bound on crashes and I/O errors
    APPENDER_QUEUE_CAPACITY,
    INDEXER_QUEUE_CAPACITY,
    FILE_BUFFER_SIZE,       \* entries buffered before a file is written
    SIZE_CHECK_FREQUENCY,   \* slots between size checks
    NoWorker                \* absent truncation worker

ASSUME LedgerAssumption ==
    /\ {MaxHead, APPENDER_QUEUE_CAPACITY, INDEXER_QUEUE_CAPACITY,
        FILE_BUFFER_SIZE, SIZE_CHECK_FREQUENCY} \subseteq Nat \ {0}
    /\ {MaxEvents, MaxFaults} \subseteq Nat

VARIABLES
    meta,           \* ledger.meta, mapped
    segment,        \* superblock.meta of each superblock, mapped
    blockstore,     \* blockstore.db of each superblock, with its writer's buffer
    executions,     \* executions.db of each superblock, with its writer's buffer
    index,          \* committed records of each keyspace
    directories,    \* superblock directories on disk
    durable,        \* what synchronization has put beyond a power failure
    superblocks,    \* ids of the in-memory map of open superblocks
    queue,          \* events on their way to the appender
    app,            \* the appender thread
    indexQueue,     \* messages on their way to the indexer
    indexer,        \* the indexer thread
    position,       \* last broadcast blockstore position
    reader,         \* transaction lookups in progress
    producer,       \* what the rest of the engine has sent
    scars           \* for the invariants: entries that crashes left out of the index,
                    \* and seals that crashes left in a reopened head

disk == <<meta, segment, blockstore, executions, index, directories, durable>>
vars == <<disk, superblocks, queue, app, indexQueue, indexer, position, reader,
          producer, scars>>

Id == 1..MaxHead

(* Sequential blockstore entries and the events that carry them. *)
Transaction(sig) == [kind |-> "transaction", sig |-> sig]
Execution(sig) == [kind |-> "execution", sig |-> sig]
Block(slot) == [kind |-> "block", slot |-> slot]
Superblock(id, count) == [kind |-> "superblock", id |-> id, transactions |-> count]
Reset == [kind |-> "reset"]
Checkpoint == [kind |-> "checkpoint"]
Sync(final) == [kind |-> "sync", final |-> final]
Closed == [kind |-> "closed"]

(* Append files: `cursor` is the logical position, buffered entries included. *)
AppendFile(content, cursor) == [content |-> content, buffer |-> <<>>, cursor |-> cursor]

Overlay(content, offset, entries) ==
    [i \in 1..Max({Len(content), offset + Len(entries)}) |->
        IF i \in offset + 1 .. offset + Len(entries) THEN entries[i - offset]
                                                      ELSE content[i]]

Flush(f) ==
    [f EXCEPT !.content = Overlay(@, f.cursor - Len(f.buffer), f.buffer),
              !.buffer = <<>>]

Written(f, entry) ==
    LET g == [f EXCEPT !.buffer = Append(@, entry), !.cursor = @ + 1]
    IN  IF Len(g.buffer) >= FILE_BUFFER_SIZE THEN Flush(g) ELSE g

Finalized(f) == [Flush(f) EXCEPT !.content = SubSeq(@, 1, f.cursor)]

(* Published prefix of a superblock's blockstore, what replay streams. *)
Published(id) ==
    LET data == blockstore[id].content
    IN  SubSeq(data, 1, Min({segment[id].blockstore, Len(data)}))

IsTransaction(e) == e.kind = "transaction"

Signatures(entries) == {e.sig : e \in {x \in ToSet(entries) : IsTransaction(x)}}

(* LedgerMeta::superblocks: the retained ids, from two separate loads. *)
RetainedIds(head, count) == Max({head - Max({count - 1, 0}), 0})..head

Opened == [blockstore |-> 0, executions |-> 0, start |-> 0, end |-> 0]

(* Last block and number of transactions that a replay of them reaches. *)
LastSlot(entries) ==
    Max({e.slot : e \in {x \in ToSet(entries) : x.kind = "block"}} \cup {0})

Counted == Cardinality(UNION {Signatures(Published(id)) : id \in Id})

-----------------------------------------------------------------------------
(* The appender thread as LedgerAppender::run starts it on `head`. *)
AppenderStart(head) ==
    [pc |-> "recv", event |-> Closed, slot |-> 0, sync |-> FALSE, writer |-> head,
     pending |-> <<>>, transactions |-> 0, fenced |-> FALSE, worker |-> NoWorker]

Init ==
    /\ meta = [transactions |-> 0, superblocks |-> 1, head |-> 1,
               start |-> 0, end |-> 0, blocks |-> 0]
    /\ segment = [id \in Id |-> Opened]
    /\ blockstore = [id \in Id |-> AppendFile(<<>>, 0)]
    /\ executions = [id \in Id |-> AppendFile(<<>>, 0)]
    /\ index = [id \in Id |-> {}]
    /\ directories = {1}
    /\ durable = [content |-> [id \in Id |-> 0], cursor |-> [id \in Id |-> 0],
                  transactions |-> 0, head |-> 1, index |-> [id \in Id |-> {}]]
    /\ superblocks = {1}
    /\ queue = <<>>
    /\ app = AppenderStart(1)
    /\ indexQueue = <<>>
    /\ indexer = [keyspace |-> 1, batch |-> {}, running |-> TRUE]
    /\ position = [superblock |-> 1, offset |-> 0]
    /\ reader = [r \in Reader |-> [pc |-> "idle"]]
    /\ producer = [events |-> 0, slot |-> 0, inflight |-> {}, used |-> {},
                   transactions |-> 0, sealing |-> FALSE, closed |-> FALSE,
                   faults |-> 0]
    /\ scars = {}

-----------------------------------------------------------------------------
(* The producer. *)
CanSend ==
    /\ app.pc \notin {"stopped", "failed"}
    /\ ~producer.closed
    /\ Len(queue) < APPENDER_QUEUE_CAPACITY
    /\ producer.events < MaxEvents

Send(event) ==
    /\ CanSend /\ event.kind \in EventKinds
    /\ queue' = Append(queue, event)
    /\ UNCHANGED <<disk, superblocks, app, indexQueue, indexer, position, reader, scars>>

Sent == [producer EXCEPT !.events = @ + 1]

SendTransaction ==
    \E sig \in Signature \ producer.used :
        /\ Send(Transaction(sig))
        /\ producer' = [Sent EXCEPT !.used = @ \cup {sig}, !.inflight = @ \cup {sig}]

SendExecution ==
    \E sig \in producer.inflight :
        /\ Send(Execution(sig))
        /\ producer' = [Sent EXCEPT !.inflight = @ \ {sig}, !.transactions = @ + 1]

Drained == producer.inflight = {}

SendBlock ==
    /\ Drained
    /\ Send(Block(producer.slot + 1))
    /\ producer' = [Sent EXCEPT !.slot = @ + 1]

(* A live seal closes the head, once the seal before it is answered; a         *)
(* bootstrap seal may name any later one.                                      *)
SendSeal ==
    /\ Drained /\ ~producer.sealing
    /\ \E id \in meta.head .. MaxHead - 1 :
        /\ id > meta.head => producer.slot = 0 /\ producer.transactions = 0
        /\ Send(Superblock(id, producer.transactions))
    /\ producer' = [Sent EXCEPT !.sealing = TRUE]

SendReset ==
    /\ Drained
    /\ Send(Reset)
    /\ producer' = Sent

SendCheckpoint ==
    /\ Drained
    /\ Send(Checkpoint)
    /\ producer' = Sent

SendSync ==
    /\ Drained
    /\ \E final \in BOOLEAN :
        /\ Send(Sync(final))
        /\ producer' = [Sent EXCEPT !.closed = final]

(* Every sender is dropped: the appender sees the closed stream after the rest. *)
CloseStream ==
    /\ Drained
    /\ Send(Closed)
    /\ producer' = [Sent EXCEPT !.closed = TRUE]

-----------------------------------------------------------------------------
(* The appender. *)
Goto(pc) == app' = [app EXCEPT !.pc = pc]

At(pc) == app.pc = pc

(* Queues index work; the bounded queue blocks the appender while it is full. *)
IndexSend(message) ==
    /\ Len(indexQueue) < INDEXER_QUEUE_CAPACITY
    /\ indexer.running
    /\ indexQueue' = Append(indexQueue, message)

TakeEvent(kind) ==
    /\ At("recv")
    /\ queue # <<>>
    /\ Head(queue).kind = kind
    /\ queue' = Tail(queue)
    /\ UNCHANGED <<meta, segment, index, directories, durable, superblocks, indexer,
                   position, reader, producer, scars>>

Entry == Head(queue)

WriteEntry ==
    blockstore' = [blockstore EXCEPT ![app.writer] = Written(@, Entry)]

WriteTransaction ==
    /\ TakeEvent("transaction")
    /\ WriteEntry
    /\ app' = [app EXCEPT
                !.pending = [s \in DOMAIN @ \cup {Entry.sig} |->
                                IF s = Entry.sig THEN blockstore'[app.writer].cursor
                                                 ELSE @[s]],
                !.transactions = @ + 1]
    /\ UNCHANGED <<executions, indexQueue>>

(* An execution without its transaction is skipped; the producer sends none. *)
WriteExecution ==
    /\ TakeEvent("execution")
    /\ Entry.sig \in DOMAIN app.pending
    /\ executions' = [executions EXCEPT ![app.writer] = Written(@, Entry)]
    /\ app' = [app EXCEPT !.pending = [s \in DOMAIN @ \ {Entry.sig} |-> @[s]]]
    /\ IndexSend([kind |-> "transaction", sig |-> Entry.sig,
                  blockstore |-> app.pending[Entry.sig],
                  execution |-> executions'[app.writer].cursor])
    /\ UNCHANGED blockstore

(* Starts publish(slot, durability) for the entry just written. *)
Publishing(slot, sync) ==
    app' = [app EXCEPT !.pc = "persist", !.event = Entry, !.slot = slot, !.sync = sync]

WriteBlock ==
    /\ TakeEvent("block")
    /\ WriteEntry
    /\ Publishing(Entry.slot, FALSE)
    /\ UNCHANGED <<executions, indexQueue>>

WriteCheckpoint ==
    /\ TakeEvent("checkpoint")
    /\ WriteEntry
    /\ Publishing(0, FALSE)
    /\ UNCHANGED <<executions, indexQueue>>

WriteReset ==
    /\ TakeEvent("reset")
    /\ WriteEntry
    /\ Publishing(0, TRUE)
    /\ UNCHANGED <<executions, indexQueue>>

WriteSeal ==
    /\ TakeEvent("superblock")
    /\ WriteEntry
    /\ Publishing(0, TRUE)
    /\ UNCHANGED <<executions, indexQueue>>

TakeSync ==
    /\ TakeEvent("sync") \/ TakeEvent("closed")
    /\ Publishing(0, TRUE)
    /\ UNCHANGED <<blockstore, executions, indexQueue>>
-----------------------------------------------------------------------------
(* LedgerAppender::publish: data files, superblock metadata, ledger metadata. *)
Step(from, to) ==
    /\ At(from)
    /\ Goto(to)
    /\ UNCHANGED <<queue, indexer, reader>>

Persist ==
    /\ Step("persist", "cursor")
    /\ blockstore' = [blockstore EXCEPT ![app.writer] = Flush(@)]
    /\ executions' = [executions EXCEPT ![app.writer] = Flush(@)]
    /\ durable' = IF app.sync
                  THEN [durable EXCEPT !.content[app.writer] = blockstore[app.writer].cursor]
                  ELSE durable
    /\ UNCHANGED <<meta, segment, index, directories, superblocks, indexQueue,
                   position, producer, scars>>

PublishCursor ==
    /\ Step("cursor", "executions")
    /\ segment' = [segment EXCEPT ![app.writer].blockstore = blockstore[app.writer].cursor]
    /\ UNCHANGED <<meta, blockstore, executions, index, directories, durable,
                   superblocks, indexQueue, position, producer, scars>>

PublishExecutions ==
    /\ Step("executions", "range")
    /\ segment' = [segment EXCEPT ![app.writer].executions = executions[app.writer].cursor]
    /\ UNCHANGED <<meta, blockstore, executions, index, directories, durable,
                   superblocks, indexQueue, position, producer, scars>>

(* The first block of a segment fixes its start; then the page is persisted. *)
PublishRange ==
    /\ Step("range", "transactions")
    /\ segment' = [segment EXCEPT ![app.writer] =
                    IF app.slot = 0 THEN @
                    ELSE [@ EXCEPT !.end = app.slot,
                                   !.start = IF @ = 0 THEN app.slot ELSE @]]
    /\ durable' = IF app.sync
                  THEN [durable EXCEPT !.cursor[app.writer] = segment[app.writer].blockstore]
                  ELSE durable
    /\ UNCHANGED <<meta, blockstore, executions, index, directories, superblocks,
                   indexQueue, position, producer, scars>>

PublishTransactions ==
    /\ Step("transactions", "blocks")
    /\ meta' = [meta EXCEPT !.transactions = @ + app.transactions]
    /\ UNCHANGED <<segment, blockstore, executions, index, directories, durable,
                   superblocks, indexQueue, position, producer, scars>>

PublishBlocks ==
    /\ Step("blocks", "broadcast")
    /\ meta' = IF app.slot = 0 THEN meta
               ELSE [meta EXCEPT !.blocks = @ + 1, !.end = app.slot]
    /\ UNCHANGED <<segment, blockstore, executions, index, directories, durable,
                   superblocks, indexQueue, position, producer, scars>>

(* The ledger page is persisted, the count reset, the position broadcast; what *)
(* follows a boundary depends on its durability.                               *)
Broadcast ==
    /\ At("broadcast")
    /\ durable' = IF app.sync THEN [durable EXCEPT !.transactions = meta.transactions]
                              ELSE durable
    /\ position' = [superblock |-> meta.head, offset |-> blockstore[app.writer].cursor]
    /\ app' = [app EXCEPT !.transactions = 0,
                !.pc = IF app.sync THEN "fence"
                       ELSE IF app.event.kind = "block" THEN "index" ELSE "recv"]
    /\ UNCHANGED <<meta, segment, blockstore, executions, index, directories,
                   superblocks, queue, indexQueue, indexer, reader, producer, scars>>

(* The block's index message; every SIZE_CHECK_FREQUENCY slots the filesystem   *)
(* may be found full, which syncs before truncating, or not be readable.        *)
SizeChecked == app.slot % SIZE_CHECK_FREQUENCY = 0

Faulty ==
    /\ producer.faults < MaxFaults
    /\ producer' = [producer EXCEPT !.faults = @ + 1]

SendBlockIndex ==
    /\ At("index")
    /\ IndexSend([kind |-> "block", slot |-> app.slot, blockstore |-> blockstore[app.writer].cursor])
    /\ \/ Goto("recv") /\ UNCHANGED producer
       \/ /\ SizeChecked
          /\ app' = [app EXCEPT !.pc = "persist", !.slot = 0, !.sync = TRUE]
          /\ UNCHANGED producer
       \/ SizeChecked /\ Goto("failed") /\ Faulty
    /\ UNCHANGED <<disk, superblocks, queue, indexer, position, reader, scars>>

(* IndexerHandle::fence: sends the fence and waits for its acknowledgement. *)
SendFence ==
    /\ Step("fence", "fenced")
    /\ IndexSend([kind |-> "fence", next |-> 0])
    /\ UNCHANGED <<disk, superblocks, position, producer, scars>>

AfterSync ==
    CASE app.event.kind = "block" -> "truncate"
      [] app.event.kind = "superblock" -> "finalize"
      [] app.event.kind = "reset" -> "recv"
      [] app.event.kind \in {"sync", "closed"} -> "acknowledge"

Fenced ==
    /\ At("fenced")
    /\ app.fenced
    /\ app' = [app EXCEPT !.fenced = FALSE, !.pc = AfterSync]
    /\ UNCHANGED <<disk, superblocks, queue, indexQueue, indexer, position, reader, producer, scars>>

(* The last sync, or the closed stream, joins the truncation worker and ends. *)
Acknowledge ==
    /\ At("acknowledge")
    /\ IF app.event = Sync(FALSE) THEN Goto("recv")
                                  ELSE app.worker = NoWorker /\ Goto("stopped")
    /\ UNCHANGED <<disk, superblocks, queue, indexQueue, indexer, position, reader, producer, scars>>

-----------------------------------------------------------------------------
(* LedgerAppender::seal after its sync, and LedgerAppender::rotate. *)
Finalize ==
    /\ Step("finalize", "adopt")
    /\ blockstore' = [blockstore EXCEPT ![app.writer] = Finalized(@)]
    /\ executions' = [executions EXCEPT ![app.writer] = Finalized(@)]
    /\ UNCHANGED <<meta, segment, index, directories, durable, superblocks,
                   indexQueue, position, producer, scars>>

AdoptCount ==
    /\ Step("adopt", "open")
    /\ meta' = [meta EXCEPT !.transactions = app.event.transactions]
    /\ UNCHANGED <<segment, blockstore, executions, index, directories, durable,
                   superblocks, indexQueue, position, producer, scars>>

Successor == app.event.id + 1

(* Superblock::open_meta and open: an existing directory is opened as it is. *)
OpenSuccessor ==
    /\ Step("open", "insert")
    /\ directories' = directories \cup {Successor}
    /\ UNCHANGED <<meta, segment, blockstore, executions, index, durable,
                   superblocks, indexQueue, position, producer, scars>>

(* From here to the head's count the map's write lock is held. *)
InsertSuccessor ==
    /\ Step("insert", "head")
    /\ superblocks' = superblocks \cup {Successor}
    /\ UNCHANGED <<disk, indexQueue, position, producer, scars>>

StoreHead ==
    /\ Step("head", "superblocks")
    /\ meta' = [meta EXCEPT !.head = Successor]
    /\ UNCHANGED <<segment, blockstore, executions, index, directories, durable,
                   superblocks, indexQueue, position, producer, scars>>

AddSuperblock ==
    /\ Step("superblocks", "swap")
    /\ meta' = [meta EXCEPT !.superblocks = @ + 1]
    /\ durable' = [durable EXCEPT !.head = meta.head, !.transactions = meta.transactions]
    /\ UNCHANGED <<segment, blockstore, executions, index, directories,
                   superblocks, indexQueue, position, producer, scars>>

SwapWriter ==
    /\ At("swap")
    /\ IndexSend([kind |-> "fence", next |-> Successor])
    /\ app' = [app EXCEPT !.pc = "rotated", !.writer = Successor]
    /\ blockstore' = [blockstore EXCEPT ![Successor] =
                        AppendFile(@.content, segment[Successor].blockstore)]
    /\ executions' = [executions EXCEPT ![Successor] =
                        AppendFile(@.content, segment[Successor].executions)]
    /\ UNCHANGED <<meta, segment, index, directories, durable, superblocks, queue,
                   indexer, position, reader, producer, scars>>

(* The acknowledged fence ends the rotation and answers the seal's sender. *)
Rotated ==
    /\ At("rotated")
    /\ app.fenced
    /\ app' = [app EXCEPT !.fenced = FALSE, !.pc = "recv"]
    /\ position' = [superblock |-> Successor, offset |-> 0]
    /\ producer' = [producer EXCEPT !.sealing = FALSE]
    /\ UNCHANGED <<disk, superblocks, queue, indexQueue, indexer, reader, scars>>

-----------------------------------------------------------------------------
(* Ledger::truncate, after the previous worker is joined. *)
Oldest == Min(superblocks)

(* Mutant: the worker starts before the flush. *)
TruncateSpawnsFirst ==
    /\ At("truncate")
    /\ app.worker = NoWorker
    /\ IF Oldest >= meta.head
       THEN Goto("recv") /\ UNCHANGED superblocks
       ELSE /\ superblocks' = superblocks \ {Oldest}
            /\ app' = [app EXCEPT !.pc = "retire", !.worker = [id |-> Oldest, pc |-> "index"]]
    /\ UNCHANGED <<disk, queue, indexQueue, indexer, position, reader, producer, scars>>

Truncate ==
    /\ At("truncate")
    /\ app.worker = NoWorker
    /\ IF Oldest >= meta.head
       THEN Goto("recv") /\ UNCHANGED superblocks
       ELSE /\ superblocks' = superblocks \ {Oldest}
            /\ app' = [app EXCEPT !.pc = "retire", !.worker = [id |-> Oldest, pc |-> "new"]]
    /\ UNCHANGED <<disk, queue, indexQueue, indexer, position, reader, producer, scars>>

(* The metadata stops retaining it and is flushed before the worker is spawned. *)
Retire ==
    /\ Step("retire", "spawn")
    /\ meta' = [meta EXCEPT !.superblocks = @ - 1, !.start = segment[app.worker.id].end + 1]
    /\ UNCHANGED <<segment, blockstore, executions, index, directories, durable,
                   superblocks, indexQueue, position, producer, scars>>

Spawn ==
    /\ At("spawn")
    /\ app' = [app EXCEPT !.pc = "recv", !.worker.pc = "index"]
    /\ UNCHANGED <<disk, superblocks, queue, indexQueue, indexer, position, reader, producer, scars>>

(* The worker: deletes the keyspace, then the directory. *)
Working(pc) ==
    /\ app.worker # NoWorker
    /\ app.worker.pc = pc
    /\ UNCHANGED <<meta, durable, superblocks, queue, indexQueue, indexer, position,
                   reader, producer, scars>>

DeleteKeyspace ==
    /\ Working("index")
    /\ index' = [index EXCEPT ![app.worker.id] = {}]
    /\ app' = [app EXCEPT !.worker.pc = "purge"]
    /\ UNCHANGED <<segment, blockstore, executions, directories>>

Purge ==
    /\ Working("purge")
    /\ directories' = directories \ {app.worker.id}
    /\ app' = [app EXCEPT !.worker = NoWorker]
    /\ UNCHANGED <<segment, blockstore, executions, index>>

(* The worker ends with an error, which only its join reports. *)
WorkerFails ==
    /\ app.worker # NoWorker /\ app.worker.pc \in {"index", "purge"}
    /\ app' = [app EXCEPT !.worker.pc = "error"]
    /\ Faulty
    /\ UNCHANGED <<disk, superblocks, queue, indexQueue, indexer, position, reader, scars>>

JoinError ==
    /\ At("truncate") \/ (At("acknowledge") /\ app.event # Sync(FALSE))
    /\ app.worker # NoWorker /\ app.worker.pc = "error"
    /\ app' = [app EXCEPT !.pc = "failed", !.worker = NoWorker]
    /\ UNCHANGED <<disk, superblocks, queue, indexQueue, indexer, position, reader, producer, scars>>

(* An I/O error of an entry's write, of a persist of files or metadata, or of a  *)
(* directory: the stores before it stay, the appender leaves its loop, and the   *)
(* response of the event at hand is dropped.                                     *)
Fail ==
    /\ Faulty
    /\ \/ /\ At("recv") /\ queue # <<>> /\ Head(queue).kind \notin {"sync", "closed"}
          /\ queue' = Tail(queue)
       \/ /\ app.pc \in {"persist", "transactions", "broadcast", "finalize", "open",
                          "swap", "spawn"}
          /\ UNCHANGED queue
    /\ app' = [app EXCEPT !.pc = "failed",
                          !.worker = IF At("spawn") THEN NoWorker ELSE @]
    /\ UNCHANGED <<disk, superblocks, indexQueue, indexer, position, reader, scars>>

(* The indexer has ended with an error: a send to it fails, and so does the wait *)
(* for a fence it has not acknowledged.                                          *)
IndexerClosed ==
    /\ ~indexer.running
    /\ \/ /\ At("recv") /\ queue # <<>> /\ Head(queue).kind = "execution"
          /\ queue' = Tail(queue)
       \/ /\ \/ app.pc \in {"index", "fence", "swap"}
             \/ app.pc \in {"fenced", "rotated"} /\ ~app.fenced
          /\ UNCHANGED queue
    /\ Goto("failed")
    /\ UNCHANGED <<disk, superblocks, indexQueue, indexer, position, reader, producer, scars>>

-----------------------------------------------------------------------------
(* The indexer: one ordered batch, committed at a block or a sync fence. *)
Key(record) == IF record.kind = "block" THEN record.slot ELSE record.sig

Put(records, new) ==
    {r \in records : ~\E n \in new : n.kind = r.kind /\ Key(n) = Key(r)} \cup new

Indexing(kind) ==
    /\ indexer.running
    /\ indexQueue # <<>>
    /\ Head(indexQueue).kind = kind
    /\ indexQueue' = Tail(indexQueue)
    /\ UNCHANGED <<meta, segment, blockstore, executions, directories, superblocks,
                   queue, position, reader, producer, scars>>

Committed(batch) == [index EXCEPT ![indexer.keyspace] = Put(@, batch)]

(* Mutant: a transaction is committed before its block is published. *)
IndexTransactionNow ==
    /\ Indexing("transaction")
    /\ index' = Committed({Head(indexQueue)})
    /\ UNCHANGED <<indexer, durable, app>>

IndexTransaction ==
    /\ Indexing("transaction")
    /\ indexer' = [indexer EXCEPT !.batch = Put(@, {Head(indexQueue)})]
    /\ UNCHANGED <<index, durable, app>>

CommitBlock ==
    /\ Indexing("block")
    /\ index' = Committed(Put(indexer.batch, {Head(indexQueue)}))
    /\ indexer' = [indexer EXCEPT !.batch = {}]
    /\ UNCHANGED <<durable, app>>

(* The fence of a sync: commit, flush, acknowledge. *)
SyncFence ==
    /\ Indexing("fence")
    /\ Head(indexQueue).next = 0
    /\ index' = Committed(indexer.batch)
    /\ durable' = [durable EXCEPT !.index = index']
    /\ indexer' = [indexer EXCEPT !.batch = {}]
    /\ app' = [app EXCEPT !.fenced = TRUE]

(* Mutant: the fence is not acknowledged. *)
RotateFenceSilent ==
    /\ Indexing("fence")
    /\ Head(indexQueue).next # 0
    /\ indexer' = [indexer EXCEPT !.keyspace = Head(indexQueue).next, !.batch = {}]
    /\ UNCHANGED <<index, durable, app>>

RotateFence ==
    /\ Indexing("fence")
    /\ Head(indexQueue).next # 0
    /\ indexer' = [indexer EXCEPT !.keyspace = Head(indexQueue).next, !.batch = {}]
    /\ app' = [app EXCEPT !.fenced = TRUE]
    /\ UNCHANGED <<index, durable>>

(* A commit, a flush or a rotation of the keyspace reports an error, applied or  *)
(* not: the worker ends, its batch and its queue are dropped.                    *)
IndexerFails ==
    /\ Faulty
    /\ indexer.running /\ indexQueue # <<>>
    /\ LET message == Head(indexQueue)
           blocks == {m \in {message} : m.kind = "block"}
       IN  /\ message.kind # "transaction"
           /\ \/ UNCHANGED index
              \/ /\ message.kind = "fence" => message.next = 0
                 /\ index' = Committed(Put(indexer.batch, blocks))
    /\ indexer' = [indexer EXCEPT !.running = FALSE, !.batch = {}]
    /\ indexQueue' = <<>>
    /\ UNCHANGED <<meta, segment, blockstore, executions, directories, durable,
                   superblocks, queue, app, position, reader, scars>>

(* The sole sender is gone and the queue drained. *)
IndexerEnds ==
    /\ indexer.running
    /\ indexQueue = <<>>
    /\ app.pc \in {"stopped", "failed"}
    /\ indexer' = [indexer EXCEPT !.running = FALSE]
    /\ UNCHANGED <<disk, superblocks, queue, app, indexQueue, position, reader, producer, scars>>

-----------------------------------------------------------------------------
(* LedgerReader::transaction over Ledger::iter.  `expects` remembers that the  *)
(* record was committed, in an open superblock, when the lookup began.         *)
Locked == app.pc \in {"head", "superblocks"}

Record(id, sig) == {r \in index[id] : r.kind = "transaction" /\ r.sig = sig}

Holding(sig) == {id \in superblocks : Record(id, sig) # {}}

Reading(r, pc) ==
    /\ reader[r].pc = pc
    /\ UNCHANGED <<disk, superblocks, queue, app, indexQueue, indexer, position, producer, scars>>

LoadHead(r) ==
    /\ Reading(r, "idle")
    /\ \E sig \in Signature :
        reader' = [reader EXCEPT ![r] = [pc |-> "count", sig |-> sig, head |-> meta.head,
                                         expects |-> Holding(sig)]]

LoadCount(r) ==
    /\ Reading(r, "count")
    /\ reader' = [reader EXCEPT ![r] =
                    [pc |-> "scan", sig |-> @.sig, expects |-> @.expects,
                     ids |-> RetainedIds(@.head, meta.superblocks)]]

(* Visits the newest id left; the lookup takes the map's read lock. *)
Visit(r) ==
    /\ Reading(r, "scan")
    /\ ~Locked
    /\ reader[r].ids # {}
    /\ LET id == Max(reader[r].ids)
           records == IF id \in superblocks THEN Record(id, reader[r].sig) ELSE {}
       IN  reader' = [reader EXCEPT ![r] =
                IF records = {} THEN [@ EXCEPT !.ids = @ \ {id}]
                ELSE [pc |-> "found", sig |-> @.sig, id |-> id,
                      record |-> CHOOSE x \in records : TRUE]]

NotFound(r) ==
    /\ Reading(r, "scan")
    /\ reader[r].ids = {}
    /\ reader' = [reader EXCEPT ![r] = [pc |-> "none", sig |-> @.sig, expects |-> @.expects]]

Answer(r) ==
    /\ Reading(r, "found") \/ Reading(r, "none")
    /\ reader' = [reader EXCEPT ![r] = [pc |-> "idle"]]

-----------------------------------------------------------------------------
(* Published blocks without an index record, and published seals. *)
Unscannable(id) ==
    {i \in DOMAIN Published(id) :
        LET e == Published(id)[i]
        IN  \/ e.kind = "superblock"
            \/ e.kind = "block" /\ ~\E r \in index[id] : r.kind = "block" /\ r.blockstore = i}

(* Mutant: the head's files are reopened at their start. *)
ReopenFromStart(f, cursor) == AppendFile(f.content, 0)

(* AppendFile::new: a reopened file continues at its published cursor. *)
Reopen(f, cursor) == AppendFile(f.content, cursor)

(* The process ends, with its services or by a crash anywhere, and Ledger::init *)
(* reopens what is on disk: the metadata's superblocks and the head's files.    *)
(* Nothing is indexed again.  The engine then replays the published stream      *)
(* before it produces again.                                                    *)
Restart ==
    /\ app.pc \in {"stopped", "failed"} \/ producer.faults < MaxFaults
    /\ superblocks' = RetainedIds(meta.head, meta.superblocks)
    /\ directories' = directories \cup superblocks'
    /\ blockstore' = [blockstore EXCEPT ![meta.head] =
                        Reopen(@, segment[meta.head].blockstore)]
    /\ executions' = [executions EXCEPT ![meta.head] =
                        Reopen(@, segment[meta.head].executions)]
    /\ queue' = <<>>
    /\ app' = AppenderStart(meta.head)
    /\ indexQueue' = <<>>
    /\ indexer' = [keyspace |-> meta.head, batch |-> {}, running |-> TRUE]
    /\ position' = [superblock |-> meta.head, offset |-> segment[meta.head].blockstore]
    /\ reader' = [r \in Reader |-> [pc |-> "idle"]]
    /\ producer' = [producer EXCEPT
                      !.slot = Max({LastSlot(Published(id)) : id \in Id}),
                      !.inflight = {}, !.sealing = FALSE, !.closed = FALSE,
                      !.transactions = Counted,
                      !.faults = IF app.pc \in {"stopped", "failed"} THEN @ ELSE @ + 1]
    /\ scars' = scars \cup {[id |-> meta.head, at |-> i] : i \in Unscannable(meta.head)}
    /\ UNCHANGED <<meta, segment, index, durable>>

Producer ==
    \/ SendTransaction \/ SendExecution \/ SendBlock \/ SendSeal \/ SendReset
    \/ SendCheckpoint \/ SendSync \/ CloseStream

Appender ==
    \/ WriteTransaction \/ WriteExecution \/ WriteBlock \/ WriteCheckpoint
    \/ WriteReset \/ WriteSeal \/ TakeSync
    \/ Persist \/ PublishCursor \/ PublishExecutions \/ PublishRange
    \/ PublishTransactions \/ PublishBlocks \/ Broadcast
    \/ SendBlockIndex \/ SendFence \/ Fenced \/ Acknowledge
    \/ Finalize \/ AdoptCount \/ OpenSuccessor \/ InsertSuccessor \/ StoreHead
    \/ AddSuperblock \/ SwapWriter \/ Rotated
    \/ Truncate \/ Retire \/ Spawn \/ JoinError \/ IndexerClosed

Worker == DeleteKeyspace \/ Purge

Indexer ==
    \/ IndexTransaction \/ CommitBlock \/ SyncFence \/ RotateFence \/ IndexerEnds

Read == \E r \in Reader : LoadHead(r) \/ LoadCount(r) \/ Visit(r) \/ NotFound(r) \/ Answer(r)

Errors == Fail \/ WorkerFails \/ IndexerFails

Next == Producer \/ Appender \/ Worker \/ Indexer \/ Errors \/ Read \/ Restart

Spec == Init /\ [][Next]_vars

(* Each thread keeps running; nothing obliges the producer to send. *)
FairSpec == Spec /\ WF_vars(Appender) /\ WF_vars(Worker) /\ WF_vars(Indexer)

-----------------------------------------------------------------------------
(* Types of the files, queues and process records. *)
TypeOK ==
    /\ meta \in [transactions : Nat, superblocks : Id, head : Id, start : Nat,
                 end : Nat, blocks : Nat]
    /\ segment \in [Id -> [blockstore : Nat, executions : Nat, start : Nat, end : Nat]]
    /\ superblocks \in SUBSET Id
    /\ directories \in SUBSET Id
    /\ app.writer \in Id
    /\ \A id \in Id : /\ segment[id].blockstore <= Len(blockstore[id].content)
                      /\ segment[id].executions <= Len(executions[id].content)
    /\ Len(queue) <= APPENDER_QUEUE_CAPACITY
    /\ Len(indexQueue) <= INDEXER_QUEUE_CAPACITY

(* A committed index record points at the published entry it names, in both    *)
(* files, whatever the interleaving of appender and indexer and wherever the   *)
(* process stopped: data is published before its batch can be committed        *)
(* (write_block, sync) and a reopened file continues at its published cursor.  *)
IndexSound ==
    \A id \in Id : \A r \in index[id] :
        /\ r.blockstore <= segment[id].blockstore
        /\ IF r.kind = "block"
           THEN blockstore[id].content[r.blockstore] = Block(r.slot)
           ELSE /\ blockstore[id].content[r.blockstore] = Transaction(r.sig)
                /\ r.execution <= segment[id].executions
                /\ executions[id].content[r.execution] = Execution(r.sig)

(* What a superblock has published is never rewritten or withdrawn, across     *)
(* flushes, seals and restarts that overwrite an unpublished tail              *)
(* (AppendFile::flush, AppendFile::new): followers and replay read it.         *)
PublishedNeverChanges ==
    [][\A id \in Id : IsPrefix(Published(id), Published(id)')]_vars

HasHistory(id) == \E e \in ToSet(Published(id)) : e.kind \in {"transaction", "block"}

(* The head is open, every open superblock has its directory, and the          *)
(* truncation worker deletes nothing that the metadata still retains, so no    *)
(* crash during a cleanup reopens a half-deleted superblock (truncate flushes  *)
(* the metadata before it spawns the worker).  A crash would reopen every open *)
(* superblock that holds history: rotate stores the new head before it adds to *)
(* the count, and only between those two stores would the oldest be dropped.   *)
RetentionKeepsHistory ==
    /\ meta.head \in superblocks
    /\ superblocks \subseteq directories
    /\ app.worker # NoWorker /\ app.worker.pc # "new" =>
           app.worker.id \notin superblocks \cup RetainedIds(meta.head, meta.superblocks)
    /\ \A id \in superblocks : HasHistory(id) =>
           \/ id \in RetainedIds(meta.head, meta.superblocks)
           \/ At("superblocks") /\ id = Oldest

(* When a sync is acknowledged and when a seal may rotate, the whole stream    *)
(* before it is published and beyond a power failure, contents, cursors and    *)
(* the ledger page, and so is the index of every execution (sync, fence).      *)
SyncIsDurable ==
    At("acknowledge") \/ At("adopt") =>
        LET w == app.writer
            f == blockstore[w]
        IN  /\ durable.content[w] = f.cursor
            /\ durable.cursor[w] = f.cursor
            /\ durable.transactions = meta.transactions
            /\ producer.faults = 0 =>
                   \A i \in 1..executions[w].cursor : \E r \in durable.index[w] :
                       r.kind = "transaction" /\ r.execution = i

(* At every point of a cleanup, a sync or a seal, but for the two stores of     *)
(* rotate that RetentionKeepsHistory names, a crash reopens every superblock    *)
(* with history, none of them half deleted, and what was acknowledged is        *)
(* durable (truncate, sync, seal, rotate, Ledger::new).                         *)
HistorySurvives == RetentionKeepsHistory /\ SyncIsDurable

(* The transaction a reader's lookup returns is the one it asked for, even when *)
(* the superblock that holds it is truncated between the index lookup and the   *)
(* file read (the map's Arc keeps the files open) and after a crash that left   *)
(* an unpublished tail, because every committed record is sound (IndexSound).   *)
LookupSound ==
    /\ IndexSound
    /\ \A r \in Reader : reader[r].pc = "found" =>
           LET rec == reader[r].record
               data == blockstore[reader[r].id].content
               details == executions[reader[r].id].content
           IN  /\ rec.blockstore <= Len(data) /\ rec.execution <= Len(details)
               /\ data[rec.blockstore] = Transaction(reader[r].sig)
               /\ details[rec.execution] = Execution(reader[r].sig)

(* A lookup that ends empty-handed misses no transaction that was indexed in an *)
(* open superblock when it began and is still open: Ledger::iter is said to    *)
(* iterate the retained superblocks.                                           *)
LookupFinds ==
    \A r \in Reader : reader[r].pc = "none" => reader[r].expects \cap superblocks = {}

(* A seal ends its superblock's stream: nothing is appended after it, and the  *)
(* successor takes what follows (seal, rotate).                                *)
SealEndsSuperblock ==
    \A id \in Id : \A i \in 1 .. Len(Published(id)) - 1 : Published(id)[i].kind # "superblock"

(* Between events the ledger's transaction count is the number of transactions *)
(* it has published; recovery compares it with the replayed count (publish,    *)
(* try_replay).                                                                *)
TransactionsCounted ==
    At("recv") => meta.transactions = Counted

(* Reading an indexed block with its transactions (indexed_transactions): the  *)
(* scan starts after the block of the slot before, or at the file's start, and *)
(* any block or seal inside it is reported as corruption.                      *)
ScanStart(id, slot) ==
    Max({r.blockstore : r \in {x \in index[id] : x.kind = "block" /\ x.slot = slot - 1}} \cup {0})

Scan(id, block) ==
    SubSeq(blockstore[id].content, ScanStart(id, block.slot) + 1, block.blockstore - 1)

Preceding(id, block) ==
    Max({0} \cup {i \in 1 .. block.blockstore - 1 : blockstore[id].content[i].kind = "block"})

(* The scan covers exactly what follows the preceding block of the superblock. *)
Readable(id, block) ==
    /\ \A e \in ToSet(Scan(id, block)) : e.kind \notin {"block", "superblock"}
    /\ ScanStart(id, block.slot) = Preceding(id, block)

IndexedBlocks(id) == {r \in index[id] : r.kind = "block"}

(* Every indexed block can be read back, with exactly its transactions, unless *)
(* a crash left the preceding block without its index record (it was           *)
(* published, and Ledger::init indexes nothing again) or a seal before the     *)
(* block (it was published, and the head not yet moved).                       *)
BlockQueriesAnswer ==
    \A id \in superblocks : \A r \in IndexedBlocks(id) :
        \/ Readable(id, r)
        \/ \E s \in scars : s.id = id /\ s.at \in Preceding(id, r) .. r.blockstore - 1

(* The reader takes slots to be contiguous, and so every indexed block to be   *)
(* readable.  After the crashes named above it is not.                         *)
BlocksReadBack == \A id \in superblocks : \A r \in IndexedBlocks(id) : Readable(id, r)

(* An accepted seal is answered unless the appender failed: its two fences are *)
(* acknowledged whatever fills the index queue (finalize_superblock's          *)
(* completion signal, which the pacemaker awaits before the next seal).        *)
SealCompletes ==
    producer.sealing ~> ~producer.sealing \/ At("failed")

=============================================================================
