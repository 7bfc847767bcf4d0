# A TLA+ development of the MagicBlock engine

The engine executes a stream of transactions in parallel over accounts it keeps
in mapped storage, records the stream in a ledger, and recovers or replicates
from that ledger. This directory holds TLA+ modules translated from the Rust
source, TLC configurations that check them on small instances, and TLAPS proofs
for the parts whose correctness rests on interleavings: ordering and execution,
lock-free reads, leases and shutdown.

Every definition that models code is listed with its source lines under `map`
in `PROJECT.json`, which also lists the runs, a mutated definition for every
checked property, the hazards of the code and the findings. The map covers
about a third of the source.

## The system and its parts

| Part | Source | Role | Modelled by |
|---|---|---|---|
| Ingress | `engine/src/transaction.rs`, `accessor.rs`, `solana/transaction-view` | bytes to a verified, resolved transaction | `Ingress`, `TransactionView` |
| Ordering table | `processor/src/sequencer/order.rs` | dependency graph over account accesses | `OrderingTable` |
| Sequencer, executors, simulator | `processor/src` | dispatch, block boundaries, barriers, stop | `Sequencer` |
| SVM | `solana/svm`, `processor/src/svm.rs` | load, run, verify and commit one transaction | `Svm` |
| Program runtime | `solana/program-runtime`, `solana/transaction-context` | frames, CPI, account rules, program input | `ProgramRuntime`, `TransactionContext`, `Parameters` |
| MagicRoot | `programs/magic-root-*` | privileged account maintenance | `MagicRoot` |
| Account | `solana/account` | two images and a sequence number; copy on write; modes | `AccountImage`, `CowAccount`, `PlainAccount`, `AccountMode` |
| Account storage | `accountsdb/src` | persisted and volatile accounts, free list, packing | `AccountsDB` |
| Reader admission | `accountsdb/src/readers.rs` | lets packing exclude lock-free readers | `Readers` |
| Ledger | `ledger/src` | append, publish, seal, index, truncate; queries | `Ledger`, `History` |
| Keeper | `keeper/src` | admission, results, leases, recovery | `Admission`, `Leases`, `Recovery` |
| Shutdown manager | `nucleus/src/shutdown.rs` | tiered termination | `Shutdown` |
| Replicator, pacemaker | `replicator/src`, `engine/src/pacemaker.rs` | a follower over a leader's stream | `Replication` |

A client's bytes are parsed, sanitized and verified, and queued for the
sequencer, which ledgers each transaction through the keeper (where duplicates
and stale block hashes are refused), registers it in the ordering table and
dispatches what is free. Executors run it in the SVM on views of the account
images, store the results in account storage, send execution records to the
ledger and serve subscribers. At a block boundary the sequencer drains; at a
seal or a checkpoint it also holds while the pacemaker snapshots account
storage, which packs it and excludes scoped readers. The ledger's appender
publishes entries, its indexer makes them searchable, and replication servers
stream what is published. After a crash the keeper compares its two stores,
restores a snapshot and replays. The shutdown manager cancels all of them in
tiers.

## Modules

**OrderingTable.** `accounts` (frontiers), `nodes`, `blocked`, `ready` and
`outstanding` are the fields of the table; `stream` and `taken` record what was
registered and handed out. `Register`, `TakeReady`, `Complete` and `Reset` are
its methods. A predecessor count of `COMPLETE` is `Done`.

**Sequencer** extends it with the sequencer thread (`pc` is the point where it
waits), one channel and thread per executor, the event channel and the
simulator. A handler runs up to its next wait; the dispatch loop takes one step
per transaction because each iteration hands work to another thread. `store`
maps an account to the transaction that wrote it last, which is all that serial
equivalence needs of execution. The inbound channel is external. The event
channel has no limit here, so an executor that waits on a full one is not covered.

**TransactionView** is the parser, the accessors that read again through the
parsed frame, and the sanitizing checks, for legacy, v0, v1 and MagicBlock
transactions. The layout is the code's; the sizes are scaled (a byte has eight
values, a key or a signature one byte). **Ingress** composes it with signature
and authority checks on each of the paths into the engine. A signature is the
key it was made with and is valid for what its holder signed. That the engine
refuses work while terminating is left to `Shutdown` and `Sequencer`.

**TransactionContext**, **ProgramRuntime** and **MagicRoot** are operators that
map one execution context to the next; a context with an error is left alone,
which is the `?` of the code. **Svm** drives them: a program under execution
may at any time store to what it can address, call, return or fail; a builtin
may use any setter. **Parameters** is the memory layout of a program's input in
both ABIs with the code's sizes (only the base address is smaller): the size
computed in advance, what the serializer writes, the regions mapped, the
addresses kept for CPI and the walk back. The walk of the SDK's entrypoint is
external. A behaviour runs one of the `Streams`, a sequence of transactions some
of which are simulated; `leaked` records the cached programs that came from a
simulation. **Execution** puts `Ingress`, `Svm` and `Parameters` into one
specification.

**AccountImage.** One span at the grain of words: writers translate, write,
publish, roll back and abandon; readers copy word by word and start over when
the sequence moved. Words are read and written in program order, as on
total-store-order hardware. **CowAccount** is the same account at the grain of
setters: borrowed image, shadow image, heap copy after outgrowing it, dirty
markers and the three ways storage takes the result. **PlainAccount** is what it
promises: a record whose setters change one field and whose changes are stored
all or none. `CowAccount` is checked to implement it with the view and the
stored account as the mapping. **Accounts** combines the two grains.

**AccountsDB.** Mapped storage in units, the index with its free list, the
volatile store and executors that store batches; a batch is a step per account,
then the commit of the index. `Defragment` is one step, as packing runs with
executors idle and readers excluded. An account is its mode, owner, size and
the number of the write that made it. Storage is small enough to run out.

**Readers.** One slot per thread with a FIFO store buffer in front of it, the
gate, the two mutexes and the condition variable. On Linux a reader has only a
compiler fence between announcing itself and reading the gate; the membarrier
flushes the buffers of the threads one by one.

**Ledger.** Appender, indexer, truncation worker, lookups, crashes and I/O
errors; entries are one unit long and a span is a position. Each store that
another thread or a crash can see apart from the next is a step. A crash keeps
files, mapped metadata and committed index batches, and loses buffers and
queues; nothing is indexed again afterwards, and `scars` records the blocks and
seals for which that matters. An error ends the appender, the indexer (a send to
it or a fence then fails) or the truncation worker (its join then fails).
**History** has the queries over many superblocks: pages of an account's
signatures with `before`, `until` and `limit`, blocks, block ranges and a
follower's recent cache. A block and its index rows appear together there, since
how far the index lags is `Ledger`'s subject. A seal stores head and count in two
steps, a request loads them in two, and the reader then takes one superblock per
step; truncation and cancellation happen in between. **Ledgers** combines them.

**Admission.** The expiring caches of block hashes and signatures, `append`,
`commit_execution` in its three visible steps, `subscribe_signature`, fan-out
and cleanup, and the caches a leader rebuilds. After a clean shutdown
(`Restart`) they hold the latest block and no signature, and work may have been
executed behind that block. After a crash either a snapshot is restored and the
ledger replayed from it (`CrashAndReplay`), or the store is as it was at its
last checksum and is kept, even ahead of the ledger (`CrashAndKeep`; `holes` are
the slots the ledger then lacks). Blocks published and not indexed when the
process dies stay unindexed. Two transactions with the same 128-bit signature
prefix are one.

**Leases.** Reservations, the notifier waiters sleep on, the lock loop,
materialization, deletion, eviction and cancellation over the lifecycles of
`AccountMode`. Recency displaces any entry, as a bucket of the cache may.

**Recovery.** Account storage, which keeps every store, and the ledger, which
keeps what its appender published: cursor, slot, count, a seal's count and the
head are separate stores. Archiving is detached and does not wait for the seal,
and a new archive replaces an older one of its superblock. The process dies
between any two steps, in a replay too; startup compares, restores, replays or
refuses. A new store has no checksum until its first synchronous flush. A
transaction is in a store or not.

**Shutdown.** The manager's `wait` and `terminate` against services that stop,
fail, drop their handle or ignore cancellation. **Keeper** combines it with the
three before.

**Replication.** A leader that produces transactions, blocks, seals,
checkpoints and resets, archives, truncates, restarts and stops; connection
workers with their reservation and lossy cursor stream; a client that connects,
decodes, applies, waits at blocks and barriers, gives up a wait that takes too
long, drops its receiver and joins the decoder before it leaves a connection,
reconnects and bootstraps from an archive. A position is a record index; the end
of a superblock and the start of the next are the same. A block hash is the
number of transactions in the block, and a block is published together with its
transactions; what a leader that shuts down publishes behind its last block is
left out. Signatures verify, and clocks of the handshake are not modelled.

### Parts in one specification

`Accounts`, `Ledgers`, `Execution` and `Keeper` hold parts with no variable in
common. A variable `part`, fixed in the initial state, says which one moves.
Each property speaks of one part only, so nothing is lost against checking it
alone, and an interleaving of the parts would only multiply the states.

## Runs

| Run | Checks | Instance |
|---|---|---|
| `sequencer` | inductive invariant of the table, serial equivalence, blocks hold exactly what was executed in them, every step is one of the table (`TableSpec`) | 3 transactions, 2 executors, 2 boundaries, so tickets are reused after a reset |
| `sequencer_liveness` | quiescence under a guard; accepted is committed, boundaries are reached, cancellation stops every thread | 2 transactions, 1 boundary, 1 simulation |
| `readers` | no reader inside while accounts move; pauses and entries complete | 3 threads with nesting, 2 pauses, one buffered store per thread |
| `ledger` | a lookup racing rotation, truncation and a crash returns what it asked for; pages, blocks and ranges are exact | 1 signature, 1 lookup, 4 events of four kinds and 1 crash or error, so that the superblock of an indexed transaction is sealed and dropped under the lookup; histories of 3 transactions in 3 blocks, 2 superblocks, one step of the writer during a request |
| `ledger_crash` | history survives, published entries never change, seals complete | 1 signature, 4 events of every kind, 1 crash or error |
| `accountsdb` | storage is partitioned, persisted accounts keep their contents, the owner index is exact | 2 executors, 3 keys, 2 owners, 2 sizes, 5 units of storage, 4 writes, batches of 1, 1 index failure, packing that splits a run |
| `account` | accepted reads are committed images; refinement of a plain account; markers cover changes and patches rebuild | 2 readers, 2 words, 3 writes, 1 reuse; 3 setters, data up to 4 bytes, images growing by 2 |
| `execution` | what is admitted is signed, sanitized and means what was sent; account rules through CPI; commit and cache; program input | payer, account, SBF program, builtin and MagicRoot, stack of 3, up to 3 transactions in a row, upgrades and deletions simulated and not; all small messages of every version, five of them with every byte changed, removed or inserted; up to 3 accounts with every duplicate pattern |
| `keeper` | admitted once, no subscriber missed, leases exclusive, recency exact, calls end; startup covers the ledger; shutdown in order, truthful, ending | 2 transactions over 3 slots, a second admission each; 2 subscribers of 1 transaction over 2 slots; 2 calls on 2 accounts with a cache of 1; 2 transactions, 2 blocks, each sealed, and 3 starts; 3 services in 2 tiers |
| `replication` | the follower's ledger is a gapless run of the leader's, one stream per identity, a client that is told to stop ends | 2 connections, 5 blocks with 3 transactions, a sealed past and a seal that is streamed, a checkpoint, batches of 2, 1 fault, lag of 1 |
| `recovery` | violated: `OpenedIsConsistent` | as `keeper` |
| `replication_restart` | violated: `PositionSuffices` | 2 faults, batches of 1 |

Bounds are named constants in guards. They were chosen so that every action
fires, and so that a plausible slip in the code for each property (a dropped
guard, a missing reset, a swapped order) is found by the same instance.
Deadlock checking is off where bounded producers simply stop.

Some bounds need a word. In `Recovery` the process does nothing after its last
start, so that every crash is followed by a start that is looked at. In
`Replication` the leader's past (`Past`: a sealed superblock, archived and
dropped, then a block with two transactions and a checkpoint) and the
transactions of its blocks (`Load`) are fixed; what varies is how workers,
client and faults interleave with them. The follower has restored the archive of
the first superblock, or is new and then no fault happens. TLC confirms that on
this instance a seal is streamed and checked, a stream crosses into the next
superblock, a batch fills, history is dropped under a follower, the snapshot is
fetched, no archive is found, a wait for a block times out and a client told to
stop first loses its connection.

Liveness of calls, threads and transactions that the model cannot tell apart is
stated for one of them, chosen once; symmetry of the specification gives it for
the others.

### What the properties except

Where the code has a gap that TLC found, the property names exactly that gap;
where a line of the repository denies the gap, the property without the
exception is in the table below. The last three are limits of the model.

- `QueriesAnswer`, `HistorySurvives`: `rotate` stores the new head and then the
  count. A request or a crash in between leaves out the oldest superblock, and
  nothing else does.
- `QueriesAnswer`: a block query over a block that a crash left unindexed, or
  over a seal that a crash left in the head.
- `AdmittedOnce`: transactions in `exposed`. The pacemaker sends its last block
  before the engine refuses work, so a transaction that names that block can be
  executed behind it; the restarted leader accepts the block's hash and has no
  signatures.
- `SubscriberIsServed`: receivers in `missed`, whose call found the result neither
  cached nor indexed although it exists (the indexer lags behind the expiry of the
  cache, or a crash left the block unindexed), and results hidden by refusing
  their transaction again.
- `OpenedCoversLedger`: stores opened while `misled`. The archive restored is of a
  seal that was never published and whose number another one took, or the count
  lags behind the cursor since a crash and an older store passes for current.
- `CacheMatchesStore`: programs in `leaked`, whose entry a simulation merged.
- `BookkeepingIsExact`: the memory regions of executable accounts, which a call
  passes as they are and does not map again.
- `RecencyMatches`: assumes that a consumer of evictions is registered and that
  its deletes succeed.
- `SpansPartition` and its companions: batches of one account; what larger
  batches do is in the table below.

### Where code and comments disagree

Two disagreements are violation runs with findings in `PROJECT.json`: startup
keeps a store that has transactions and a superblock the ledger never published
(`recovery`), and a follower restarted in the middle of a block cannot continue
from its synchronized position (`replication_restart`).

The others are stated in the modules, outside the listed runs. TLC violates each
with the configuration named, changed as said, and no fairness in the specification.

| Property | Start from | Change | Behaviour and the line it contradicts |
|---|---|---|---|
| `LookupFinds` | `MCLedger.cfg` | none | a lookup between the stores of head and count (`appender.rs:133`) skips the oldest superblock; `ledger/src/lib.rs:131` "Iterates retained superblocks from newest to oldest." |
| `SealEndsSuperblock` | `MCLedgerCrash.cfg` | none | after a crash between seal and rotation, entries follow the seal; `ledger/src/lib.rs:293` "delimited by block entries and a superblock seal" |
| `TransactionsCounted` | `MCLedgerCrash.cfg` | none | a crash between cursor and count (`appender.rs:234`) loses transactions from the count; `storage.rs:263` "Total transactions committed since genesis." |
| `BlocksReadBack` | `MCLedgerCrash.cfg` | none | a block published but not indexed before a crash makes the next block's query report corruption; `reader.rs:411` "Slots are contiguous" |
| `LoadReturnsStored` | `MCAccountsDB.cfg` | 2 keys of 1 unit in modes Mirrored, Delegated and Undelegating, `MaxWrites = 6`, no fault, no symmetry | an account that leaves persistence is copied to volatile storage after its span was freed, and another executor reused it (`accountsdb/src/lib.rs:94`); line 81 "Other modes are kept in volatile storage." |
| `FailedStoreRollsBack` | `MCAccountsDB.cfg` | `MaxBatch = 2`, `MaxWrites = 6` | a span freed and reused inside a failing batch is not restored; `store/mod.rs:88` "borrowed images are rolled back so in-memory state stays aligned with the durable index" |
| `ReadsOwnAccount` | `MCAccounts.cfg` | none | a read begun before a deletion returns words of the account that took the span; `cow/mod.rs:690` "cannot be relocated or reused while views access it" |
| `SimulationLeavesCache` | `MCExecution.cfg` | none | a simulated upgrade merges its program into the cache executors share (`transaction_processor.rs:233`); `processor/src/simulator.rs:91` "without persisting any state" |
| `NeverAdmittedTwice` | `MCKeeper.cfg` | none | a transaction executed between the last block of a shutdown and the Shutdown marker, and naming that block, is admitted again after the restart; `keeper/src/accessor.rs:187` "deduplicating by the first 16 signature bytes" |
| `RetainedResultIsFound` | `MCKeeper.cfg` | none | a resubmission refused for its block hash leaves a reservation that hides the retained result; `keeper/src/accessor.rs:159` "including an already retained result" |

Without faults `SealEndsSuperblock` and `TransactionsCounted` hold on the
`ledger` instance. The header check of `sanitize.rs:78` subtracts with wrapping
arithmetic before the count it relies on is checked; `AccessIsExact` shows that
the checks together are exact all the same.

## Fairness

- `Sequencer`: weak fairness of each thread's steps and of releasing a guard. The
  threads loop until they stop, and holders of a guard drop it. Inbound messages
  are bounded; the biased `select` prefers them, so with unbounded input the
  shutdown signal is only served because earlier tiers stop sending.
- `Readers`: weak fairness of each thread once inside `enter`, `drop` or `pause`,
  of buffers and of the membarrier. That scopes end is a premise of the property.
- `Ledger`: weak fairness of appender, worker and indexer, plain loops over
  their queues. Nothing is assumed of producers.
- `Leases`: weak fairness of each call: its task is polled, a submitted
  transaction executes (`StreamIsServed`), and a caller that holds a lease uses
  or drops it. Nothing makes callers start or cancel.
- `Shutdown`: weak fairness of the manager only, timeouts included; services may
  never report.
- `Replication`: weak fairness of the client, of its sequencer, of each
  connection worker and of the leader's heartbeat, which makes blocks as long as
  the leader is up. Nothing makes the leader stop, connections break or requests
  for shutdown come. A client that drains and waits for its block ends. Before
  that it ends too, unless the bound on blocks is reached first
  (`NoMoreBlocks`), where the code's leader would make another.

## What is proved

TLAPS proves the following for every value of the constants that satisfies the
assumption named in the component's module. Each theorem has the form
`Spec => []Property` (or `Spec => Property` for a refinement or an action
property). The runs check the same properties on their instances; those of the
table are conjuncts or consequences of `TableInv`.

| Modules | Theorems about | Properties |
|---|---|---|
| `OrderingTableProofs` | `TableSpec` | `TableInv`, `TableTypeOK`, `ConflictsFollowStream`, `TakenDisjoint`, `NothingLost`, `BlockedOnlyByConflict` |
| `SequencerLemmas`, `ExecutorProofs`, `LedgerProofs`, `SequencerProofs` | `Sequencer` | `TableSpec`, `TableInv`, `ExecutionIsSerial`, `BlocksAreExact`, `QuiescentWhilePaused` |
| `ReadersProofs` | `Readers`, `AccountImage` | `RelocationIsExclusive`; `ReadsAreCommitted` |
| `LeasesProofs`, `KeeperProofs` | `Keeper` | `LeaseCoversMutation`, `RecencyMatches`; `TiersStopInOrder`, `OutcomeIsTrue` |

None of these properties is inductive. Each proof states a stronger invariant,
shows that the initial states satisfy it and that each action keeps it (one
lemma per action, one step per conjunct it can disturb), and derives the
property. The bounds of the models (`MaxTxns`, `MaxPauses`, `MaxWrites`...) are
arbitrary natural numbers in the theorems, so no theorem depends on one.

`SequencerLemmas` states the invariant of the sequencer and has the steps of its
control loop, `ExecutorProofs` those of the executor threads and `LedgerProofs`
those that change the ledger, the table or the chain. They take what a step does
to the table as a hypothesis, which `SequencerProofs` gets from
`OrderingTableProofs`.

**Ordering table.** The table records an edge only to the latest writer of an
account and to the readers since, so that an older conflicting ticket is
unfinished is visible only through a chain of edges. `TableInv` adds what makes
the chain hold: each frontier names the latest writer and the later readers
(`Frontiers`), edges and predecessor counts agree (`Edges`), each conflict
between unfinished tickets is covered by an edge or by one from a ticket that
itself follows the earlier (`EdgesCover`), and no ticket leaves `blocked` before
the earlier conflicting ones are done (`StreamOrder`). Assumed: a request
accesses an account for writing or for reading, not for both; ingress rejects
duplicate keys.

**Sequencer.** `SequencerInv` says where a transaction can be between the table
and the ledger. A ticket that was handed out is in exactly one place: in one
executor's channel, behind every block boundary of that channel (`ChannelInv`),
run, or reported (`WorkInv`). The blocks an executor has still to read bring its
environment up to the sequencer's slot (`EnvInv`). Ledger, block hasher and the
table's stream agree (`ChainInv`), what is committed is what was completed or is
reported (`CommitInv`), and each account holds its last committed write
(`StoreInv`). With it every step of every thread is a step of `TableNext` or
leaves the table alone, so `Spec => TableSpec`: only tickets that were handed
out are completed, and the table is reset only when empty. The order the table
keeps, `CommitInv` and `StoreInv` then give serial execution. Assumed: a finite,
nonempty set of executors, and positive capacities.

**Readers.** No fence orders a reader's announcement before its look at the
gate. `ReadersInv` says what the membarrier makes of that: once it has reached
a thread, a thread that still reads was admitted before, and neither its slot in
memory nor any buffered store to it is zero (`FenceInv`); so the scan sees it,
and a slot the scan found inactive stays so while the gate is closed
(`ScanInv`). Assumed: positive depth and buffer.

**Account images.** `ImageInv` says that the shadow a writer prepares belongs to
the current sequence number (`VersionInv`), and that a reader whose number may
still be the current one when it ends, also after a rollback, has copied words
of the copy active under that number (`ReaderInv`). `ReadsAreCommitted` is an
action property, derived from it for the step in which a reader accepts.

**Leases.** A mutation outlives the call that submitted it. `LeaseInv` therefore
accounts for a lease in the hands of a call or of its tasks, and in one of them
only (`OwnerInv`); says that what was observed under a lease stays true under it
(`ObservedInv`); and that recency agrees with what is stored, except between the
execution of a change and its bookkeeping (`TrackedInv`). Assumed: images and
requests of the shape the code builds, and a positive capacity.

**Shutdown.** `ShutdownInv` keeps `pending` equal to the number of services of a tier without
a report, whichever tier a report is taken under, and the outcome equal to the
first of the strongest reasons met. Assumed: finitely many services, each in a
tier. Leases and shutdown are proved of `Keeper`, next to its other parts.

Only model-checked:

- Liveness (`StreamIsServed`, `ReadersProgress`, `SealCompletes`,
  `CallsFinish`, `TerminateReturns`, `ShutdownEnds`): TLAPS has
  no rules here for fairness and `ENABLED`.
- What a recursion computes for every input, as that needs induction over data:
  replay from the ledger (`OpenedCoversLedger`), frames and
  parameters (`FramesRebuild`, `ParametersAgree`), the folds over the free list
  (`SpansPartition`).
- Not yet proved: `Replication` (`FollowsLeader`, `StopsAtBoundary`), `AccountsDB`
  (`OwnersMatch`, `PersistentReturnsStored`), `Ledger` (`LookupSound`,
  `PublishedNeverChanges`), `CowAccount`, admission
  (`AdmittedOnce`, `SubscriberIsServed`), and the execution of one transaction
  (`ProgramRuntime`, `Svm`, `MagicRoot`).

## Not modelled

- What programs compute, the interpreter, syscalls other than CPI, deployment
  and the memory pool: out of TLC's reach. A program is the stores and calls it
  may make, and its heap is not charged.
- Hashing, cryptography, codecs, metrics and logging: no property depends on
  them. Collisions of shortened signature and account keys are not considered.
- Power loss: a crash is of the process, and what was written to files and maps
  is there afterwards. A crash inside packing, checksums and the copying of
  snapshot files.
- Weak memory beyond the store buffers of `Readers`.
- A reader that looks into both backends of account storage while an account
  moves between them.
- Filters and bounded queues of the account, program, log and slot
  subscriptions; what a reset does to volatile accounts.
- Return data, the instructions sysvar, timings and balance recording of the
  SVM fork. Address lookups are parsed and then refused, as the engine resolves
  none.
- Constructors and serde implementations of accounts, thread-local messages, the
  sample calculator program, configuration.
