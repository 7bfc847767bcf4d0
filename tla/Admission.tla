------------------------------ MODULE Admission ------------------------------
(***************************************************************************)
(* Which transactions the keeper admits, and how their results are found:  *)
(* the recent-blockhash and signature caches (keeper/src/cache.rs), append,*)
(* commit_execution, commit_replay, status and subscribe_signature         *)
(* (accessor.rs), signature fan-out (subscriptions.rs) and the caches a    *)
(* restarted leader builds (builder.rs).                                   *)
(*                                                                         *)
(* A transaction is its signature; two with one 128-bit prefix are one.    *)
(* `hash` is the slot of the block whose hash it names.  The keeper's      *)
(* sequencer appends transactions and blocks, and a block only when every  *)
(* admitted transaction has been committed (Sequencer).                    *)
(***************************************************************************)
EXTENDS Integers, Sequences, SequencesExt

CONSTANTS
    Txs,             \* transactions
    Receivers,       \* subscribe_signature calls, and the receivers they return
    BlockTtl,        \* slots of BLOCK_CACHE_WINDOW
    SignatureTtl,    \* slots of SIGNATURE_CACHE_WINDOW
    EvictionLimit,   \* EVICTION_LIMIT
    Superblock,      \* blocks of a superblock; a snapshot is kept of its last
    Named            \* slots of the blocks that transactions name

ASSUME AdmissionAssumption ==
    /\ BlockTtl \in Nat \ {0} /\ SignatureTtl \in Nat /\ BlockTtl <= SignatureTtl
    /\ EvictionLimit \in Nat \ {0} /\ Superblock \in Nat \ {0}

VARIABLES
    hash,            \* block every transaction names
    latest,          \* slot of the latest block
    blocks,          \* blockhash cache, keyed by slot
    signatures,      \* signature cache
    record,          \* slot every transaction was executed in, 0 if none
    holes,           \* slots that AccountsDB has and the ledger does not
    indexed,         \* executed transactions the ledger's reader can answer for
    times,           \* how often the surviving history admitted a transaction
    refused,         \* executed transactions resubmitted and refused for their block
    exposed,         \* executed behind the last block of a shutdown, naming that block
    missed,          \* receivers whose call found a result neither cached nor indexed
    unindexed,       \* transactions that a crash left published and never indexed
    checked,         \* block at which AccountsDB's checksum was last taken, or NoBlock
    startSlot,       \* latest block when the process started
    senders,         \* registered receivers of every signature
    keys,            \* counter of registered keys
    job,             \* step of every commit and of every subscribe_signature
    inbox            \* receivers: "new", "open", "served" or "closed"

startup == <<hash, holes, exposed, unindexed, checked, startSlot>>
admissionVars == <<latest, blocks, signatures, record, indexed, times,
                   refused, missed, senders, keys, job, inbox, startup>>

-----------------------------------------------------------------------------
(* ExpiringCache: values by key, and the keys in the order they expire.     *)

EmptyCache == [index |-> <<>>, queue |-> <<>>]

ExpiredAt(entry, slot) == slot >= entry.expires

(* The sweep of a push: at most EvictionLimit expired entries at the front. *)
Swept(cache, slot) ==
    LET n == Max({0} \cup {i \in 1..Len(cache.queue) : i <= EvictionLimit
                             /\ \A j \in 1..i : ExpiredAt(cache.queue[j], slot)})
        gone == {cache.queue[i].key : i \in 1..n}
    IN  [index |-> Restrict(cache.index, DOMAIN cache.index \ gone),
         queue |-> SubSeq(cache.queue, n + 1, Len(cache.queue))]

Cached(cache, key) == key \in DOMAIN cache.index

(* push: an entry that is still there keeps its value and its expiry. *)
Pushed(cache, key, value, slot, ttl) ==
    LET swept == Swept(cache, slot) IN
    IF Cached(swept, key) THEN swept
    ELSE [index |-> (key :> value) @@ swept.index,
          queue |-> Append(swept.queue, [key |-> key, expires |-> slot + ttl])]

PushAccepts(cache, key, slot) == ~Cached(Swept(cache, slot), key)

Updated(cache, key, value) ==
    IF Cached(cache, key) THEN [cache EXCEPT !.index[key] = value] ELSE cache

BlockPushed(cache, slot) == Pushed(cache, slot, slot, slot, BlockTtl)

-----------------------------------------------------------------------------
NoBlock == -1

NoJob == [at |-> "none", tx |-> "none", batch |-> {}]

AdmissionInit ==
    /\ hash \in [Txs -> Named]
    /\ latest = 0
    /\ blocks = BlockPushed(EmptyCache, 0)
    /\ signatures = EmptyCache
    /\ record = [t \in Txs |-> 0] /\ indexed = {}
    /\ times = [t \in Txs |-> 0] /\ refused = {} /\ missed = {}
    /\ exposed = {} /\ unindexed = {} /\ holes = {}
    /\ checked = NoBlock /\ startSlot = 0
    /\ senders = [t \in Txs |-> {}] /\ keys = 0
    /\ job = [j \in Txs \cup Receivers |-> NoJob]
    /\ inbox = [r \in Receivers |-> "new"]

At(j, at) == job[j].at = at

(* TransactionsAccessor::append.  A refused signature stays reserved.       *)
(* Bound: what has been admitted twice is not submitted again.              *)
AppendTransaction(t) ==
    LET slot == latest + 1 IN
    /\ At(t, "none") /\ times[t] < 2
    /\ signatures' = Pushed(signatures, t, FALSE, slot, SignatureTtl)
    /\ IF PushAccepts(signatures, t, slot) /\ Cached(blocks, hash[t])
       THEN /\ times' = [times EXCEPT ![t] = @ + 1]
            /\ job' = [job EXCEPT ![t].at = "queued", ![t].tx = t]
       ELSE UNCHANGED <<times, job>>
    /\ refused' = IF PushAccepts(signatures, t, slot) /\ ~Cached(blocks, hash[t]) /\ record[t] > 0
                  THEN refused \cup {t} ELSE refused
    /\ UNCHANGED <<startup, missed, latest, blocks, record, indexed, senders, keys, inbox>>

(* Mutant: the status is never cached. *)
CommitUncached(t) ==
    /\ At(t, "queued")
    /\ record' = [record EXCEPT ![t] = latest + 1]
    /\ job' = [job EXCEPT ![t].at = "send"]
    /\ UNCHANGED <<startup, refused, missed, latest, blocks, signatures, indexed, times, senders, keys, inbox>>

(* commit_execution up to its last two statements: the execution event and  *)
(* the account changes.                                                     *)
CommitExecution(t) ==
    /\ At(t, "queued")
    /\ record' = [record EXCEPT ![t] = latest + 1]
    /\ job' = [job EXCEPT ![t].at = "cache"]
    /\ UNCHANGED <<startup, refused, missed, latest, blocks, signatures, indexed, times, senders, keys, inbox>>

(* The status is cached before it is fanned out. *)
CacheStatus(t) ==
    /\ At(t, "cache")
    /\ signatures' = Updated(signatures, t, TRUE)
    /\ job' = [job EXCEPT ![t].at = "send"]
    /\ UNCHANGED <<startup, refused, missed, latest, blocks, record, indexed, times, senders, keys, inbox>>

(* BlocksAccessor::append, when the sequencer has drained.  The last block  *)
(* of a superblock is followed by a snapshot before work resumes.           *)
AppendBlock ==
    /\ \A t \in Txs : At(t, "none")
    /\ latest' = latest + 1
    /\ blocks' = BlockPushed(blocks, latest + 1)
    /\ checked' = IF (latest + 1) % Superblock = 0 THEN latest + 1 ELSE checked
    /\ UNCHANGED <<hash, holes, refused, missed, exposed, unindexed, startSlot, signatures,
                   record, indexed, times, senders, keys, job, inbox>>

(* The ledger's indexer reaches a published block (Ledger); what was        *)
(* published before the process started is not indexed again.               *)
IndexBlock ==
    \E upto \in 1..latest :
        LET fresh == {t \in Txs \ unindexed : record[t] \in 1..upto} IN
        /\ indexed \subseteq fresh /\ indexed # fresh
        /\ indexed' = fresh
        /\ UNCHANGED <<startup, refused, missed, latest, blocks, signatures, record, times,
                       senders, keys, job, inbox>>

-----------------------------------------------------------------------------
(* Signature subscriptions.                                                 *)

(* Subscribers::insert: the first receiver of a key counts it. *)
Subscribe(r, t) ==
    /\ inbox[r] = "new"
    /\ senders' = [senders EXCEPT ![t] = @ \cup {r}]
    /\ keys' = IF senders[t] = {} THEN keys + 1 ELSE keys
    /\ inbox' = [inbox EXCEPT ![r] = "open"]
    /\ job' = [job EXCEPT ![r].at = "status", ![r].tx = t]
    /\ UNCHANGED <<startup, refused, missed, latest, blocks, signatures, record, indexed, times>>

(* status: a cached entry answers, even one without a result. *)
ReadStatus(r) ==
    /\ At(r, "status")
    /\ job' = [job EXCEPT ![r].at = IF ~Cached(signatures, job[r].tx) THEN "ask"
                                    ELSE IF signatures.index[job[r].tx] THEN "send"
                                    ELSE "none"]
    /\ UNCHANGED <<startup, refused, missed, latest, blocks, signatures, record, indexed, times, senders, keys, inbox>>

AskLedger(r) ==
    LET t == job[r].tx IN
    /\ At(r, "ask")
    /\ job' = [job EXCEPT ![r].at = IF t \in indexed THEN "send" ELSE "none"]
    /\ missed' = IF record[t] > 0 /\ At(t, "none") /\ t \notin indexed /\ ~Cached(signatures, t)
                 THEN missed \cup {r} ELSE missed
    /\ UNCHANGED <<startup, refused, latest, blocks, signatures, record, indexed, times, senders, keys, inbox>>

(* Signatures::send, by a commit or by a subscriber that found a result:    *)
(* nothing when no key is counted, else the key's receivers are detached,   *)
(* then the key uncounted, then the receivers served.                       *)
Detach(j) ==
    LET t == job[j].tx IN
    /\ At(j, "send")
    /\ IF keys = 0 \/ senders[t] = {}
       THEN job' = [job EXCEPT ![j] = NoJob] /\ UNCHANGED senders
       ELSE /\ job' = [job EXCEPT ![j].at = "count", ![j].batch = senders[t]]
            /\ senders' = [senders EXCEPT ![t] = {}]
    /\ UNCHANGED <<startup, refused, missed, latest, blocks, signatures, record, indexed, times, keys, inbox>>

Uncount(j) ==
    /\ At(j, "count")
    /\ keys' = keys - 1
    /\ job' = [job EXCEPT ![j].at = "deliver"]
    /\ UNCHANGED <<startup, refused, missed, latest, blocks, signatures, record, indexed, times, senders, inbox>>

Deliver(j) ==
    /\ At(j, "deliver")
    /\ inbox' = [r \in Receivers |-> IF r \in job[j].batch /\ inbox[r] = "open"
                                     THEN "served" ELSE inbox[r]]
    /\ job' = [job EXCEPT ![j] = NoJob]
    /\ UNCHANGED <<startup, refused, missed, latest, blocks, signatures, record, indexed, times, senders, keys>>

(* A client drops its receiver, or its call while it awaits the ledger. *)
DropReceiver(r) ==
    /\ inbox[r] = "open" /\ job[r].at \in {"none", "ask"}
    /\ inbox' = [inbox EXCEPT ![r] = "closed"]
    /\ job' = [job EXCEPT ![r] = NoJob]
    /\ UNCHANGED <<startup, refused, missed, latest, blocks, signatures, record, indexed, times, senders, keys>>

(* The cleanup task reaches a key: closed receivers go, and the key with    *)
(* the last one.                                                            *)
Cleanup(t) ==
    LET open == {r \in senders[t] : inbox[r] # "closed"} IN
    /\ keys > 0 /\ open # senders[t]
    /\ senders' = [senders EXCEPT ![t] = open]
    /\ keys' = IF open = {} THEN keys - 1 ELSE keys
    /\ UNCHANGED <<startup, refused, missed, latest, blocks, signatures, record, indexed, times, job, inbox>>

-----------------------------------------------------------------------------
(* Restart of a leader.  Its caches start at AccountsDB's latest block.     *)

Boundary(s) == BlockPushed(EmptyCache, s)

(* Replay pushes the hash of every block after it, and the signature of     *)
(* every transaction executed since, in ledger order.                       *)
ReplayedBlocks(from, tip) ==
    FoldLeft(BlockPushed, Boundary(from), SetToSortSeq((from + 1 .. tip) \ holes, <))

(* Mutant: replay does not remember signatures. *)
ReplayedNone(from, ledger) == EmptyCache

ReplayedSignatures(from, ledger) ==
    FoldLeft(LAMBDA cache, t : Pushed(cache, t, TRUE, ledger[t], SignatureTtl), EmptyCache,
             SetToSortSeq({t \in Txs : ledger[t] > from}, LAMBDA a, b : ledger[a] < ledger[b]))

Forgotten ==
    /\ senders' = [t \in Txs |-> {}] /\ keys' = 0
    /\ inbox' = [r \in Receivers |-> IF inbox[r] = "open" THEN "closed" ELSE inbox[r]]
    /\ job' = [j \in Txs \cup Receivers |-> NoJob]
    /\ refused' = {} /\ missed' = {}

(* A clean shutdown.  The pacemaker has appended its last block, if it      *)
(* could; work that reached the sequencer between it and the Shutdown       *)
(* marker is executed, and the final sync publishes and indexes it.  The    *)
(* store is current, so nothing is replayed.                                *)
Restart ==
    /\ \A t \in Txs : At(t, "none")
    /\ blocks' = Boundary(latest) /\ signatures' = EmptyCache
    /\ indexed' = {t \in Txs \ unindexed : record[t] > 0}
    /\ exposed' = exposed \cup {t \in Txs : record[t] > latest /\ hash[t] = latest}
    /\ checked' = latest /\ startSlot' = latest
    /\ Forgotten
    /\ UNCHANGED <<hash, holes, latest, record, times, unindexed>>

(* A crash.  The ledger keeps the blocks that the appender had published,   *)
(* among them those of the last start and the indexed ones; work of the     *)
(* open block is published with the next one, or was with a final sync.     *)
PublishedTips ==
    LET known == {s \in 0..latest : s <= startSlot \/ \E t \in indexed : record[t] = s}
    IN  {s \in 0..latest \ holes : s >= Max(known \ holes)}

(* The transaction is in the ledger up to `tip`, or the store of `from`.    *)
Survives(t, from, tip) ==
    \/ record[t] \in 1..tip /\ (record[t] \notin holes \/ record[t] <= from)
    \/ record[t] > latest /\ t \in indexed

Surviving(from, tip) == [t \in Txs |-> IF Survives(t, from, tip) THEN record[t] ELSE 0]

AdmissionsLeft(from, tip) ==
    [t \in Txs |-> IF (record[t] > 0 /\ ~Survives(t, from, tip)) \/ At(t, "queued")
                   THEN times[t] - 1 ELSE times[t]]

(* The store has changed since its last checksum: the snapshot of a sealed  *)
(* superblock is restored and the ledger replayed from there.               *)
CrashAndReplay ==
    \E tip \in PublishedTips : \E from \in {s \in 1..tip \ holes : s % Superblock = 0} :
        /\ latest' = tip
        /\ record' = Surviving(from, tip)
        /\ times' = AdmissionsLeft(from, tip)
        /\ blocks' = ReplayedBlocks(from, tip)
        /\ signatures' = ReplayedSignatures(from, record')
        /\ holes' = holes \cap 1..from
        /\ unindexed' = {t \in Txs : record'[t] > 0} \ indexed
        /\ checked' = tip /\ startSlot' = tip
        /\ Forgotten
        /\ UNCHANGED <<hash, indexed, exposed>>

(* The store is as it was at its last checksum: it is kept, whatever the    *)
(* ledger has, and nothing is replayed.  Work of the open block, which left *)
(* no trace in it, is forgotten.                                            *)
CrashAndKeep ==
    \E tip \in PublishedTips :
        /\ latest = checked
        /\ record' = Surviving(latest, latest)
        /\ times' = AdmissionsLeft(latest, latest)
        /\ blocks' = Boundary(latest) /\ signatures' = EmptyCache
        /\ holes' = holes \cup (tip + 1 .. latest)
        /\ unindexed' = {t \in Txs : record'[t] > 0} \ indexed
        /\ startSlot' = latest
        /\ Forgotten
        /\ UNCHANGED <<hash, latest, indexed, exposed, checked>>
=============================================================================
