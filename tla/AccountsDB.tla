----------------------------- MODULE AccountsDB -----------------------------
(***************************************************************************)
(* The account store (accountsdb/src/lib.rs, store/, volatile.rs): account *)
(* images in mapped storage, the LMDB index over them with its list of     *)
(* free spans, the in-memory store of base mirrors, and the packing pass   *)
(* of a snapshot.  Executors store the accounts of the transaction they    *)
(* ran; the sequencer keeps their accounts disjoint, and runs the packing  *)
(* pass and the reset with the executors idle.                             *)
(*                                                                         *)
(* Storage is measured in units and an image lies at its first unit.  An   *)
(* account's contents are its mode, owner, size and the number of the      *)
(* write that produced it.                                                 *)
(***************************************************************************)
EXTENDS Integers, SequencesExt, AccountMode

CONSTANTS
    Key,                \* account addresses
    Owner,              \* program addresses
    Units,              \* sizes of a serialized account
    Executor,           \* executor threads
    Nobody,             \* no executor
    Images,             \* modes, owners and sizes programs give an account
    STORAGE_CAPACITY,   \* units the mapping can hold
    STORAGE_BLOCK,      \* growth step of the file, in units
    MIN_REMAINDER,      \* smallest useful rest of a packed run
    MaxBatch,           \* bound on the accounts of a transaction
    MaxWrites,          \* bound on the accounts written
    MaxFaults           \* bound on index failures

ASSUME AccountsDBAssumption ==
    /\ Nobody \notin Executor
    /\ Images \subseteq [mode : AccountModes, owner : Owner, units : Units]
    /\ Units \subseteq Nat \ {0}
    /\ {STORAGE_CAPACITY, STORAGE_BLOCK, MIN_REMAINDER, MaxBatch} \subseteq Nat \ {0}
    /\ {MaxWrites, MaxFaults} \subseteq Nat
    /\ (STORAGE_CAPACITY + 1) % STORAGE_BLOCK = 0

VARIABLES
    memory,     \* image at each unit of the mapping
    cursor,     \* next fresh unit
    len,        \* length of the file, in units, the metadata's one included
    index,      \* committed LMDB tables: accounts, programs, freelist
    writer,     \* holder of the LMDB write lock
    volatile,   \* in-memory accounts, and those of each owner
    exec,       \* executors
    stored,     \* contents of each account as last stored successfully
    writes, faults

vars == <<memory, cursor, len, index, writer, volatile, exec, stored, writes, faults>>

Offset == 0 .. STORAGE_CAPACITY - 1

NoImage == [units |-> 0]

(* What the bytes of a shadow image hold before its first translation. *)
Unwritten == [mode |-> "Missing", owner |-> Nobody, units |-> 0, stamp |-> 0]

(* AccountBuilder::default: an account that exists in neither store. *)
Fresh(owner) == [mode |-> "Missing", owner |-> owner, units |-> Min(Units), stamp |-> 0]

Absent == [mode |-> "Closed"]

NoAccounts == [accounts |-> <<>>, programs |-> [o \in Owner |-> {}]]

Init ==
    /\ memory = [o \in Offset |-> NoImage]
    /\ cursor = 0
    /\ len = STORAGE_BLOCK + 1
    /\ index = [accounts |-> <<>>, programs |-> {}, freelist |-> {}]
    /\ writer = Nobody
    /\ volatile = NoAccounts
    /\ exec = [x \in Executor |-> [pc |-> "idle"]]
    /\ stored = [k \in Key |-> Absent]
    /\ writes = 0 /\ faults = 0

-----------------------------------------------------------------------------
(* Borrowed images: two copies of the contents, the parity of `sequence` says  *)
(* which one is active.                                                        *)
Active(image) == 1 + (image.sequence % 2)

Shadow(sequence) == 2 - (sequence % 2)

Span(offset, units) == offset .. offset + units - 1

(* OwnedAccount::serialize: writes the prefix and the first image over what     *)
(* lay there; the bytes of the second image stay.                               *)
Serialized(mem, offset, key, contents) ==
    LET old == mem[offset]
        new == [units |-> contents.units, key |-> key, sequence |-> 0,
                image |-> <<contents,
                            IF old.units = contents.units THEN old.image[2] ELSE Unwritten>>]
    IN  [o \in Offset |->
            IF o = offset THEN new
            ELSE IF mem[o].units > 0 /\ Span(o, mem[o].units) \cap Span(offset, contents.units) # {}
            THEN NoImage ELSE mem[o]]

(* BorrowedAccount::commit and rollback through the view `e`. *)
Publish(mem, e) ==
    IF e.side = Shadow(e.version) /\ mem[e.offset].sequence = e.version
    THEN [mem EXCEPT ![e.offset].sequence = @ + 1] ELSE mem

Withdraw(mem, e) == [mem EXCEPT ![e.offset].sequence = @ - 1]

(* The contents an entry of a batch shows when it is read. *)
Contents(e) == IF e.form = "borrowed" THEN memory[e.offset].image[e.side] ELSE e.contents

-----------------------------------------------------------------------------
(* The index, as one write transaction sees it. *)
Removed(table, key) == [k \in DOMAIN table \ {key} |-> table[k]]

Added(table, key, row) == [k \in DOMAIN table \cup {key} |-> IF k = key THEN row ELSE table[k]]

IndexDelete(t, key) ==
    [t EXCEPT !.accounts = Removed(@, key),
              !.programs = @ \ {t.accounts[key]}]

IndexInsert(t, key, row) ==
    [t EXCEPT !.accounts = Added(@, key, row), !.programs = @ \cup {row}]

(* PersistedStore::free: the size is read from the image's header. *)
Freed(t, offset) == [t EXCEPT !.freelist = @ \cup {[units |-> memory[offset].units, offset |-> offset]}]

Deleted(t, key) ==
    IF key \in DOMAIN t.accounts THEN Freed(IndexDelete(t, key), t.accounts[key].offset) ELSE t

(* Mutant: the per-owner table is not updated. *)
OwnerUpdatedInPlace(t, key, owner) ==
    IF key \notin DOMAIN t.accounts THEN t ELSE [t EXCEPT !.accounts[key].owner = owner]

OwnerUpdated(t, key, owner) ==
    IF key \notin DOMAIN t.accounts THEN t
    ELSE IndexInsert(IndexDelete(t, key), key, [owner |-> owner, offset |-> t.accounts[key].offset])

(* MappedStorage::grow rounds the length up to a block. *)
Grown(end) ==
    IF end + 1 <= len THEN len ELSE ((end + STORAGE_BLOCK) \div STORAGE_BLOCK) * STORAGE_BLOCK

-----------------------------------------------------------------------------
(* Loading: memory first, then the persisted image, else a fresh account. *)
LoadEntry(key, owner) ==
    IF key \in DOMAIN volatile.accounts
    THEN [form |-> "owned", contents |-> volatile.accounts[key]]
    ELSE IF key \in DOMAIN index.accounts
    THEN LET o == index.accounts[key].offset
         IN  [form |-> "borrowed", offset |-> o, version |-> memory[o].sequence,
              contents |-> memory[o].image[Active(memory[o])]]
    ELSE [form |-> "owned", contents |-> Fresh(owner)]

(* What a transaction may leave in an account that held `old`. *)
Writable(old) ==
    {new \in {[mode |-> i.mode, owner |-> i.owner, units |-> i.units, stamp |-> writes + 1] :
                i \in Images} :
        \/ new.mode = old.mode /\ IsWritable(old.mode)
        \/ ValidMode(old.mode, new.mode)}

Markers(old, new) ==
    (IF old.mode # new.mode THEN {"MODE"} ELSE {}) \cup
    (IF old.owner # new.owner THEN {"OWNER"} ELSE {}) \cup {"DATA"}

(* A borrowed account is written in its shadow image, and promoted when its    *)
(* data outgrows the image.                                                    *)
Executed(key, loaded, new) ==
    LET markers == Markers(loaded.contents, new)
    IN  IF loaded.form = "borrowed" /\ new.units <= memory[loaded.offset].units
        THEN [key |-> key, form |-> "borrowed", offset |-> loaded.offset, markers |-> markers,
              version |-> loaded.version, side |-> Shadow(loaded.version), wrote |-> new]
        ELSE [key |-> key, form |-> "owned", contents |-> new, markers |-> markers, wrote |-> new]

ShadowWritten(mem, e) ==
    IF e.form = "borrowed" THEN [mem EXCEPT ![e.offset].image[e.side] = e.wrote] ELSE mem

Held(x) == IF exec[x].pc = "idle" THEN {} ELSE {e.key : e \in ToSet(exec[x].batch)}

(* One more account of the transaction at hand: loaded, written by its program. *)
Execute(x) ==
    /\ writes < MaxWrites
    /\ exec[x].pc \in {"idle", "execute"}
    /\ exec[x].pc = "execute" => Len(exec[x].batch) < MaxBatch
    /\ \E key \in Key \ UNION {Held(y) : y \in Executor} : \E owner \in Owner :
           LET loaded == LoadEntry(key, owner)
           IN  \E new \in Writable(loaded.contents) :
                   LET e == Executed(key, loaded, new)
                   IN  /\ memory' = ShadowWritten(memory, e)
                       /\ exec' = [exec EXCEPT ![x] =
                            [pc |-> "execute", next |-> 1, txn |-> index,
                             batch |-> IF @.pc = "idle" THEN <<e>> ELSE Append(@.batch, e)]]
    /\ writes' = writes + 1
    /\ UNCHANGED <<cursor, len, index, writer, volatile, stored, faults>>

(* The program ends and AccountsDB::commit begins. *)
Store(x) ==
    /\ exec[x].pc = "execute"
    /\ exec' = [exec EXCEPT ![x].pc = "apply"]
    /\ UNCHANGED <<memory, cursor, len, index, writer, volatile, stored, writes, faults>>

-----------------------------------------------------------------------------
(* PersistedStore::upsert. *)
Persisted(e) ==
    \/ e.form = "borrowed"
    \/ RequiresPersistence(Contents(e).mode)
    \/ Contents(e).mode = "Closed"
    \/ "MODE" \in e.markers

Entry(x) == exec[x].batch[exec[x].next]

Applying(x) ==
    /\ exec[x].pc = "apply"
    /\ exec[x].next <= Len(exec[x].batch)
    /\ UNCHANGED <<index, volatile, stored, writes, faults>>

Applied(x, t) == exec' = [exec EXCEPT ![x].next = @ + 1, ![x].txn = t]

(* Mutant: the transaction continues from the tables the loader saw. *)
TxnOfLoader(x) == exec[x].txn

(* write_txn: opens the transaction on first use; LMDB admits one writer. *)
Txn(x) == IF writer = x THEN exec[x].txn ELSE index

Lock(x) == writer \in {Nobody, x} /\ writer' = x

SkipEntry(x) ==
    /\ Applying(x)
    /\ ~Persisted(Entry(x))
    /\ Applied(x, exec[x].txn)
    /\ UNCHANGED <<memory, cursor, len, writer>>

(* The mode no longer requires persistence. *)
DeleteEntry(x) ==
    /\ Applying(x)
    /\ Persisted(Entry(x)) /\ ~RequiresPersistence(Contents(Entry(x)).mode)
    /\ Lock(x)
    /\ Applied(x, Deleted(Txn(x), Entry(x).key))
    /\ memory' = IF Entry(x).form = "borrowed" THEN Publish(memory, Entry(x)) ELSE memory
    /\ UNCHANGED <<cursor, len>>

(* A borrowed image is published in place. *)
UpdateEntry(x) ==
    LET e == Entry(x)
    IN  /\ Applying(x)
        /\ e.form = "borrowed" /\ RequiresPersistence(Contents(e).mode)
        /\ IF "OWNER" \in e.markers
           THEN Lock(x) /\ Applied(x, OwnerUpdated(Txn(x), e.key, Contents(e).owner))
           ELSE UNCHANGED writer /\ Applied(x, exec[x].txn)
        /\ memory' = Publish(memory, e)
        /\ UNCHANGED <<cursor, len>>

(* An owned image takes a free span of its size, or a fresh one; the span of    *)
(* the previous image is freed after that.                                      *)
SerializeAt(x, t, offset) ==
    LET e == Entry(x)
        row == [owner |-> e.contents.owner, offset |-> offset]
    IN  /\ Applied(x, IndexInsert(Deleted(t, e.key), e.key, row))
        /\ memory' = Serialized(memory, offset, e.key, e.contents)

FreeSpans(t, units) == {h \in t.freelist : h.units = units}

InsertEntry(x) ==
    LET e == Entry(x)
        t == Txn(x)
    IN  /\ Applying(x)
        /\ e.form = "owned" /\ RequiresPersistence(e.contents.mode)
        /\ Lock(x)
        /\ \/ \E h \in FreeSpans(t, e.contents.units) :
                  /\ SerializeAt(x, [t EXCEPT !.freelist = @ \ {h}], h.offset)
                  /\ UNCHANGED <<cursor, len>>
           \/ /\ FreeSpans(t, e.contents.units) = {}
              /\ cursor + e.contents.units <= STORAGE_CAPACITY
              /\ SerializeAt(x, t, cursor)
              /\ cursor' = cursor + e.contents.units
              /\ len' = Grown(cursor')

(* The batch ends: the index transaction, if any, is committed. *)
CommitIndex(x) ==
    /\ exec[x].pc = "apply"
    /\ exec[x].next > Len(exec[x].batch)
    /\ IF writer = x THEN index' = exec[x].txn /\ writer' = Nobody
                     ELSE UNCHANGED <<index, writer>>
    /\ exec' = [exec EXCEPT ![x].pc = "volatile"]
    /\ UNCHANGED <<memory, cursor, len, volatile, stored, writes, faults>>

(* Allocation or the index fails: the transaction is dropped, images published *)
(* so far are rolled back, and the executor stops with its accounts.           *)
OutOfSpace(x) ==
    LET e == Entry(x)
    IN  /\ exec[x].next <= Len(exec[x].batch)
        /\ e.form = "owned" /\ RequiresPersistence(e.contents.mode)
        /\ writer \in {Nobody, x}
        /\ FreeSpans(Txn(x), e.contents.units) = {}
        /\ cursor + e.contents.units > STORAGE_CAPACITY

IndexUsed(x) ==
    \/ writer = x
    \/ /\ writer = Nobody /\ exec[x].next <= Len(exec[x].batch)
       /\ Persisted(Entry(x))
       /\ \/ ~RequiresPersistence(Contents(Entry(x)).mode)
          \/ Entry(x).form = "owned" \/ "OWNER" \in Entry(x).markers

Borrowed(batch) == SelectSeq(batch, LAMBDA e : e.form = "borrowed")

FailStore(x) ==
    /\ exec[x].pc = "apply"
    /\ \/ OutOfSpace(x) /\ UNCHANGED faults
       \/ IndexUsed(x) /\ faults < MaxFaults /\ faults' = faults + 1
    /\ memory' = FoldLeft(Withdraw, memory, Borrowed(SubSeq(exec[x].batch, 1, exec[x].next - 1)))
    /\ writer' = IF writer = x THEN Nobody ELSE writer
    /\ exec' = [exec EXCEPT ![x].pc = "failed"]
    /\ UNCHANGED <<cursor, len, index, volatile, stored, writes>>

-----------------------------------------------------------------------------
(* VolatileStore::upsert, and the batch is stored. *)
IsVolatile(e) == e.form = "owned" \/ ~RequiresPersistence(Contents(e).mode)

(* The owner set is extended first; the previous owner's is trimmed last. *)
VolatileDelete(v, key) ==
    IF key \notin DOMAIN v.accounts THEN v
    ELSE [accounts |-> Removed(v.accounts, key),
          programs |-> [v.programs EXCEPT ![v.accounts[key].owner] = @ \ {key}]]

VolatileInsert(v, key, contents) ==
    LET listed == [v.programs EXCEPT ![contents.owner] = @ \cup {key}]
        moved == key \in DOMAIN v.accounts /\ v.accounts[key].owner # contents.owner
    IN  [accounts |-> Added(v.accounts, key, contents),
         programs |-> IF moved THEN [listed EXCEPT ![v.accounts[key].owner] = @ \ {key}]
                               ELSE listed]

VolatileUpsert(v, e) ==
    IF ~IsVolatile(e) THEN v
    ELSE IF RequiresPersistence(Contents(e).mode) \/ Contents(e).mode = "Closed"
    THEN VolatileDelete(v, e.key)
    ELSE VolatileInsert(v, e.key, Contents(e))

StoredAs(contents) == IF contents.mode = "Closed" THEN Absent ELSE contents

StoreVolatile(x) ==
    /\ exec[x].pc = "volatile"
    /\ volatile' = FoldLeft(VolatileUpsert, volatile, exec[x].batch)
    /\ stored' = [k \in Key |->
                    IF \E e \in ToSet(exec[x].batch) : e.key = k
                    THEN StoredAs((CHOOSE e \in ToSet(exec[x].batch) : e.key = k).wrote)
                    ELSE stored[k]]
    /\ exec' = [exec EXCEPT ![x] = [pc |-> "idle"]]
    /\ UNCHANGED <<memory, cursor, len, index, writer, writes, faults>>

Quiesced == \A x \in Executor : exec[x].pc = "idle"

(* AccountsDB::reset drops the mirrors. *)
ResetVolatile ==
    /\ Quiesced
    /\ volatile # NoAccounts
    /\ volatile' = NoAccounts
    /\ stored' = [k \in Key |-> IF k \in DOMAIN volatile.accounts THEN Absent ELSE stored[k]]
    /\ UNCHANGED <<memory, cursor, len, index, writer, exec, writes, faults>>

-----------------------------------------------------------------------------
(* Packing (store/defrag.rs).  A run is a maximal chain of adjacent holes.     *)
HoleEnd(h) == h.offset + h.units

RunEnd(holes, first) ==
    Min({HoleEnd(h) : h \in {g \in holes : /\ g.offset >= first.offset
                                           /\ ~\E n \in holes : n.offset = HoleEnd(g)}})

Runs(holes) ==
    {[start |-> h.offset, offset |-> h.offset, units |-> RunEnd(holes, h) - h.offset] :
        h \in {g \in holes : ~\E p \in holes : HoleEnd(p) = g.offset}}

(* Exact fit first, else the smallest run that leaves a useful rest; ties go to *)
(* the lowest offset.                                                           *)
Smallest(runs) ==
    CHOOSE r \in runs : \A s \in runs :
        r.units < s.units \/ (r.units = s.units /\ r.offset <= s.offset)

Fit(runs, units) ==
    LET exact == {r \in runs : r.units = units}
        useful == {r \in runs : r.units >= units + MIN_REMAINDER}
    IN  IF exact # {} THEN {Smallest(exact)}
        ELSE IF useful # {} THEN {Smallest(useful)} ELSE {}

(* The plan takes one account, from the tail down, into a run that ends below it. *)
PackOne(plan, src) ==
    LET units == memory[src].units
        fits == Fit({r \in plan.runs : r.units > 0 /\ HoleEnd(r) <= src}, units)
    IN  IF fits = {} THEN plan
        ELSE LET r == CHOOSE f \in fits : TRUE
             IN  [runs |-> (plan.runs \ {r}) \cup
                             {[r EXCEPT !.offset = @ + units, !.units = @ - units]},
                  moves |-> Append(plan.moves, [src |-> src, dst |-> r.offset, units |-> units])]

Pack ==
    LET sources == SetToSortSeq({index.accounts[k].offset : k \in DOMAIN index.accounts},
                                LAMBDA a, b : a > b)
    IN  FoldLeft(PackOne, [runs |-> Runs(index.freelist), moves |-> <<>>], sources)

(* First unit of the free suffix that the plan leaves. *)
CompactedTail(plan) ==
    LET free == plan.runs \cup {[offset |-> m.src, units |-> m.units] : m \in ToSet(plan.moves)}
    IN  Min({cursor} \cup
            {h.offset : h \in {f \in free : \A u \in f.offset .. cursor - 1 :
                                    \E g \in free : u \in Span(g.offset, g.units)}})

Copied(mem, m) ==
    [o \in Offset |->
        IF o = m.dst THEN mem[m.src]
        ELSE IF mem[o].units > 0 /\ Span(o, mem[o].units) \cap Span(m.dst, m.units) # {}
        THEN NoImage ELSE mem[o]]

Relocated(t, m) ==
    LET image == memory'[m.src]
        row == [owner |-> image.image[Active(image)].owner, offset |-> m.dst]
    IN  [t EXCEPT !.accounts = Added(@, image.key, row),
                  !.programs = (@ \ {[row EXCEPT !.offset = m.src]}) \cup {row}]

(* The free spans below `tail`: what is left of each hole, and the sources. *)
Clipped(from, to) == IF from < to THEN {[units |-> to - from, offset |-> from]} ELSE {}

(* Mutant: holes are not cut at the new tail. *)
PublishedHolesUncut(plan, tail) ==
    UNION {LET r == CHOOSE r \in plan.runs : h.offset \in r.start .. HoleEnd(r) - 1
           IN  Clipped(Max({h.offset, r.offset}), HoleEnd(h)) : h \in index.freelist}
    \cup UNION {Clipped(m.src, Min({m.src + m.units, tail})) : m \in ToSet(plan.moves)}

PublishedHoles(plan, tail) ==
    UNION {LET r == CHOOSE r \in plan.runs : h.offset \in r.start .. HoleEnd(r) - 1
           IN  Clipped(Max({h.offset, r.offset}), Min({HoleEnd(h), tail})) : h \in index.freelist}
    \cup UNION {Clipped(m.src, Min({m.src + m.units, tail})) : m \in ToSet(plan.moves)}

Defragment ==
    LET plan == Pack
        tail == CompactedTail(plan)
    IN  /\ Quiesced
        /\ plan.moves # <<>> \/ tail < cursor
        /\ memory' = FoldLeft(Copied, memory, plan.moves)
        /\ index' = [FoldLeft(Relocated, index, plan.moves) EXCEPT
                        !.freelist = PublishedHoles(plan, tail)]
        /\ cursor' = tail
        /\ len' = IF tail < cursor THEN tail + 1 ELSE len
        /\ UNCHANGED <<writer, volatile, exec, stored, writes, faults>>

-----------------------------------------------------------------------------
Next ==
    \/ \E x \in Executor :
          \/ Execute(x) \/ Store(x) \/ SkipEntry(x) \/ DeleteEntry(x) \/ UpdateEntry(x)
          \/ InsertEntry(x) \/ CommitIndex(x) \/ FailStore(x) \/ StoreVolatile(x)
    \/ ResetVolatile
    \/ Defragment

Spec == Init /\ [][Next]_vars

-----------------------------------------------------------------------------
ContentsType == [mode : AccountModes, owner : Owner, units : Units, stamp : Nat]

(* Types of the cursor, the tables and the volatile store. *)
TypeOK ==
    /\ cursor \in 0..STORAGE_CAPACITY /\ len \in Nat
    /\ \A k \in DOMAIN index.accounts :
           k \in Key /\ index.accounts[k] \in [owner : Owner, offset : Offset]
    /\ index.freelist \subseteq [units : Nat \ {0}, offset : Offset]
    /\ writer \in Executor \cup {Nobody}
    /\ \A k \in DOMAIN volatile.accounts : k \in Key /\ volatile.accounts[k] \in ContentsType
    /\ volatile.programs \in [Owner -> SUBSET Key]
    /\ \A x \in Executor :
           exec[x].pc \in {"idle", "execute", "apply", "volatile", "failed"}

Live == {[units |-> memory[r.offset].units, offset |-> r.offset] :
            r \in {index.accounts[k] : k \in DOMAIN index.accounts}}

SpanOf(h) == Span(h.offset, h.units)

(* Mapped storage is partitioned: images of indexed accounts and free spans    *)
(* never overlap and stay below the cursor, which stays inside the file, so no *)
(* insertion, deletion or packing pass hands out memory that is in use         *)
(* (allocate, free, Defrag::publish, shrink).                                  *)
SpansDisjoint ==
    /\ Live \cap index.freelist = {}
    /\ \A h, g \in Live \cup index.freelist : h # g => SpanOf(h) \cap SpanOf(g) = {}
    /\ \A h \in Live \cup index.freelist : h.offset + h.units <= cursor
    /\ Cardinality(Live) = Cardinality(DOMAIN index.accounts)
    /\ cursor + 1 <= len

(* And no storage is lost: between batches, and while none has failed, every   *)
(* unit below the cursor belongs to an indexed account or to a free span.      *)
(* Packing gives back vacated sources and clipped remainders exactly once.     *)
SpansPartition ==
    /\ SpansDisjoint
    /\ Quiesced => UNION {SpanOf(h) : h \in Live \cup index.freelist} = 0 .. cursor - 1

(* Each index row names the image of its own account with that image's owner,  *)
(* and the per-owner table has exactly the rows of the accounts table, in both *)
(* backends: program() returns what the owner owns (update_owner, relocate).   *)
OwnersMatch ==
    Quiesced =>
        /\ \A k \in DOMAIN index.accounts :
               LET image == memory[index.accounts[k].offset]
               IN  /\ image.units > 0 /\ image.key = k
                   /\ image.image[Active(image)].owner = index.accounts[k].owner
        /\ index.programs = {index.accounts[k] : k \in DOMAIN index.accounts}
        /\ \A o \in Owner : volatile.programs[o] =
               {k \in DOMAIN volatile.accounts : volatile.accounts[k].owner = o}

Current(key) ==
    IF key \in DOMAIN volatile.accounts \cup DOMAIN index.accounts
    THEN LoadEntry(key, Nobody).contents ELSE Absent

(* What is loaded is what was last stored, through mode changes between the    *)
(* backends, growth, deletion, reuse of spans and relocation; no stale copy in *)
(* the other backend shows through (store, commit, Defrag::execute).           *)
LoadReturnsStored ==
    \A k \in Key \ UNION {Held(x) : x \in Executor} : Current(k) = stored[k]

(* The same for the accounts this engine is the authority of, when executors   *)
(* store at the same time: no index transaction undoes another, and no         *)
(* insertion overwrites an image in use.                                       *)
PersistentReturnsStored ==
    \A k \in Key \ UNION {Held(x) : x \in Executor} :
        RequiresPersistence(stored[k].mode) => Current(k) = stored[k]

(* A failed store leaves every account of the batch as it was: borrowed images *)
(* are rolled back and index changes dropped (upsert).                         *)
FailedStoreRollsBack ==
    \A x \in Executor : exec[x].pc = "failed" => \A k \in Held(x) : Current(k) = stored[k]
=============================================================================
