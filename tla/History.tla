------------------------------ MODULE History ------------------------------
(***************************************************************************)
(* The queries of the ledger's reader service (ledger/src/reader.rs over   *)
(* index.rs and request.rs): the account-history pages, single blocks and  *)
(* block ranges it answers while the ledger grows, seals superblocks and   *)
(* drops old ones, and the caches a follower restores from a range at      *)
(* startup (KeeperBuilder::follower_caches).                               *)
(*                                                                         *)
(* The writer is seen a block at a time: a block, its transactions, their  *)
(* executions and the index rows that name them appear in one step, which  *)
(* is what one committed index batch makes of them (Ledger has the threads *)
(* behind it).  Transactions are numbered in stream order; executions are  *)
(* appended in the order in which they finish.  One account is queried.    *)
(* The reader takes one superblock at a time, and the requester may hang   *)
(* up in between.                                                          *)
(***************************************************************************)
EXTENDS Integers, SequencesExt

CONSTANTS
    MaxSlot,        \* bound on blocks
    MaxTx,          \* bound on transactions
    MaxId,          \* bound on superblocks
    Mentions,       \* the transactions that name the account
    Limits,         \* page sizes asked for
    MaxRaces        \* bound on the writer's steps during one request

ASSUME HistoryAssumption ==
    /\ {MaxSlot, MaxTx, MaxRaces} \subseteq Nat /\ MaxId \in Nat \ {0}
    /\ Mentions \subseteq 1..MaxTx /\ Limits \subseteq Nat

VARIABLES
    files,      \* the files of every superblock so far, dropped ones included
    open,       \* ids in Ledger::superblocks
    count,      \* LedgerMeta::superblocks, how many are retained
    range,      \* LedgerMeta::range
    query       \* the request being served

historyVars == <<files, open, count, range, query>>

NoFiles == [store |-> <<>>, execs |-> <<>>, start |-> 0, end |-> 0]

NoQuery == [pc |-> "idle"]

HistoryInit ==
    /\ files = <<NoFiles>>
    /\ open = {1}
    /\ count = 1
    /\ range = [start |-> 0, end |-> 0]
    /\ query = NoQuery

HeadId == Len(files)

(* LedgerMeta::superblocks: the retained ids, from a load of each number. *)
IdsUpTo(head, n) == Max({head - Max({n - 1, 0}), 0}) .. head

(* rotate has stored the new head and not yet the count; it holds the map's lock. *)
Rotating == count < Cardinality(open)

(* Executions of all superblocks, in the order of their spans. *)
AllExecs ==
    FlattenSeq([id \in 1..HeadId |->
        [i \in DOMAIN files[id].execs |-> [row |-> files[id].execs[i], id |-> id]]])

-----------------------------------------------------------------------------
(* The writer. *)

Race ==
    \/ query.pc = "idle" /\ UNCHANGED query
    \/ /\ query.pc # "idle" /\ query.races < MaxRaces
       /\ query' = [query EXCEPT !.races = @ + 1]

(* write_transaction, write_execution and write_block, with publish and        *)
(* commit_block: n transactions, executed in this order or the other way.      *)
GrowBlock(n, backwards) ==
    LET slot == range.end + 1
        first == Len(AllExecs) + 1
        sigs == [i \in 1..n |-> first + i - 1]
        order == IF backwards THEN Reverse(sigs) ELSE sigs
        f == files[HeadId]
    IN  /\ slot <= MaxSlot /\ first + n - 1 <= MaxTx
        /\ files' = [files EXCEPT ![HeadId] =
                [store |-> f.store \o [i \in 1..n |-> [kind |-> "tx", sig |-> sigs[i]]]
                                   \o <<[kind |-> "block", slot |-> slot]>>,
                 execs |-> f.execs \o [i \in 1..n |-> [sig |-> order[i], slot |-> slot]],
                 start |-> IF f.start = 0 THEN slot ELSE f.start,
                 end |-> slot]]
        /\ range' = [range EXCEPT !.end = slot]
        /\ ~Rotating
        /\ Race
        /\ UNCHANGED <<open, count>>

(* write_reset and write_checkpoint: a mark between blocks, here the first two. *)
WriteMark ==
    /\ range.end = 1 /\ ~Rotating
    /\ \A id \in 1..HeadId : [kind |-> "mark"] \notin ToSet(files[id].store)
    /\ files' = [files EXCEPT ![HeadId].store = Append(@, [kind |-> "mark"])]
    /\ Race
    /\ UNCHANGED <<open, count, range>>

(* seal and rotate, to the store of the head and then that of the count. *)
SealHead ==
    /\ HeadId < MaxId /\ ~Rotating
    /\ files' = Append([files EXCEPT ![HeadId].store = Append(@, [kind |-> "seal"])], NoFiles)
    /\ open' = open \cup {HeadId + 1}
    /\ Race
    /\ UNCHANGED <<count, range>>

CountHead ==
    /\ Rotating
    /\ count' = count + 1
    /\ UNCHANGED <<files, open, range, query>>

(* Ledger::truncate.  Readers that hold the superblock's Arc keep it. *)
DropOldest ==
    /\ Min(open) < HeadId /\ ~Rotating
    /\ open' = open \ {Min(open)}
    /\ count' = count - 1
    /\ range' = [range EXCEPT !.start = files[Min(open)].end + 1]
    /\ Race
    /\ UNCHANGED files

-----------------------------------------------------------------------------
(* IndexReader: rows are a function of the files they name. *)

ExecSpan(f, sig) == {i \in DOMAIN f.execs : f.execs[i].sig = sig}

BlockSpan(f, slot) == {i \in DOMAIN f.store : f.store[i] = [kind |-> "block", slot |-> slot]}

(* Mutant: a page starts with the transaction it should start after. *)
AccountsThrough(f, upper) ==
    LET at == {i \in DOMAIN f.execs : f.execs[i].sig \in Mentions /\ i <= upper}
    IN  [k \in 1..Cardinality(at) |-> f.execs[SetToSortSeq(at, >)[k]]]

(* accounts: executions that name the account before a span, newest first. *)
Accounts(f, upper) ==
    LET at == {i \in DOMAIN f.execs : f.execs[i].sig \in Mentions /\ i < upper}
    IN  [k \in 1..Cardinality(at) |-> f.execs[SetToSortSeq(at, >)[k]]]

(* blocktime: the time of the slot's block in this superblock, else 0. *)
BlockTime(f, slot) == IF BlockSpan(f, slot) = {} THEN 0 ELSE slot

(* The rows up to `until`, at most `room` of them. *)
Taken(rows, until, room) ==
    LET stops == {i \in DOMAIN rows : rows[i].sig = until}
    IN  SubSeq(rows, 1, Min({room, Len(rows)} \cup {i - 1 : i \in stops}))

-----------------------------------------------------------------------------
(* Ledger::iter: a request loads the head when it is asked and then the count;  *)
(* `skipped` remembers the open superblock that the two leave out.              *)
LoadIds ==
    /\ query.pc = "ids"
    /\ LET ids == IdsUpTo(query.head, count)
           then == IF "limit" \in DOMAIN query THEN "page" ELSE "range"
       IN  query' = [query EXCEPT !.pc = then,
                                  !.ids = IF then = "page" THEN SetToSortSeq(ids, >)
                                                          ELSE SetToSortSeq(ids, <),
                                  !.skipped = IF Rotating THEN {Min(open)} \ ids ELSE {}]
    /\ UNCHANGED <<files, open, count, range>>

(* account_signatures. *)
AskPage(limit, before, until) ==
    /\ query.pc = "idle"
    /\ query' = [pc |-> IF limit = 0 THEN "done" ELSE "ids", races |-> 0,
                 limit |-> limit, from |-> before, before |-> before, until |-> until,
                 head |-> HeadId, ids |-> <<>>, skipped |-> {}, got |-> <<>>,
                 since |-> Len(AllExecs)]
    /\ UNCHANGED <<files, open, count, range>>

(* One superblock, if it is still open: all of it, the part before `before`,   *)
(* or nothing when `before` is older.                                          *)
VisitPage ==
    /\ query.pc = "page" /\ query.ids # <<>> /\ ~Rotating
    /\ LET id == Head(query.ids)
           f == IF id \in open THEN files[id] ELSE NoFiles
           cutoff == IF query.before = 0 THEN {Len(f.execs) + 1}
                     ELSE ExecSpan(f, query.before)
           skip == id \notin open \/ cutoff = {}
           rows == IF skip THEN <<>> ELSE Accounts(f, Min(cutoff))
           more == Taken(rows, query.until, query.limit - Len(query.got))
           got == query.got \o [i \in DOMAIN more |->
                    [sig |-> more[i].sig, time |-> BlockTime(f, more[i].slot)]]
           stop == Len(got) >= query.limit \/ \E i \in DOMAIN rows : rows[i].sig = query.until
       IN  query' = [query EXCEPT !.ids = Tail(@), !.got = got,
                                  !.before = IF skip THEN @ ELSE 0,
                                  !.pc = IF stop THEN "done" ELSE @]
    /\ UNCHANGED <<files, open, count, range>>

-----------------------------------------------------------------------------
(* block: the newest superblock whose range holds the slot, the entries behind *)
(* the block before it, and of those the transactions with an execution.       *)

BlockEntries(f, slot) ==
    SubSeq(f.store, Max(BlockSpan(f, slot - 1) \cup {0}) + 1, Min(BlockSpan(f, slot)) - 1)

Located(slot) ==
    LET holding == {id \in open \cap IdsUpTo(HeadId, count) : slot \in files[id].start .. files[id].end}
    IN  IF slot \notin range.start .. range.end \/ holding = {} THEN {}
        ELSE {id \in {Max(holding)} : BlockSpan(files[id], slot) # {}}

BlockResponse(slot) ==
    LET f == files[Max(Located(slot))]
        entries == BlockEntries(f, slot)
    IN  IF Located(slot) = {} THEN [found |-> FALSE]
        ELSE [found |-> TRUE,
              corrupt |-> \E i \in DOMAIN entries : entries[i].kind \in {"block", "seal"},
              sigs |-> SelectSeq([i \in DOMAIN entries |-> IF entries[i].kind = "tx"
                                                           THEN entries[i].sig ELSE 0],
                                 LAMBDA s : ExecSpan(f, s) # {})]

-----------------------------------------------------------------------------
(* blocks: a range, oldest superblock first.                                   *)

AskRange(from, to) ==
    /\ query.pc = "idle" /\ from < to
    /\ query' = [pc |-> "ids", races |-> 0, from |-> from, to |-> to,
                 head |-> HeadId, ids |-> <<>>, skipped |-> {}, got |-> <<>>,
                 since |-> range.end]
    /\ UNCHANGED <<files, open, count, range>>

(* visit_blockstore: transactions are kept until their block shows whether the *)
(* range wants them, and a block beyond the range ends the scan.               *)
Scanned(store, from, to, got) ==
    LET visit(v, entry) ==
            CASE v.go /\ entry.kind = "tx" -> [v EXCEPT !.sigs = Append(@, entry.sig)]
              [] v.go /\ entry.kind = "block" ->
                    [go |-> entry.slot < to, sigs |-> <<>>,
                     got |-> IF entry.slot \in from .. to - 1
                             THEN Append(v.got, [slot |-> entry.slot, sigs |-> v.sigs])
                             ELSE v.got]
              [] OTHER -> v
    IN  FoldLeft(visit, [go |-> TRUE, sigs |-> <<>>, got |-> got], store)

VisitRange ==
    /\ query.pc = "range" /\ query.ids # <<>> /\ ~Rotating
    /\ LET f == IF Head(query.ids) \in open THEN files[Head(query.ids)] ELSE NoFiles
           skip == \/ Head(query.ids) \notin open
                   \/ f.start >= query.to \/ f.end < query.from
           v == Scanned(f.store, query.from, query.to, query.got)
       IN  query' = [query EXCEPT !.ids = Tail(@),
                                  !.got = IF skip THEN @ ELSE v.got,
                                  !.pc = IF skip \/ v.go THEN @ ELSE "done"]
    /\ UNCHANGED <<files, open, count, range>>

Finish ==
    /\ query.pc \in {"page", "range"} /\ query.ids = <<>>
    /\ query' = [query EXCEPT !.pc = "done"]
    /\ UNCHANGED <<files, open, count, range>>

(* PendingGuard::drop: the requester gives up, and the reader, which looks at  *)
(* the flag between superblocks, answers nobody.                               *)
HangUp ==
    /\ query.pc \in {"ids", "page", "range"}
    /\ query' = NoQuery
    /\ UNCHANGED <<files, open, count, range>>

Respond ==
    /\ query.pc = "done"
    /\ query' = NoQuery
    /\ UNCHANGED <<files, open, count, range>>

HistoryNext ==
    \/ \E n \in 0..2, backwards \in BOOLEAN : GrowBlock(n, backwards)
    \/ WriteMark
    \/ SealHead
    \/ CountHead
    \/ DropOldest
    \/ LoadIds
    \/ \E limit \in Limits, before, until \in 0..Len(AllExecs) : AskPage(limit, before, until)
    \/ VisitPage
    \/ \E from \in 0..range.end, to \in 0 .. range.end + 1 : AskRange(from, to)
    \/ VisitRange
    \/ HangUp
    \/ Finish
    \/ Respond

-----------------------------------------------------------------------------
(* follower_caches: the blocks of the range merged with the persisted slot     *)
(* hashes, a block replacing the hash of its slot.                             *)
Restored(blocks, hashes) ==
    LET sorted(s) == SetToSortSeq(s, <)
        merge(m, entry) ==
            [left |-> {h \in m.left : h > entry.slot},
             slots |-> m.slots \o sorted({h \in m.left : h < entry.slot}) \o <<entry.slot>>]
        all == FoldLeft(merge, [left |-> hashes, slots |-> <<>>], blocks)
    IN  all.slots \o sorted(all.left)

(* The page asked for, were the first m executions all there is. *)
Page(m) ==
    LET all == AllExecs
        upto == IF query.from = 0 THEN m
                ELSE Min({i \in DOMAIN all : all[i].row.sig = query.from}) - 1
        mine == SelectSeq(Reverse(SubSeq(all, 1, upto)), LAMBDA e : e.row.sig \in Mentions)
        ends == {i \in DOMAIN mine : mine[i].row.sig = query.until}
    IN  SubSeq(mine, 1, Min({query.limit, Len(mine)} \cup {i - 1 : i \in ends}))

(* A page that was waited for is the account's history as it was at one moment *)
(* of the request: newest first, from just behind `before` to just before      *)
(* `until` or to the limit, across superblocks, with nothing skipped, repeated *)
(* or left without its block's time; it is shorter only where the next row's   *)
(* superblock has been dropped, or left out because the request loaded head    *)
(* and count between rotate's stores of them (AccountSignaturesParams).        *)
PageIsExact ==
    \E m \in query.since .. Len(AllExecs) :
        LET want == Page(m)
            n == Len(query.got)
        IN  /\ n <= Len(want)
            /\ \A i \in 1..n : query.got[i] = [sig |-> want[i].row.sig, time |-> want[i].row.slot]
            /\ n < Len(want) => want[n + 1].id \notin open \ query.skipped

(* A range streams whole blocks in ascending order without a hole, and every   *)
(* block there was when it was asked for unless its superblock was dropped or  *)
(* left out between rotate's two stores;                                       *)
(* what follower_caches makes of it is ascending, as ExpiringCache requires,   *)
(* and has every slot of either source once.                                   *)
SlotOf(id) == {e.slot : e \in {x \in ToSet(files[id].store) : x.kind = "block"}}

RangeIsExact ==
    LET all == ToSet(AllExecs)
        slots == {e.slot : e \in ToSet(query.got)}
        wanted == query.from .. query.to - 1
    IN  /\ \A i \in 1 .. Len(query.got) - 1 : query.got[i + 1].slot = query.got[i].slot + 1
        /\ \A e \in ToSet(query.got) :
               ToSet(e.sigs) = {x.row.sig : x \in {y \in all : y.row.slot = e.slot}}
        /\ slots \subseteq wanted
        /\ \A id \in open \ query.skipped : SlotOf(id) \cap wanted \cap 0..query.since \subseteq slots
        /\ \A hashes \in SUBSET (1..range.end) :
               LET r == Restored(query.got, hashes)
               IN  /\ ToSet(r) = hashes \cup slots
                   /\ \A i \in 1 .. Len(r) - 1 : r[i] < r[i + 1]

(* Every block of the retained range is found, with its transactions in stream *)
(* order and no foreign entry in its scan (indexed_transactions), but for the  *)
(* blocks of the oldest superblock between rotate's two stores.                *)
BlocksAreFound ==
    LET all == ToSet(AllExecs)
    IN  \A id \in open \ IF Rotating THEN {Min(open)} ELSE {} : \A slot \in SlotOf(id) :
            LET b == BlockResponse(slot)
                mine == {x \in all : x.row.slot = slot}
            IN  /\ b.found /\ ~b.corrupt
                /\ b.sigs = SetToSortSeq({x.row.sig : x \in mine}, <)

(* What a requester is answered agrees with the ledger.                        *)
HistoryAnswers ==
    /\ BlocksAreFound
    /\ query.pc = "done" =>
           IF "limit" \in DOMAIN query THEN PageIsExact ELSE RangeIsExact
=============================================================================
