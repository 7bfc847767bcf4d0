------------------------------ MODULE Recovery ------------------------------
(***************************************************************************)
(* The two stores of a leader when its process dies: AccountsDB, which is  *)
(* mapped and keeps what was written to it, and the ledger, which keeps    *)
(* what its appender published.  Startup compares them, restores an        *)
(* archived snapshot and replays (keeper/src/builder.rs, keeper/src/lib.rs,*)
(* engine/src/lib.rs).                                                     *)
(*                                                                         *)
(* A quiet transaction leaves no trace in persisted accounts: it failed    *)
(* or wrote volatile accounts only.  AccountsDB counts it all the same.    *)
(* The sysvars a block stores stand with its slot; a reset at startup      *)
(* writes what was there.  Nothing is truncated, no checkpoint is taken.   *)
(***************************************************************************)
EXTENDS Integers, Sequences, SequencesExt, FiniteSets

CONSTANTS
    Work,           \* transactions; one the history has lost may come again
    Quiet,          \* those that may change no persisted account
    SealEvery,      \* blocks of a superblock
    MaxBlock,       \* bound on slots
    MaxOpens        \* bound on starts of the process; after the last it does nothing

ASSUME RecoveryAssumption ==
    /\ Quiet \subseteq Work
    /\ SealEvery \in Nat \ {0} /\ {MaxBlock, MaxOpens} \subseteq Nat

VARIABLES
    phase,          \* "up", "down", or "refused"
    db,             \* mapped AccountsDB: effects, count, slot, superblock; misled
    cached,         \* checksum that the last synchronous flush stored
    chain,          \* records that the ledger's cursors cover, with their superblock
    tip,            \* slot of the ledger's last block
    tally,          \* transactions in the ledger's metadata
    head,           \* active superblock
    written,        \* appender: transactions written and not in the metadata
    storing,        \* appender: store it makes next, or "idle"
    events,         \* appender queue
    closing,        \* block, seal or shutdown under way
    exports,        \* snapshots being archived
    archives,       \* archived snapshots, by superblock
    left,           \* transactions that may be submitted
    quiet,          \* those that change no persisted account
    opens           \* starts so far

ledgerMeta == <<tip, tally, head>>
ledgerState == <<chain, ledgerMeta, written, storing>>
recoveryVars == <<phase, db, cached, ledgerState, events, closing, exports, archives,
                  left, quiet, opens>>

-----------------------------------------------------------------------------
(* `misled` is no part of a store: it marks one that startup opened on the  *)
(* word of metadata that was wrong (see Open).                              *)
NewDb == [done |-> {}, count |-> 0, slot |-> 0, sb |-> 0, misled |-> FALSE]

Entry(kind, tx, state) == [kind |-> kind, tx |-> tx, state |-> state, dir |-> 0]

Marker(kind) == Entry(kind, "none", NewDb)

(* The checksum covers accounts, slot and superblock, not the counter. *)
Checksum(d) == [done |-> d.done, slot |-> d.slot, sb |-> d.sb]

(* SuperblocksAccessor::sealed: what a seal says of the store. *)
Sealed(d) == [id |-> d.sb, checksum |-> Checksum(d), transactions |-> d.count]

(* A new store has no checksum until its first synchronous flush. *)
NoChecksum == [done |-> {}, slot |-> -1, sb |-> -1]

Of(kind, s) == SelectSeq(s, LAMBDA e : e.kind = kind)

TxsOf(s) == {s[i].tx : i \in {j \in 1..Len(s) : s[j].kind = "Tx"}}

RecoveryInit ==
    /\ phase = "up" /\ db = NewDb /\ cached = NoChecksum
    /\ chain = <<>> /\ tip = 0 /\ tally = 0 /\ head = 1
    /\ written = 0 /\ storing = "idle" /\ events = <<Marker("Reset")>>
    /\ closing = "no"
    /\ exports = {} /\ archives = <<>> /\ left = Work /\ opens = 1
    /\ quiet \in {{}, Quiet}

-----------------------------------------------------------------------------
(* Running.                                                                 *)

Runs == phase = "up" /\ opens < MaxOpens

Committed(d, t) ==
    [d EXCEPT !.count = @ + 1, !.done = IF t \in quiet THEN @ ELSE @ \cup {t}]

(* A transaction is sent to the appender, executed and committed.  A block  *)
(* or a shutdown drains execution first, so what covers the transaction     *)
(* comes after its commit: the two are one step here.                       *)
ExecuteWork(t) ==
    /\ Runs /\ closing = "no" /\ t \in left
    /\ left' = left \ {t}
    /\ events' = Append(events, Entry("Tx", t, NewDb))
    /\ db' = Committed(db, t)
    /\ UNCHANGED <<phase, cached, ledgerState, closing, exports, archives, opens, quiet>>

(* A block is sent to the appender first, and then advances AccountsDB.     *)
CloseBlock ==
    /\ Runs /\ closing = "no" /\ db.slot < MaxBlock
    /\ events' = Append(events, Entry("Block", "none", [NewDb EXCEPT !.slot = db.slot + 1]))
    /\ closing' = "block"
    /\ UNCHANGED <<phase, db, cached, ledgerState, exports, archives, left, opens, quiet>>

AdvanceSlot ==
    /\ Runs /\ closing = "block"
    /\ db' = [db EXCEPT !.slot = @ + 1]
    /\ closing' = IF (db.slot + 1) % SealEvery = 0 THEN "seal" ELSE "no"
    /\ UNCHANGED <<phase, cached, ledgerState, events, exports, archives, left, opens,
                   quiet>>

(* The appender has acknowledged every seal sent to it. *)
SealsDone == Of("Seal", events) = <<>> /\ storing \notin {"Seal", "adopt", "head"}

(* finalize_superblock, after the previous seal completed: AccountsDB is    *)
(* flushed and exported, the seal queued, and the archiver started.         *)
FinalizeSuperblock ==
    LET sealed == [db EXCEPT !.sb = head] IN
    /\ Runs /\ closing = "seal" /\ SealsDone
    /\ db' = sealed
    /\ cached' = Checksum(sealed)
    /\ exports' = exports \cup {sealed}
    /\ events' = Append(events, Entry("Seal", "none", sealed))
    /\ closing' = "no"
    /\ UNCHANGED <<phase, ledgerState, archives, left, opens, quiet>>

(* A detached thread compresses a snapshot and renames the archive into the *)
(* directory of the next superblock, over one that is there; it does not    *)
(* wait for the seal.                                                       *)
ArchiveSnapshot ==
    /\ Runs
    /\ \E d \in exports :
         /\ archives' = (d.sb :> d) @@ archives
         /\ exports' = exports \ {d}
    /\ UNCHANGED <<phase, db, cached, ledgerState, events, closing, left, opens, quiet>>

-----------------------------------------------------------------------------
(* The appender.  A transaction is only written; every other event moves    *)
(* the cursor over what is written, and then the metadata, store by store.  *)
(* What is written and not covered is lost like what is queued, so here     *)
(* transactions are written together with the event that covers them.       *)

AppendEvents ==
    LET n == Min({i \in 1..Len(events) : events[i].kind # "Tx"})
        e == events[n]
        taken == IF e.kind = "Sync" THEN SubSeq(events, 1, n - 1) ELSE SubSeq(events, 1, n)
    IN  /\ Runs /\ storing = "idle" /\ \E i \in 1..Len(events) : events[i].kind # "Tx"
        /\ events' = SubSeq(events, n + 1, Len(events))
        /\ chain' = chain \o [i \in 1..Len(taken) |-> [taken[i] EXCEPT !.dir = head]]
        /\ written' = n - 1
        /\ storing' = e.kind
        /\ UNCHANGED <<phase, db, cached, ledgerMeta, closing, exports, archives, left,
                       opens, quiet>>

(* A block's slot is stored, then the transactions are counted.  Of a seal, *)
(* the ledger takes over the count, and then a new superblock is the head.  *)
UpdateMeta ==
    /\ Runs
    /\ \/ /\ storing = "Block" /\ storing' = "count"
          /\ tip' = Last(chain).state.slot
          /\ UNCHANGED <<tally, head, written>>
       \/ /\ storing \in {"count", "Reset", "Sync", "Seal"}
          /\ storing' = IF storing = "Seal" THEN "adopt" ELSE "idle"
          /\ tally' = tally + written /\ written' = 0
          /\ UNCHANGED <<tip, head>>
       \/ /\ storing = "adopt" /\ storing' = "head"
          /\ tally' = Last(chain).state.count
          /\ UNCHANGED <<tip, head, written>>
       \/ /\ storing = "head" /\ storing' = "idle"
          /\ head' = Last(chain).state.sb + 1
          /\ UNCHANGED <<tip, tally, written>>
    /\ UNCHANGED <<phase, db, cached, chain, events, closing, exports, archives, left,
                   opens, quiet>>

(* Coordinated shutdown: it drains execution, syncs the ledger, and then    *)
(* flushes AccountsDB.  The pacemaker's last block, if there is one, need   *)
(* not be the last entry.                                                   *)
Shut ==
    /\ Runs /\ closing = "no"
    /\ events' = Append(events, Marker("Sync"))
    /\ closing' = "sync"
    /\ UNCHANGED <<phase, db, cached, ledgerState, exports, archives, left, opens, quiet>>

Close ==
    /\ Runs /\ closing = "sync" /\ events = <<>> /\ storing = "idle"
    /\ phase' = "down" /\ closing' = "no"
    /\ cached' = Checksum(db)
    /\ exports' = {}
    /\ UNCHANGED <<db, ledgerState, events, archives, left, opens, quiet>>

(* The process dies.  The maps keep what was written. *)
Die ==
    /\ Runs
    /\ phase' = "down"
    /\ written' = 0 /\ storing' = "idle" /\ events' = <<>>
    /\ closing' = "no" /\ exports' = {}
    /\ UNCHANGED <<db, cached, chain, ledgerMeta, archives, left, opens, quiet>>

-----------------------------------------------------------------------------
(* Starting.                                                                *)

(* KeeperBuilder::accountsdb keeps the store it finds, or restores. *)
Keeps ==
    /\ Checksum(db) = cached
    /\ db.sb >= head - 1            \* not lagging
    /\ db.count >= tally            \* not count_lagging

(* Superblocks with an archive in a directory of the ledger. *)
Retained == {s \in DOMAIN archives : s < head}

CanStart == Keeps \/ Retained # {}

(* What the published entries amount to; a seal overrides the count. *)
Recount ==
    FoldLeft(LAMBDA n, e : IF e.kind = "Seal" THEN e.state.count
                           ELSE IF e.kind = "Tx" THEN n + 1 ELSE n, 0, chain)

(* unarchive takes the newest archive as it is.  That misleads startup when *)
(* the archive is not of the seal the ledger has, or when the process died  *)
(* with the cursor ahead of the count.                                      *)
Restored ==
    LET d == archives[Max(Retained)]
        sealed == \E i \in 1..Len(chain) : chain[i].kind = "Seal" /\ Sealed(chain[i].state) = Sealed(d)
    IN  [d EXCEPT !.misled = @ \/ ~sealed \/ tally # Recount]

Found == IF Keeps THEN db ELSE Restored

(* Keeper::replay: AccountsDB is current, by slot and count. *)
Current(d) == d.slot >= tip /\ d.count >= tally

(* Mutant: a replayed transaction is counted, its accounts are not stored. *)
ReplayedUnstored(d, e) ==
    IF e.kind = "Tx" THEN [d EXCEPT !.count = @ + 1]
    ELSE IF e.kind = "Block" THEN [d EXCEPT !.slot = e.state.slot]
    ELSE IF e.kind = "Seal" THEN [d EXCEPT !.sb = e.state.sb]
    ELSE d

Replayed(d, e) ==
    IF e.kind = "Tx" THEN Committed(d, e.tx)
    ELSE IF e.kind = "Block" THEN [d EXCEPT !.slot = e.state.slot]
    ELSE IF e.kind = "Seal" THEN [d EXCEPT !.sb = e.state.sb]
    ELSE d

(* Entries of the superblocks after s. *)
After(s) == SelectSeq(chain, LAMBDA e : e.dir > s)

(* The store after i entries of a replay. *)
ReplayedTo(d, i) == FoldLeft(Replayed, d, SubSeq(After(d.sb), 1, i))

(* Seals of the replay that its state does not match; it stops at the first.*)
Mismatches(d) ==
    {i \in 1..Len(After(d.sb)) : /\ After(d.sb)[i].kind = "Seal"
                                 /\ Sealed(ReplayedTo(d, i)) # Sealed(After(d.sb)[i].state)}

(* Startup with nothing to replay. *)
Open ==
    /\ phase \in {"down", "refused"} /\ opens < MaxOpens
    /\ CanStart /\ Current(Found)
    /\ phase' = "up"
    /\ db' = Found /\ cached' = Checksum(Found)
    /\ events' = <<Marker("Reset")>>
    /\ left' = Work \ (TxsOf(chain) \cup Found.done)
    /\ opens' = opens + 1
    /\ UNCHANGED <<ledgerState, closing, exports, archives, quiet>>

(* Neither the store nor an archive will do; the store is put back. *)
Refuse ==
    /\ phase = "down" /\ ~CanStart
    /\ phase' = "refused"
    /\ UNCHANGED <<db, cached, ledgerState, events, closing, exports, archives, left,
                   opens, quiet>>

(* try_replay flushes at every seal and at the end.  It fails on a seal it  *)
(* does not match, having put the superblock back, and on a final count     *)
(* that is not the ledger's.                                                *)
Replay ==
    LET d == Found
        entries == After(d.sb)
        stop == IF Mismatches(d) = {} THEN Len(entries) ELSE Min(Mismatches(d))
        end == ReplayedTo(d, stop)
        opened == IF Mismatches(d) = {} THEN end
                  ELSE [end EXCEPT !.sb = ReplayedTo(d, stop - 1).sb]
        fits == Mismatches(d) = {} /\ end.count = tally
    IN  /\ phase \in {"down", "refused"} /\ opens < MaxOpens
        /\ CanStart /\ ~Current(d)
        /\ phase' = IF fits THEN "up" ELSE "refused"
        /\ db' = opened /\ cached' = Checksum(opened)
        /\ events' = IF fits THEN <<Marker("Reset")>> ELSE <<>>
        /\ left' = Work \ (TxsOf(chain) \cup opened.done)
        /\ opens' = opens + 1
        /\ UNCHANGED <<ledgerState, closing, exports, archives, quiet>>

(* The process dies in a replay; its last flush was at a seal. *)
DieReplaying ==
    LET d == Found IN
    /\ phase \in {"down", "refused"} /\ opens < MaxOpens
    /\ CanStart /\ ~Current(d)
    /\ \E i \in 0..Len(After(d.sb)) :
         LET seals == {j \in 1..i : After(d.sb)[j].kind = "Seal"} IN
         /\ Mismatches(d) \cap 1..i = {}
         /\ db' = ReplayedTo(d, i)
         /\ cached' = Checksum(ReplayedTo(d, Max({0} \cup seals)))
    /\ phase' = "down"
    /\ opens' = opens + 1
    /\ UNCHANGED <<ledgerState, events, closing, exports, archives, left, quiet>>

RecoveryNext ==
    \/ \E t \in Work : ExecuteWork(t)
    \/ CloseBlock \/ AdvanceSlot \/ FinalizeSuperblock \/ ArchiveSnapshot
    \/ AppendEvents \/ UpdateMeta \/ Shut \/ Close \/ Die
    \/ Open \/ Refuse \/ Replay \/ DieReplaying

-----------------------------------------------------------------------------
(* Transactions of the history, appended or queued. *)
History == TxsOf(chain \o events)

(* Whatever crash it comes from, of the process or of a replay, a store     *)
(* that startup opens has every transaction of the ledger.  Startup is      *)
(* misled, and this not claimed, in two windows: when an archive was in     *)
(* place before the process died and its seal was not, and another seal     *)
(* took its number; and when the process died between the stores of the     *)
(* cursor and of the count, and an older store passes for current.          *)
OpenedCoversLedger ==
    phase = "up" /\ ~db.misled =>
        History \ quiet \subseteq db.done /\ Cardinality(History) <= db.count

(* "Recovery can fail rather than open inconsistent state": a store that is *)
(* opened has the transactions of the ledger and no others.  It may be      *)
(* ahead: startup asks for no fewer transactions than the ledger has, not   *)
(* for as many, and the flush of a seal does not wait for the appender.     *)
OpenedIsConsistent ==
    phase = "up" =>
        db.done = History \ quiet /\ db.count = Cardinality(History)
=============================================================================
