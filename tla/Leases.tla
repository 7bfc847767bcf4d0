------------------------------- MODULE Leases -------------------------------
(***************************************************************************)
(* Account mutation leases and recency: AccountCache and AccountLease of   *)
(* keeper/src/cache.rs, and the engine calls that use them (account,       *)
(* missing_accounts, AccountAccessor).                                     *)
(*                                                                         *)
(* A call locks its keys one at a time, then disposes of every lease it    *)
(* got: it drops it, or submits an internal transaction and hands the      *)
(* lease to the task that waits for the result.  A waiter for a lease      *)
(* sleeps on the EventNotifier of the lease it found (nucleus/notifier.rs).*)
(*                                                                         *)
(* A lease is named <<call, key>>: no call takes the same lease twice.     *)
(* Recency is a set: HashCache displaces the oldest entry of one bucket,   *)
(* which may be any entry, and `touch` only reorders.                      *)
(***************************************************************************)
EXTENDS AccountMode, Sequences, FiniteSets, Functions

CONSTANTS
    Accounts,      \* account keys, integers: the order of pubkeys
    Calls,         \* client calls
    Capacity,      \* capacity of the recency cache
    Images,        \* images [mode, slot] clients materialize, and whether they
                   \* require the image they observed to be current (must)
    Requests       \* key sequences given to missing_accounts

(* Clients close an account with delete, never by materializing a closed image. *)
ASSUME LeasesAssumption ==
    /\ Accounts \subseteq Int /\ Capacity \in Nat \ {0}
    /\ "none" \notin Calls
    /\ Images \subseteq [mode : AccountModes \ {"Closed"}, slot : Nat, must : BOOLEAN]
    /\ Requests \subseteq Seq(Accounts)

VARIABLES
    account,       \* lifecycle stored for every key, or Absent
    owner,         \* reservations: the call whose lease a key is under, or NoCall
    lru,           \* keys in the recency cache
    evictions,     \* keys in the eviction channel, oldest first
    call           \* state of every client call

leaseVars == <<account, owner, lru, evictions, call>>

NoCall == "none"

Absent == [mode |-> "Missing", slot |-> 0, stored |-> FALSE]

Stored(image) == [mode |-> image.mode, slot |-> image.slot, stored |-> TRUE]

(* A call: what it is for, keys still to lock, the step of the lock loop,   *)
(* the call whose notifier it waits on, whether that is done and has woken  *)
(* it, leases it holds itself, lifecycles observed under them, submitted    *)
(* transactions, and dropped leases whose waiters are still to be notified. *)
Idle == [kind |-> "none", todo |-> <<>>, at |-> "idle",
         wait |-> NoCall, done |-> FALSE, woken |-> FALSE, got |-> {},
         seen |-> [k \in Accounts |-> Absent], sent |-> {}, drops |-> {}]

(* A keeper that has run for a while: some accounts are cached. *)
LeaseInit ==
    /\ \E warm \in SUBSET Accounts, image \in Images :
          /\ Cardinality(warm) <= Capacity /\ ~RequiresPersistence(image.mode)
          /\ account = [k \in Accounts |-> IF k \in warm THEN Stored(image) ELSE Absent]
          /\ lru = warm
    /\ owner = [k \in Accounts |-> NoCall]
    /\ evictions = <<>>
    /\ call = [c \in Calls |-> Idle]

-----------------------------------------------------------------------------
(* What a lease says of its observation.                                    *)

Evictable(seen) == seen.stored /\ ~RequiresPersistence(seen.mode)

Skipped(seen, image) ==
    /\ seen.stored
    /\ image.slot < seen.slot \/ (image.slot = seen.slot /\ image.mode = seen.mode)

CachedEvictionApplies(seen, k) == Evictable(seen) /\ k \notin lru

(* Mutant: a displaced key is forgotten. *)
TrackSilent(k, mode) ==
    IF RequiresPersistence(mode) THEN lru' = lru \ {k} /\ UNCHANGED evictions
    ELSE IF k \in lru \/ Cardinality(lru) < Capacity
         THEN lru' = lru \cup {k} /\ UNCHANGED evictions
    ELSE \E cold \in lru : lru' = (lru \ {cold}) \cup {k} /\ UNCHANGED evictions

(* track: recency after k was materialized in `mode`.  A displaced key goes *)
(* to the eviction channel.                                                 *)
Track(k, mode) ==
    IF RequiresPersistence(mode) THEN lru' = lru \ {k} /\ UNCHANGED evictions
    ELSE IF k \in lru \/ Cardinality(lru) < Capacity
         THEN lru' = lru \cup {k} /\ UNCHANGED evictions
    ELSE \E cold \in lru : /\ lru' = (lru \ {cold}) \cup {k}
                           /\ evictions' = Append(evictions, cold)

-----------------------------------------------------------------------------
(* Starting a call.                                                         *)

Start(c, kind, todo) ==
    /\ call[c].at = "idle"
    /\ call' = [call EXCEPT ![c].kind = kind, ![c].todo = todo,
                            ![c].at = IF todo = <<>> THEN "done" ELSE "claim"]
    /\ UNCHANGED <<account, owner, lru>>

(* Engine::account. *)
LockAccount(c) ==
    \E k \in Accounts : Start(c, "Account", <<k>>) /\ UNCHANGED evictions

(* Mutant: keys are locked in the order they were asked for. *)
MissingUnsorted(asked) == {SelectSeq(asked, LAMBDA k : ~account[k].stored)}

(* The scan of missing_accounts: absent keys, once each and in key order,   *)
(* which one sequence is.                                                   *)
MissingScan(asked) ==
    LET absent == {k \in Range(asked) : ~account[k].stored}
    IN  {todo \in UNION {[1..n -> absent] : n \in 0..Len(asked)} :
            /\ Range(todo) = absent
            /\ \A i, j \in DOMAIN todo : i < j => todo[i] < todo[j]}

MissingAccounts(c) ==
    \E asked \in Requests : \E todo \in MissingScan(asked) :
        Start(c, "Missing", todo) /\ UNCHANGED evictions

(* The consumer of the eviction channel: the next key is looked at again    *)
(* under its lease.                                                         *)
ConsumeEviction(c) ==
    /\ evictions # <<>>
    /\ Start(c, "Eviction", <<Head(evictions)>>)
    /\ evictions' = Tail(evictions)

-----------------------------------------------------------------------------
(* AccountsAccessor::lock.                                                  *)

Claim(c) ==
    LET k == Head(call[c].todo) IN
    /\ call[c].at = "claim"
    /\ IF owner[k] = NoCall
       THEN /\ owner' = [owner EXCEPT ![k] = c]
            /\ call' = [call EXCEPT ![c].at = "observe", ![c].wait = NoCall,
                                    ![c].done = FALSE, ![c].woken = FALSE]
       ELSE /\ call' = [call EXCEPT ![c].at = "register", ![c].wait = owner[k],
                                    ![c].done = FALSE, ![c].woken = FALSE]
            /\ UNCHANGED owner
    /\ UNCHANGED <<account, lru, evictions>>

(* EventNotifier::notified: the waiter is registered before `done` is read. *)
Register(c) ==
    /\ call[c].at = "register"
    /\ call' = [call EXCEPT ![c].at = "check"]
    /\ UNCHANGED <<account, owner, lru, evictions>>

Check(c) ==
    /\ call[c].at = "check"
    /\ call' = [call EXCEPT ![c].at = IF call[c].done THEN "claim" ELSE "asleep",
                            ![c].wait = IF call[c].done THEN NoCall ELSE @]
    /\ UNCHANGED <<account, owner, lru, evictions>>

Wake(c) ==
    /\ call[c].at = "asleep" /\ call[c].woken
    /\ call' = [call EXCEPT ![c].at = "register", ![c].woken = FALSE]
    /\ UNCHANGED <<account, owner, lru, evictions>>

(* The lifecycle is read under the lease.  missing_accounts drops a lease   *)
(* whose account turned up meanwhile.                                       *)
Observe(c) ==
    LET k == Head(call[c].todo)
        rest == Tail(call[c].todo)
        keep == call[c].kind # "Missing" \/ ~account[k].stored
    IN  /\ call[c].at = "observe"
        /\ call' = [call EXCEPT ![c].seen[k] = IF keep THEN account[k] ELSE @,
                                ![c].got = IF keep THEN @ \cup {k} ELSE @,
                                ![c].drops = IF keep THEN @ ELSE @ \cup {k},
                                ![c].todo = rest,
                                ![c].at = IF rest = <<>> THEN "done" ELSE "claim"]
        /\ owner' = IF keep THEN owner ELSE [owner EXCEPT ![k] = NoCall]
        /\ UNCHANGED <<account, lru, evictions>>

-----------------------------------------------------------------------------
(* Dropping a lease: the reservation goes first, then the waiters are       *)
(* woken.                                                                   *)

Waits(w, c, k) == call[w].wait = c /\ Head(call[w].todo) = k

Notify(c, k) ==
    /\ k \in call[c].drops
    /\ call' = [w \in Calls |->
                  IF w = c THEN [call[w] EXCEPT !.drops = @ \ {k}]
                  ELSE IF Waits(w, c, k)
                  THEN [call[w] EXCEPT !.done = TRUE, !.woken = call[w].at \in {"check", "asleep"}]
                  ELSE call[w]]
    /\ UNCHANGED <<account, owner, lru, evictions>>

DropLease(c, k) ==
    /\ call' = [call EXCEPT ![c].got = @ \ {k}, ![c].seen[k] = Absent,
                            ![c].drops = @ \cup {k}]
    /\ owner' = [owner EXCEPT ![k] = NoCall]

(* A lease the caller does not use, and the one into_eviction and           *)
(* into_cached_eviction refuse.                                             *)
Release(c, k) ==
    /\ k \in call[c].got /\ call[c].at = "done"
    /\ call[c].kind = "Eviction" => ~CachedEvictionApplies(call[c].seen[k], k)
    /\ DropLease(c, k)
    /\ UNCHANGED <<account, lru, evictions>>

-----------------------------------------------------------------------------
(* AccountAccessor.                                                         *)

Submit(c, k, image) ==
    call' = [call EXCEPT ![c].got = @ \ {k},
                         ![c].sent = @ \cup {[key |-> k, image |-> image, result |-> "pending"]}]

Materialize(c, k) ==
    \E image \in Images :
        /\ k \in call[c].got /\ call[c].at = "done" /\ call[c].kind # "Eviction"
        /\ IF Skipped(call[c].seen[k], image)
           THEN Track(k, call[c].seen[k].mode) /\ DropLease(c, k)
           ELSE Submit(c, k, image) /\ UNCHANGED <<owner, lru, evictions>>
        /\ UNCHANGED account

(* delete, directly or through into_eviction and into_cached_eviction. *)
Delete(c, k) ==
    /\ k \in call[c].got /\ call[c].at = "done"
    /\ call[c].kind = "Eviction" => CachedEvictionApplies(call[c].seen[k], k)
    /\ Submit(c, k, [mode |-> "Closed", slot |-> 0, must |-> FALSE])
    /\ UNCHANGED <<account, owner, lru, evictions>>

(* The internal transaction executes: MagicRoot validates the transition,   *)
(* and the comparison when the caller required the image it had read.  An   *)
(* action appended to a materialization may fail it as well.                *)
Applies(tx, k, c) ==
    LET slot == IF tx.image.mode = "Closed" THEN account[k].slot ELSE tx.image.slot IN
    /\ ValidTransition(account[k].mode, tx.image.mode, account[k].slot, slot)
    /\ tx.image.must => account[k] = call[c].seen[k]

Settle(c, tx, result) ==
    call' = [call EXCEPT ![c].sent = (@ \ {tx}) \cup {[tx EXCEPT !.result = result]}]

Execute(c) ==
    \E tx \in call[c].sent :
        /\ tx.result = "pending" /\ Applies(tx, tx.key, c)
        /\ account' = [account EXCEPT ![tx.key] =
                         IF tx.image.mode = "Closed" THEN Absent ELSE Stored(tx.image)]
        /\ Settle(c, tx, "ok")
        /\ UNCHANGED <<owner, lru, evictions>>

ExecuteFails(c) ==
    \E tx \in call[c].sent :
        /\ tx.result = "pending" /\ (~Applies(tx, tx.key, c) \/ tx.image.mode # "Closed")
        /\ Settle(c, tx, "failed")
        /\ UNCHANGED <<account, owner, lru, evictions>>

(* The spawned task: recency is updated and the lease dropped. *)
Complete(c) ==
    \E tx \in call[c].sent :
        /\ tx.result # "pending"
        /\ IF tx.result = "failed" THEN UNCHANGED <<lru, evictions>>
           ELSE IF tx.image.mode = "Closed" THEN lru' = lru \ {tx.key} /\ UNCHANGED evictions
           ELSE Track(tx.key, tx.image.mode)
        /\ owner' = [owner EXCEPT ![tx.key] = NoCall]
        /\ call' = [call EXCEPT ![c].sent = @ \ {tx}, ![c].seen[tx.key] = Absent,
                                ![c].drops = @ \cup {tx.key}]
        /\ UNCHANGED account

(* Mutant: cancelling gives up the leases of submitted transactions too. *)
CancelReleasing(c) ==
    LET held == call[c].got \cup {tx.key : tx \in call[c].sent} IN
    /\ call[c].kind # "Eviction" /\ call[c].at \in {"asleep", "done"} /\ held # {}
    /\ call' = [call EXCEPT ![c] = [Idle EXCEPT !.kind = call[c].kind, !.at = "done",
                                               !.seen = call[c].seen, !.sent = call[c].sent,
                                               !.drops = call[c].drops \cup held]]
    /\ owner' = [k \in Accounts |-> IF k \in held THEN NoCall ELSE owner[k]]
    /\ UNCHANGED <<account, lru, evictions>>

(* The caller drops its future: while it sleeps for a lease, or holding     *)
(* leases.  What it submitted runs on.                                      *)
Cancel(c) ==
    /\ call[c].kind # "Eviction"
    /\ call[c].at = "asleep" \/ (call[c].at = "done" /\ call[c].got # {})
    /\ call' = [call EXCEPT ![c] = [Idle EXCEPT !.kind = call[c].kind, !.at = "done",
                                               !.seen = call[c].seen, !.sent = call[c].sent,
                                               !.drops = call[c].drops \cup call[c].got]]
    /\ owner' = [k \in Accounts |-> IF k \in call[c].got THEN NoCall ELSE owner[k]]
    /\ UNCHANGED <<account, lru, evictions>>

(* An ordinary transaction starts undelegation; leases do not exclude it.   *)
Undelegate(k) ==
    /\ account[k].stored /\ account[k].mode = "Delegated"
    /\ account' = [account EXCEPT ![k].mode = "Undelegating"]
    /\ UNCHANGED <<owner, lru, evictions, call>>
=============================================================================
