------------------------------- MODULE Keeper -------------------------------
(***************************************************************************)
(* The keeper's shared state under its concurrent users: admission and     *)
(* results of transactions (Admission), account leases and recency         *)
(* (Leases), and its stores through crashes and startup (Recovery); with   *)
(* the shutdown of the services around it (Shutdown).  Clients, the        *)
(* sequencer, executors and background tasks interleave freely.  The parts *)
(* have no state in common, so every behaviour projects to one of each,    *)
(* and a behaviour here takes steps of one of them.                        *)
(***************************************************************************)
EXTENDS Admission, Leases, Recovery, Shutdown

CONSTANT Workload    \* of admission: transactions, subscribe_signature calls, bound on blocks

VARIABLE part        \* the part of the keeper a behaviour exercises

vars == <<admissionVars, leaseVars, recoveryVars, shutdownVars, part>>

(* A part that takes no steps starts in one state. *)
Init ==
    /\ AdmissionInit /\ LeaseInit /\ RecoveryInit /\ ShutdownInit
    /\ part \in DOMAIN Workload \cup {"leases", "recovery", "shutdown"}
    /\ part # "leases" => lru = {}
    /\ part # "recovery" => quiet = {}
    /\ \A t \in Txs : part \notin DOMAIN Workload \/ t \notin Workload[part].txs => hash[t] = 0

AdmissionNext(work) ==
    \/ \E t \in work.txs : AppendTransaction(t) \/ CommitExecution(t) \/ CacheStatus(t) \/ Cleanup(t)
    \/ \E r \in work.receivers, t \in work.txs : Subscribe(r, t)
    \/ \E r \in Receivers : ReadStatus(r) \/ AskLedger(r) \/ DropReceiver(r)
    \/ \E j \in Txs \cup Receivers : Detach(j) \/ Uncount(j) \/ Deliver(j)
    \/ latest < work.slots /\ AppendBlock
    \/ IndexBlock \/ Restart \/ CrashAndReplay \/ CrashAndKeep

(* Steps a call or its task takes by itself. *)
CallStep(c) ==
    \/ Claim(c) \/ Register(c) \/ Check(c) \/ Wake(c) \/ Observe(c)
    \/ Execute(c) \/ ExecuteFails(c) \/ Complete(c)
    \/ \E k \in Accounts : Notify(c, k) \/ Release(c, k) \/ Materialize(c, k) \/ Delete(c, k)

LeaseNext ==
    \/ \E c \in Calls : LockAccount(c) \/ MissingAccounts(c) \/ ConsumeEviction(c)
    \/ \E c \in Calls : CallStep(c) \/ Cancel(c)
    \/ \E k \in Accounts : Undelegate(k)

Next ==
    \/ /\ part \in DOMAIN Workload /\ AdmissionNext(Workload[part])
       /\ UNCHANGED <<leaseVars, recoveryVars, shutdownVars, part>>
    \/ /\ part = "leases" /\ LeaseNext
       /\ UNCHANGED <<admissionVars, recoveryVars, shutdownVars, part>>
    \/ /\ part = "recovery" /\ RecoveryNext
       /\ UNCHANGED <<admissionVars, leaseVars, shutdownVars, part>>
    \/ /\ part = "shutdown" /\ ShutdownNext
       /\ UNCHANGED <<admissionVars, leaseVars, recoveryVars, part>>

Spec == Init /\ [][Next]_vars

(* Tasks run on, and a caller does something with a lease it holds; the     *)
(* runtime polls terminate(), and its timer fires.                          *)
FairSpec ==
    /\ Spec
    /\ \A c \in Calls :
         WF_vars(/\ part = "leases" /\ CallStep(c)
                 /\ UNCHANGED <<admissionVars, recoveryVars, shutdownVars, part>>)
    /\ WF_vars(/\ part = "shutdown" /\ ManagerStep
               /\ UNCHANGED <<admissionVars, leaseVars, recoveryVars, part>>)

-----------------------------------------------------------------------------
(* The history that survives holds every transaction at most once: its      *)
(* signature is remembered at least as long as the block it names is        *)
(* accepted, through expiry, replay and a store kept after a crash.  The    *)
(* one exception is a transaction that names the last block of a clean      *)
(* shutdown and was executed behind it: leader_caches restores that block   *)
(* and no signature.                                                        *)
AdmittedOnce == \A t \in Txs \ exposed : times[t] <= 1

(* append is said to deduplicate; without the exception above it does not.  *)
NeverAdmittedTwice == \A t \in Txs : times[t] <= 1

(* A receiver whose call has returned and that still waits, waits for a     *)
(* result that is not out yet, or is being handed to it.                    *)
WaitsForResult(r) ==
    \/ \E j \in Txs \cup Receivers : r \in job[j].batch
    \/ \E t \in Txs : /\ r \in senders[t]
                      /\ \/ record[t] = 0 \/ job[t].at \in {"queued", "cache", "send"}
                         \/ \E q \in Receivers : At(q, "send") /\ job[q].tx = t

(* subscribe_signature misses no result, whichever way it races the commit, *)
(* other subscribers and the cleanup task, and the key counter never hides  *)
(* a registered key.  Not claimed for a result hidden by refusing its       *)
(* transaction again, nor for one that had left the signature cache when    *)
(* the call asked and was not indexed, for the indexer's lag or for a crash *)
(* that left its block published and unindexed.                             *)
SubscriberIsServed ==
    /\ keys = Cardinality({t \in Txs : senders[t] # {}})
              + Cardinality({j \in Txs \cup Receivers : At(j, "count")})
    /\ \A r \in Receivers \ missed :
           inbox[r] = "open" /\ At(r, "none") /\ job[r].tx \notin refused => WaitsForResult(r)

(* subscribe_signature says it includes an already retained result.  The    *)
(* reservation left by a refused resubmission hides one.                    *)
RetainedResultIsFound ==
    \A r \in Receivers \ missed : inbox[r] = "open" /\ At(r, "none") => WaitsForResult(r)

(* A submitted account mutation owns the account until its bookkeeping is   *)
(* done, whoever cancelled meanwhile, so no second one is in flight.        *)
LeaseCoversMutation ==
    \A c \in Calls : \A tx \in call[c].sent : owner[tx.key] = c

(* An account nobody has leased that can be fetched again is in the recency *)
(* cache, or on its way to be evicted; nothing else is in the cache.        *)
RecencyMatches ==
    \A k \in Accounts : owner[k] = NoCall =>
        /\ Evictable(account[k]) =>
              \/ k \in lru \cup Range(evictions)
              \/ \E c \in Calls : call[c].kind = "Eviction" /\ call[c].todo = <<k>>
        /\ k \in lru => Evictable(account[k])

(* Every call ends: its locks are granted, and its mutations complete.      *)
(* Stated of one call: they are interchangeable.                            *)
CallsFinish ==
    LET c == CHOOSE any \in Calls : TRUE
    IN  call[c].at # "idle" ~>
          (call[c].at = "done" /\ call[c].got = {} /\ call[c].sent = {} /\ call[c].drops = {})
=============================================================================
