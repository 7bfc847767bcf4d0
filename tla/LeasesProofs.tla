---------------------------- MODULE LeasesProofs ----------------------------
(***************************************************************************)
(* Proofs about account leases and recency, for any accounts, calls,       *)
(* images and capacity.  KeeperProofs states them of the keeper.           *)
(***************************************************************************)
EXTENDS Leases, TLAPS

Lifecycle == [mode : AccountModes, slot : Nat, stored : BOOLEAN]

Transaction ==
    [key : Accounts, image : [mode : AccountModes, slot : Nat, must : BOOLEAN],
     result : {"pending", "ok", "failed"}]

Call ==
    [kind : {"none", "Account", "Missing", "Eviction"}, todo : Seq(Accounts),
     at : {"idle", "claim", "register", "check", "asleep", "observe", "done"},
     wait : Calls \cup {NoCall}, done : BOOLEAN, woken : BOOLEAN, got : SUBSET Accounts,
     seen : [Accounts -> Lifecycle], sent : SUBSET Transaction, drops : SUBSET Accounts]

LeaseTypeOK ==
    /\ account \in [Accounts -> Lifecycle]
    /\ owner \in [Accounts -> Calls \cup {NoCall}]
    /\ lru \subseteq Accounts
    /\ evictions \in Seq(Accounts)
    /\ call \in [Calls -> Call]

Observing(c, k) == call[c].at = "observe" /\ Head(call[c].todo) = k

(* The leases a call answers for, in its own hands or in those of its tasks, *)
(* are reserved for it, and no lease is in two hands.                        *)
OwnerOf(c) ==
    /\ call[c].at = "idle" => call[c].todo = <<>> /\ call[c].got = {} /\ call[c].sent = {}
    /\ call[c].at \notin {"idle", "done"} => call[c].todo # <<>>
    /\ \A k \in Accounts : Observing(c, k) => owner[k] = c /\ k \notin call[c].got
    /\ \A k \in call[c].got : owner[k] = c
    /\ \A tx \in call[c].sent :
          /\ owner[tx.key] = c /\ tx.key \notin call[c].got /\ ~Observing(c, tx.key)
          /\ \A other \in call[c].sent : other.key = tx.key => other = tx

OwnerInv == \A c \in Calls : OwnerOf(c)

(* What a lease has observed of evictability stays true under it, and so    *)
(* does what a transaction has made of it; an eviction cannot fail.         *)
ObservedOf(c) ==
    /\ \A k \in call[c].got : Evictable(call[c].seen[k]) <=> Evictable(account[k])
    /\ call[c].kind = "Eviction" => call[c].todo = <<>> \/ \E k \in Accounts : call[c].todo = <<k>>
    /\ \A tx \in call[c].sent :
          /\ tx.result = "ok" =>
                (Evictable(account[tx.key]) <=>
                    tx.image.mode # "Closed" /\ ~RequiresPersistence(tx.image.mode))
          /\ call[c].kind = "Eviction" =>
                /\ tx.image.mode = "Closed" /\ ~tx.image.must /\ tx.result # "failed"
                /\ tx.result = "pending" => Evictable(account[tx.key])

ObservedInv ==
    /\ \A k \in Accounts : account[k].stored => account[k].mode # "Closed"
    /\ \A c \in Calls : ObservedOf(c)

(* A change of k has executed, and its bookkeeping is still to be done. *)
Settled(k) == \E c \in Calls : \E tx \in call[c].sent : tx.key = k /\ tx.result = "ok"

(* A call answers for the eviction of k. *)
Evicts(c, k) ==
    /\ call[c].kind = "Eviction"
    /\ call[c].todo = <<k>> \/ k \in call[c].got \/ \E tx \in call[c].sent : tx.key = k

(* Recency agrees with the stored lifecycle, leased or not, except between  *)
(* the execution of a change and its bookkeeping.                           *)
Tracked(k) ==
    /\ k \in lru => Evictable(account[k])
    /\ Evictable(account[k]) =>
          k \in lru \/ k \in Range(evictions) \/ \E c \in Calls : Evicts(c, k)

TrackedInv == \A k \in Accounts : ~Settled(k) => Tracked(k)

LeaseInv == LeaseTypeOK /\ OwnerInv /\ ObservedInv /\ TrackedInv

-----------------------------------------------------------------------------
(* Modes and sequences.                                                     *)

(* A mode that needs no persistence may be closed at the same slot. *)
LEMMA UnpersistedModes ==
    /\ RequiresPersistence("Delegated") /\ RequiresPersistence("Undelegating")
    /\ \A mode \in AccountModes \ {"Closed"} :
          ~RequiresPersistence(mode) => <<mode, "Closed">> \in Keeping
    /\ {"Missing", "Delegated", "Undelegating", "Closed"} \subseteq AccountModes
<1>1. AccountModes = {"Missing", "Mirrored", "Delegated", "Undelegating", "Magic", "Runtime", "Closed"}
  BY DEF AccountModes, Policy
<1>2. \A mode \in {"Delegated", "Undelegating", "Magic", "Runtime"} : RequiresPersistence(mode)
  BY DEF RequiresPersistence, Authority, Policy
<1>3. <<"Missing", "Closed">> \in Keeping /\ <<"Mirrored", "Closed">> \in Keeping
  BY DEF Keeping
<1> QED
  BY <1>1, <1>2, <1>3

(* The empty sequence is one over any set. *)
LEMMA NoElement == ASSUME NEW S PROVE <<>> \in Seq(S)
OBVIOUS

(* The oldest element and the rest are all there is in a sequence. *)
LEMMA HeadAndTail ==
    ASSUME NEW S, NEW s \in Seq(S), s # <<>>
    PROVE  Head(s) \in S /\ Tail(s) \in Seq(S) /\ Range(s) = {Head(s)} \cup Range(Tail(s))
<1>1. Len(s) \in Nat \ {0} /\ DOMAIN s = 1..Len(s) /\ Head(s) = s[1]
  OBVIOUS
<1>2. Tail(s) \in Seq(S) /\ DOMAIN Tail(s) = 1..(Len(s) - 1) /\ \A i \in 1..(Len(s) - 1) : Tail(s)[i] = s[i + 1]
  <2>1. Tail(s) \in Seq(S) /\ Len(Tail(s)) = Len(s) - 1
    OBVIOUS
  <2>2. \A i \in 1..(Len(s) - 1) : Tail(s)[i] = s[i + 1]
    OBVIOUS
  <2>3. DOMAIN Tail(s) = 1..(Len(s) - 1)
    BY <2>1
  <2> QED
    BY <2>1, <2>2, <2>3
<1>3. ASSUME NEW i \in DOMAIN s PROVE s[i] \in {Head(s)} \cup Range(Tail(s))
  <2>1. CASE i = 1
    BY <1>1, <2>1
  <2>2. CASE i # 1
    <3>1. i - 1 \in DOMAIN Tail(s) /\ Tail(s)[i - 1] = s[i]
      BY <1>1, <1>2, <2>2
    <3> QED
      BY <3>1 DEF Range
  <2> QED
    BY <2>1, <2>2
<1>4. ASSUME NEW i \in DOMAIN Tail(s) PROVE Tail(s)[i] \in Range(s)
  <2>1. i + 1 \in DOMAIN s /\ Tail(s)[i] = s[i + 1]
    BY <1>1, <1>2
  <2> QED
    BY <2>1 DEF Range
<1>5. Head(s) \in Range(s) /\ Head(s) \in S
  BY <1>1 DEF Range
<1> QED
  BY <1>2, <1>3, <1>4, <1>5 DEF Range

(* A sequence of one element. *)
LEMMA OneElementSeq ==
    ASSUME NEW S, NEW x \in S
    PROVE  /\ <<x>> \in Seq(S) /\ <<x>> # <<>> /\ Head(<<x>>) = x /\ Tail(<<x>>) = <<>>
           /\ \A y : <<x>> = <<y>> => x = y
OBVIOUS

(* What is appended is there, with all that was. *)
LEMMA AppendSet ==
    ASSUME NEW S, NEW s \in Seq(S), NEW x \in S
    PROVE  Append(s, x) \in Seq(S) /\ Range(Append(s, x)) = Range(s) \cup {x}
<1>1. /\ Append(s, x) \in Seq(S) /\ Len(s) \in Nat
      /\ DOMAIN s = 1..Len(s) /\ DOMAIN Append(s, x) = 1..(Len(s) + 1)
      /\ \A i \in 1..Len(s) : Append(s, x)[i] = s[i]
      /\ Append(s, x)[Len(s) + 1] = x
  OBVIOUS
<1>2. \A i \in 1..(Len(s) + 1) : i \in 1..Len(s) \/ i = Len(s) + 1
  BY <1>1
<1>3. \A i \in 1..Len(s) : i \in 1..(Len(s) + 1)
  BY <1>1
<1>4. Len(s) + 1 \in 1..(Len(s) + 1)
  BY <1>1
<1> QED
  BY <1>1, <1>2, <1>3, <1>4, Zenon DEF Range

(* The scan of missing_accounts yields keys of the request. *)
LEMMA MissingScanType ==
    ASSUME NEW asked \in Requests, NEW todo \in MissingScan(asked)
    PROVE  todo \in Seq(Accounts)
<1>1. asked \in Seq(Accounts) /\ Len(asked) \in Nat
  BY LeasesAssumption
<1>2. Range(asked) \subseteq Accounts
  BY <1>1 DEF Range
<1>3. PICK n \in 0..Len(asked) : todo \in [1..n -> Range(asked)]
  BY DEF MissingScan
<1>4. n \in Nat /\ todo \in [1..n -> Accounts]
  BY <1>1, <1>2, <1>3
<1> QED
  BY <1>4

-----------------------------------------------------------------------------
(* Waiting for a lease: no lease changes hands.                             *)

LEMMA SameHands ==
    ASSUME LeaseInv, call' \in [Calls -> Call], UNCHANGED <<account, owner, lru, evictions>>,
           \A w \in Calls :
              /\ call'[w].kind = call[w].kind /\ call'[w].todo = call[w].todo
              /\ call'[w].got = call[w].got /\ call'[w].seen = call[w].seen
              /\ call'[w].sent = call[w].sent
              /\ \/ call'[w].at = call[w].at
                 \/ /\ call'[w].at \notin {"idle", "done", "observe"}
                    /\ call[w].at \notin {"idle", "done"}
    PROVE  LeaseInv'
<1> USE DEF LeaseInv
<1>1. LeaseTypeOK'
  BY DEF LeaseTypeOK
<1>2. \A w \in Calls, k \in Accounts : Observing(w, k)' => Observing(w, k)
  BY DEF Observing
<1>3. OwnerInv'
  <2>1. ASSUME NEW w \in Calls, NEW tx \in call[w].sent PROVE ~Observing(w, tx.key)'
    BY DEF OwnerInv, OwnerOf, Observing
  <2> QED
    BY <1>2, <2>1 DEF OwnerInv, OwnerOf
<1>4. ObservedInv'
  BY DEF ObservedInv, ObservedOf
<1>5. TrackedInv'
  <2>1. \A k \in Accounts : Settled(k)' <=> Settled(k)
    BY DEF Settled
  <2>2. \A w \in Calls, k \in Accounts : Evicts(w, k)' <=> Evicts(w, k)
    BY DEF Evicts
  <2> QED
    BY <2>1, <2>2 DEF TrackedInv, Tracked
<1> QED
  BY <1>1, <1>3, <1>4, <1>5

LEMMA LeaseStutter ==
    ASSUME LeaseInv, UNCHANGED leaseVars
    PROVE  LeaseInv'
BY SameHands DEF leaseVars, LeaseInv, LeaseTypeOK

LEMMA RegisterInv ==
    ASSUME LeaseInv, NEW c \in Calls, Register(c)
    PROVE  LeaseInv'
<1>1. call \in [Calls -> Call] /\ call[c] \in Call
  BY DEF LeaseInv, LeaseTypeOK
<1>2. /\ call'[c] \in Call
      /\ call'[c].kind = call[c].kind /\ call'[c].todo = call[c].todo
      /\ call'[c].got = call[c].got /\ call'[c].seen = call[c].seen
      /\ call'[c].sent = call[c].sent
      /\ call'[c].at \notin {"idle", "done", "observe"} /\ call[c].at \notin {"idle", "done"}
  BY <1>1, Zenon DEF Register, Call
<1>3. \A w \in Calls \ {c} : call'[w] = call[w]
  BY <1>1 DEF Register
<1>4. call' \in [Calls -> Call]
  BY <1>1, <1>2, <1>3 DEF Register
<1> QED
  BY <1>2, <1>3, <1>4, SameHands DEF Register

LEMMA CheckInv ==
    ASSUME LeaseInv, NEW c \in Calls, Check(c)
    PROVE  LeaseInv'
<1>1. call \in [Calls -> Call] /\ call[c] \in Call
  BY DEF LeaseInv, LeaseTypeOK
<1>2. /\ call'[c] \in Call
      /\ call'[c].kind = call[c].kind /\ call'[c].todo = call[c].todo
      /\ call'[c].got = call[c].got /\ call'[c].seen = call[c].seen
      /\ call'[c].sent = call[c].sent
      /\ call'[c].at \notin {"idle", "done", "observe"} /\ call[c].at \notin {"idle", "done"}
  BY <1>1, Zenon DEF Check, Call
<1>3. \A w \in Calls \ {c} : call'[w] = call[w]
  BY <1>1 DEF Check
<1>4. call' \in [Calls -> Call]
  BY <1>1, <1>2, <1>3 DEF Check
<1> QED
  BY <1>2, <1>3, <1>4, SameHands DEF Check

LEMMA WakeInv ==
    ASSUME LeaseInv, NEW c \in Calls, Wake(c)
    PROVE  LeaseInv'
<1>1. call \in [Calls -> Call] /\ call[c] \in Call
  BY DEF LeaseInv, LeaseTypeOK
<1>2. /\ call'[c] \in Call
      /\ call'[c].kind = call[c].kind /\ call'[c].todo = call[c].todo
      /\ call'[c].got = call[c].got /\ call'[c].seen = call[c].seen
      /\ call'[c].sent = call[c].sent
      /\ call'[c].at \notin {"idle", "done", "observe"} /\ call[c].at \notin {"idle", "done"}
  BY <1>1 DEF Wake, Call
<1>3. \A w \in Calls \ {c} : call'[w] = call[w]
  BY <1>1 DEF Wake
<1>4. call' \in [Calls -> Call]
  BY <1>1, <1>2, <1>3 DEF Wake
<1> QED
  BY <1>2, <1>3, <1>4, SameHands DEF Wake

(* The waiters woken are asleep or about to be; a lease is in none of them. *)
LEMMA NotifyInv ==
    ASSUME LeaseInv, NEW c \in Calls, NEW k \in Accounts, Notify(c, k)
    PROVE  LeaseInv'
<1>1. call \in [Calls -> Call]
  BY DEF LeaseInv, LeaseTypeOK
<1>2. ASSUME NEW w \in Calls
      PROVE  /\ call'[w] \in Call
             /\ call'[w].kind = call[w].kind /\ call'[w].todo = call[w].todo
             /\ call'[w].got = call[w].got /\ call'[w].seen = call[w].seen
             /\ call'[w].sent = call[w].sent /\ call'[w].at = call[w].at
  <2> DEFINE awake == call[w].at \in {"check", "asleep"}
  <2>0. call[w] \in Call /\ awake \in BOOLEAN
    BY <1>1
  <2>1. CASE w = c
    <3>1. call'[w] = [call[w] EXCEPT !.drops = @ \ {k}]
      BY <2>1, Zenon DEF Notify
    <3> QED
      BY <2>0, <3>1 DEF Call
  <2>2. CASE w # c /\ Waits(w, c, k)
    <3>1. call'[w] = [call[w] EXCEPT !.done = TRUE, !.woken = awake]
      BY <2>2, Zenon DEF Notify
    <3> HIDE DEF awake
    <3> QED
      BY <2>0, <3>1, Zenon DEF Call
  <2>3. CASE w # c /\ ~Waits(w, c, k)
    BY <2>0, <2>3, Zenon DEF Notify
  <2> QED
    BY <2>1, <2>2, <2>3
<1>3. call' \in [Calls -> Call]
  BY <1>2, Zenon DEF Notify
<1> QED
  BY <1>2, <1>3, SameHands, Zenon DEF Notify

-----------------------------------------------------------------------------
(* Starting a call: it holds nothing yet.                                   *)

(* A key goes from the eviction channel to the call that answers for it.    *)
LEMMA StartInv ==
    ASSUME LeaseInv, NEW c \in Calls, NEW kind \in {"Account", "Missing", "Eviction"},
           NEW todo \in Seq(Accounts), Start(c, kind, todo),
           \/ kind # "Eviction" /\ UNCHANGED evictions
           \/ /\ kind = "Eviction" /\ evictions # <<>>
              /\ todo = <<Head(evictions)>> /\ evictions' = Tail(evictions)
    PROVE  LeaseInv'
<1> USE DEF LeaseInv
<1>1. call \in [Calls -> Call] /\ call[c] \in Call /\ evictions \in Seq(Accounts)
  BY DEF LeaseTypeOK
<1>2. /\ call'[c] \in Call
      /\ call'[c].kind = kind /\ call'[c].todo = todo
      /\ call'[c].got = call[c].got /\ call'[c].sent = call[c].sent
      /\ \/ call'[c].at = "done" /\ todo = <<>>
         \/ call'[c].at = "claim" /\ todo # <<>>
  BY <1>1 DEF Start, Call
<1>3. call[c].at = "idle" /\ UNCHANGED <<account, owner, lru>>
  BY DEF Start
<1>4. call[c].todo = <<>> /\ call[c].got = {} /\ call[c].sent = {}
  BY <1>3 DEF OwnerInv, OwnerOf
<1>5. \A w \in Calls \ {c} : call'[w] = call[w]
  BY <1>1 DEF Start
<1>6. call' \in [Calls -> Call]
  BY <1>1, <1>2, <1>5 DEF Start
<1>7. LeaseTypeOK'
  <2>1. evictions' \in Seq(Accounts)
    BY <1>1, HeadAndTail, Zenon
  <2> QED
    BY <1>3, <1>6, <2>1 DEF LeaseTypeOK
<1>8. OwnerInv'
  BY <1>2, <1>3, <1>4, <1>5 DEF OwnerInv, OwnerOf, Observing
<1>9. ObservedInv'
  <2>1. kind = "Eviction" => Head(evictions) \in Accounts /\ todo = <<Head(evictions)>>
    BY <1>1, HeadAndTail
  <2> QED
    BY <1>2, <1>3, <1>4, <1>5, <2>1 DEF ObservedInv, ObservedOf
<1>10. TrackedInv'
  <2>1. \A k \in Accounts : Settled(k)' <=> Settled(k)
    BY <1>2, <1>4, <1>5 DEF Settled
  <2>2. ASSUME NEW w \in Calls, NEW k \in Accounts, Evicts(w, k) PROVE Evicts(w, k)'
    <3>1. w # c
      BY <1>4, <2>2, OneElementSeq DEF Evicts
    <3> QED
      BY <1>5, <2>2, <3>1 DEF Evicts
  <2>3. ASSUME NEW k \in Range(evictions) PROVE k \in Range(evictions') \/ Evicts(c, k)'
    <3>1. CASE UNCHANGED evictions
      BY <3>1
    <3>2. CASE kind = "Eviction" /\ evictions # <<>> /\ todo = <<Head(evictions)>> /\ evictions' = Tail(evictions)
      BY <1>1, <1>2, <3>2, HeadAndTail DEF Evicts
    <3> QED
      BY <3>1, <3>2
  <2> QED
    BY <1>3, <2>1, <2>2, <2>3 DEF TrackedInv, Tracked
<1> QED
  BY <1>7, <1>8, <1>9, <1>10

LEMMA LockAccountInv ==
    ASSUME LeaseInv, NEW c \in Calls, LockAccount(c)
    PROVE  LeaseInv'
BY StartInv, OneElementSeq, Zenon DEF LockAccount

LEMMA MissingAccountsInv ==
    ASSUME LeaseInv, NEW c \in Calls, MissingAccounts(c)
    PROVE  LeaseInv'
BY StartInv, MissingScanType DEF MissingAccounts

LEMMA ConsumeEvictionInv ==
    ASSUME LeaseInv, NEW c \in Calls, ConsumeEviction(c)
    PROVE  LeaseInv'
<1>1. <<Head(evictions)>> \in Seq(Accounts)
  BY HeadAndTail, OneElementSeq DEF ConsumeEviction, LeaseInv, LeaseTypeOK
<1> QED
  BY <1>1, StartInv, Zenon DEF ConsumeEviction

-----------------------------------------------------------------------------
(* Taking a lease.                                                          *)

(* A free key is reserved for the call that looks at it next. *)
LEMMA ClaimInv ==
    ASSUME LeaseInv, NEW c \in Calls, Claim(c)
    PROVE  LeaseInv'
<1> USE DEF LeaseInv
<1> DEFINE k == Head(call[c].todo)
<1>1. call \in [Calls -> Call] /\ call[c] \in Call /\ owner \in [Accounts -> Calls \cup {NoCall}]
  BY DEF LeaseTypeOK
<1>2. call[c].at = "claim" /\ UNCHANGED <<account, lru, evictions>>
  BY DEF Claim
<1>3. k \in Accounts
  <2>1. call[c].todo \in Seq(Accounts) /\ call[c].todo # <<>>
    BY <1>1, <1>2 DEF Call, OwnerInv, OwnerOf
  <2> QED
    BY <2>1, HeadAndTail
<1>4. \A w \in Calls \ {c} : call'[w] = call[w]
  BY <1>1 DEF Claim
<1>5. /\ call'[c] \in Call
      /\ call'[c].kind = call[c].kind /\ call'[c].todo = call[c].todo
      /\ call'[c].got = call[c].got /\ call'[c].seen = call[c].seen
      /\ call'[c].sent = call[c].sent
      /\ \/ owner[k] = NoCall /\ call'[c].at = "observe"
         \/ owner[k] # NoCall /\ call'[c].at = "register"
  <2> HIDE DEF k
  <2>1. owner[k] \in Calls \cup {NoCall}
    BY <1>1, <1>3
  <2>2. CASE owner[k] = NoCall
    <3>1. call'[c] = [call[c] EXCEPT !.at = "observe", !.wait = NoCall, !.done = FALSE, !.woken = FALSE]
      BY <1>1, <2>2 DEF Claim, k
    <3> QED
      BY <1>1, <2>2, <3>1 DEF Call
  <2>3. CASE owner[k] # NoCall
    <3>1. call'[c] = [call[c] EXCEPT !.at = "register", !.wait = owner[k], !.done = FALSE, !.woken = FALSE]
      BY <1>1, <2>3 DEF Claim, k
    <3> QED
      BY <1>1, <2>1, <2>3, <3>1 DEF Call
  <2> QED
    BY <2>2, <2>3
<1>6. call' \in [Calls -> Call]
  BY <1>1, <1>4, <1>5 DEF Claim
<1>7. CASE owner[k] # NoCall
  <2>1. owner' = owner
    BY <1>7 DEF Claim
  <2> QED
    BY <1>2, <1>4, <1>5, <1>6, <1>7, <2>1, SameHands
<1>8. CASE owner[k] = NoCall
  <2>1. /\ owner' \in [Accounts -> Calls \cup {NoCall}] /\ owner'[k] = c
        /\ \A j \in Accounts \ {k} : owner'[j] = owner[j]
    BY <1>1, <1>3, <1>8 DEF Claim
  <2>2. call'[c].at = "observe"
    BY <1>5, <1>8
  <2>3. NoCall \notin Calls
    BY LeasesAssumption DEF NoCall
  <2> HIDE DEF k
  <2>4. LeaseTypeOK'
    BY <1>2, <1>6, <2>1 DEF LeaseTypeOK
  <2>5. ASSUME NEW w \in Calls
        PROVE  /\ ~Observing(w, k) /\ k \notin call[w].got
               /\ \A tx \in call[w].sent : tx.key # k
    BY <1>3, <1>8, <2>3 DEF OwnerInv, OwnerOf
  <2>6. \A w \in Calls : \A tx \in call[w].sent : tx.key \in Accounts
    BY <1>1 DEF Call, Transaction
  <2>7. \A w \in Calls : call[w].got \subseteq Accounts
    BY <1>1 DEF Call
  <2>8. OwnerInv'
    <3>1. ASSUME NEW j \in Accounts PROVE Observing(c, j)' <=> j = k
      BY <1>5, <2>2 DEF Observing, k
    <3>2. ASSUME NEW w \in Calls \ {c}, NEW j \in Accounts PROVE Observing(w, j)' <=> Observing(w, j)
      BY <1>4 DEF Observing
    <3>3. call[c].todo # <<>>
      BY <1>2 DEF OwnerInv, OwnerOf
    <3> QED
      BY <1>2, <1>4, <1>5, <2>1, <2>2, <2>5, <2>6, <2>7, <3>1, <3>2, <3>3 DEF OwnerInv, OwnerOf
  <2>9. ObservedInv'
    BY <1>2, <1>4, <1>5 DEF ObservedInv, ObservedOf
  <2>10. TrackedInv'
    <3>1. \A j \in Accounts : Settled(j)' <=> Settled(j)
      BY <1>4, <1>5 DEF Settled
    <3>2. \A w \in Calls, j \in Accounts : Evicts(w, j)' <=> Evicts(w, j)
      BY <1>4, <1>5 DEF Evicts
    <3> QED
      BY <1>2, <3>1, <3>2 DEF TrackedInv, Tracked
  <2> QED
    BY <2>4, <2>8, <2>9, <2>10
<1> QED
  BY <1>7, <1>8

-----------------------------------------------------------------------------
(* What one call does leaves the leases of the others alone.                *)

(* Only keys that are free or leased to c change owner. *)
LEMMA OthersOwn ==
    ASSUME OwnerInv, NEW c \in Calls, \A w \in Calls \ {c} : call'[w] = call[w],
           \A k \in Accounts : owner[k] \in Calls \ {c} => owner'[k] = owner[k],
           call \in [Calls -> Call], OwnerOf(c)'
    PROVE  OwnerInv'
<1>1. ASSUME NEW w \in Calls \ {c} PROVE OwnerOf(w)'
  <2>1. call[w].got \subseteq Accounts /\ \A tx \in call[w].sent : tx.key \in Accounts
    BY DEF Call, Transaction
  <2>2. OwnerOf(w) /\ call'[w] = call[w]
    BY DEF OwnerInv
  <2>3. \A k \in Accounts : owner[k] = w => owner'[k] = w
    OBVIOUS
  <2>4. \A k : Observing(w, k)' <=> Observing(w, k)
    BY <2>2 DEF Observing
  <2> QED
    BY <2>1, <2>2, <2>3, <2>4 DEF OwnerOf
<1> QED
  BY <1>1 DEF OwnerInv

(* Lifecycles others have leased keep their evictability. *)
LEMMA OthersObserve ==
    ASSUME OwnerInv, ObservedInv, NEW c \in Calls, \A w \in Calls \ {c} : call'[w] = call[w],
           \A k \in Accounts : owner[k] \in Calls \ {c} =>
               (Evictable(account'[k]) <=> Evictable(account[k])),
           call \in [Calls -> Call], ObservedOf(c)'
    PROVE  \A w \in Calls : ObservedOf(w)'
<1>1. ASSUME NEW w \in Calls \ {c} PROVE ObservedOf(w)'
  <2>1. call[w].got \subseteq Accounts /\ \A tx \in call[w].sent : tx.key \in Accounts
    BY DEF Call, Transaction
  <2>2. OwnerOf(w) /\ ObservedOf(w) /\ call'[w] = call[w]
    BY DEF OwnerInv, ObservedInv
  <2>3. \A k \in Accounts : owner[k] = w => (Evictable(account'[k]) <=> Evictable(account[k]))
    OBVIOUS
  <2>4. /\ \A k \in call[w].got : Evictable(account'[k]) <=> Evictable(account[k])
        /\ \A tx \in call[w].sent : Evictable(account'[tx.key]) <=> Evictable(account[tx.key])
    BY <2>1, <2>2, <2>3 DEF OwnerOf
  <2> QED
    BY <2>2, <2>4 DEF ObservedOf
<1> QED
  BY <1>1

(* Recency of the keys a step is not about. *)
LEMMA StaysTracked ==
    ASSUME NEW k, Tracked(k), account'[k] = account[k],
           k \in lru' => k \in lru,
           k \in lru => k \in lru' \/ k \in Range(evictions'),
           k \in Range(evictions) => k \in Range(evictions'),
           \A w \in Calls : Evicts(w, k) => Evicts(w, k)'
    PROVE  Tracked(k)'
BY DEF Tracked

(* What a call does with one key leaves the changes of other keys as they are. *)
LEMMA SettledOf ==
    ASSUME NEW c \in Calls, \A w \in Calls \ {c} : call'[w] = call[w], NEW k,
           (\E tx \in call'[c].sent : tx.key = k /\ tx.result = "ok")
             <=> (\E tx \in call[c].sent : tx.key = k /\ tx.result = "ok")
    PROVE  Settled(k)' <=> Settled(k)
<1>1. \A w \in Calls : (\E tx \in call'[w].sent : tx.key = k /\ tx.result = "ok")
                          <=> (\E tx \in call[w].sent : tx.key = k /\ tx.result = "ok")
  OBVIOUS
<1> QED
  BY <1>1 DEF Settled

(* A key leased to c has no change of another call to settle. *)
LEMMA SettledByOwner ==
    ASSUME OwnerInv, NEW c \in Calls, NEW k, owner[k] = c
    PROVE  Settled(k) <=> \E tx \in call[c].sent : tx.key = k /\ tx.result = "ok"
BY DEF OwnerInv, OwnerOf, Settled

(* track() admits the key or takes it out, and a displaced key is queued. *)
LEMMA TrackEffect ==
    ASSUME LeaseTypeOK, NEW k \in Accounts, NEW mode, Track(k, mode)
    PROVE  /\ lru' \subseteq Accounts /\ evictions' \in Seq(Accounts)
           /\ RequiresPersistence(mode) => k \notin lru'
           /\ ~RequiresPersistence(mode) => k \in lru'
           /\ \A j \in lru' : j # k => j \in lru
           /\ \A j \in lru : j # k => j \in lru' \/ j \in Range(evictions')
           /\ Range(evictions) \subseteq Range(evictions')
<1>1. lru \subseteq Accounts /\ evictions \in Seq(Accounts)
  BY DEF LeaseTypeOK
<1>2. CASE RequiresPersistence(mode)
  BY <1>1, <1>2 DEF Track
<1>3. CASE ~RequiresPersistence(mode) /\ (k \in lru \/ Cardinality(lru) < Capacity)
  BY <1>1, <1>3 DEF Track
<1>4. CASE ~RequiresPersistence(mode) /\ ~(k \in lru \/ Cardinality(lru) < Capacity)
  <2>1. PICK cold \in lru : lru' = (lru \ {cold}) \cup {k} /\ evictions' = Append(evictions, cold)
    BY <1>4 DEF Track
  <2>2. evictions' \in Seq(Accounts) /\ Range(evictions') = Range(evictions) \cup {cold}
    BY <1>1, <2>1, AppendSet
  <2> QED
    BY <1>1, <1>4, <2>1, <2>2
<1> QED
  BY <1>2, <1>3, <1>4

-----------------------------------------------------------------------------
(* Steps of a call under its leases.                                        *)

(* The lease of the key looked at is kept with what was seen, or dropped. *)
LEMMA ObserveInv ==
    ASSUME LeaseInv, NEW c \in Calls, Observe(c)
    PROVE  LeaseInv'
<1> USE DEF LeaseInv
<1> DEFINE k == Head(call[c].todo)
           rest == Tail(call[c].todo)
           keep == call[c].kind # "Missing" \/ ~account[k].stored
<1>1. /\ call \in [Calls -> Call] /\ call[c] \in Call /\ owner \in [Accounts -> Calls \cup {NoCall}]
      /\ account \in [Accounts -> Lifecycle]
  BY DEF LeaseTypeOK
<1>2. call[c].at = "observe" /\ OwnerOf(c) /\ UNCHANGED <<account, lru, evictions>>
  BY Zenon DEF Observe, OwnerInv
<1>3. call[c].todo \in Seq(Accounts) /\ call[c].todo # <<>>
  BY <1>1, <1>2 DEF Call, OwnerOf
<1>4. k \in Accounts /\ rest \in Seq(Accounts)
  BY <1>3, HeadAndTail
<1>5. \A w \in Calls \ {c} : call'[w] = call[w]
  BY <1>1, Zenon DEF Observe
<1>6. call'[c] = [call[c] EXCEPT !.seen[k] = IF keep THEN account[k] ELSE @,
                                 !.got = IF keep THEN @ \cup {k} ELSE @,
                                 !.drops = IF keep THEN @ ELSE @ \cup {k},
                                 !.todo = rest,
                                 !.at = IF rest = <<>> THEN "done" ELSE "claim"]
  BY <1>1, Zenon DEF Observe
<1>7. owner' = IF keep THEN owner ELSE [owner EXCEPT ![k] = NoCall]
  BY Zenon DEF Observe
<1>8. owner[k] = c /\ k \notin call[c].got /\ \A tx \in call[c].sent : tx.key # k
  <2>1. Observing(c, k)
    BY <1>2 DEF Observing
  <2> HIDE DEF k
  <2> QED
    BY <1>2, <1>4, <2>1 DEF OwnerOf
<1>9. call[c].kind = "Eviction" => keep /\ rest = <<>> /\ call[c].todo = <<k>>
  <2>1. ASSUME call[c].kind = "Eviction" PROVE \E j \in Accounts : call[c].todo = <<j>>
    BY <1>3, <2>1 DEF ObservedInv, ObservedOf
  <2> QED
    BY <2>1, OneElementSeq, Zenon
<1>10. account[k] \in Lifecycle
  BY <1>1, <1>4
<1> HIDE DEF k, rest
<1>11. CASE keep
  <2>1. /\ call'[c] \in Call
        /\ call'[c].kind = call[c].kind /\ call'[c].sent = call[c].sent /\ call'[c].todo = rest
        /\ call'[c].got = call[c].got \cup {k} /\ call'[c].seen[k] = account[k]
        /\ \A j \in Accounts \ {k} : call'[c].seen[j] = call[c].seen[j]
        /\ \/ call'[c].at = "done" /\ rest = <<>>
           \/ call'[c].at = "claim" /\ rest # <<>>
    <3> DEFINE seen == [call[c].seen EXCEPT ![k] = account[k]]
               drops == call[c].drops
               at == IF rest = <<>> THEN "done" ELSE "claim"
    <3>1. call'[c] = [call[c] EXCEPT !.seen = seen, !.got = call[c].got \cup {k}, !.drops = drops,
                                     !.todo = rest, !.at = at]
      BY <1>6, <1>11, Zenon
    <3>2. /\ seen \in [Accounts -> Lifecycle] /\ drops \subseteq Accounts
          /\ seen[k] = account[k] /\ \A j \in Accounts \ {k} : seen[j] = call[c].seen[j]
      BY <1>1, <1>4, <1>10 DEF Call
    <3>3. \/ at = "done" /\ rest = <<>>
          \/ at = "claim" /\ rest # <<>>
      OBVIOUS
    <3> HIDE DEF seen, drops, at
    <3>4. call[c].got \cup {k} \in SUBSET Accounts
      BY <1>1, <1>4 DEF Call
    <3>5. call'[c] \in Call
      BY <1>1, <1>4, <3>1, <3>2, <3>3, <3>4, ZenonT(60) DEF Call
    <3> QED
      BY <1>1, <3>1, <3>2, <3>3, <3>5 DEF Call
  <2>2. owner' = owner
    BY <1>7, <1>11
  <2>3. LeaseTypeOK'
    <3>1. call' \in [Calls -> Call]
      BY <1>1, <1>5, <2>1, Zenon DEF Observe
    <3> QED
      BY <1>2, <2>2, <3>1 DEF LeaseTypeOK
  <2>4. OwnerOf(c)'
    BY <1>2, <1>8, <2>1, <2>2 DEF OwnerOf, Observing
  <2>5. OwnerInv'
    BY <1>1, <1>5, <2>2, <2>4, OthersOwn
  <2>6. ObservedOf(c)'
    <3>1. call[c].got \subseteq Accounts
      BY <1>1 DEF Call
    <3> QED
      BY <1>2, <1>8, <1>9, <2>1, <3>1 DEF ObservedInv, ObservedOf
  <2>7. ObservedInv'
    BY <1>1, <1>2, <1>5, <2>6, OthersObserve DEF ObservedInv
  <2>8. TrackedInv'
    <3>1. ASSUME NEW j \in Accounts PROVE Settled(j)' <=> Settled(j)
      BY <1>5, <2>1, SettledOf
    <3>2. ASSUME NEW j \in Accounts, NEW w \in Calls, Evicts(w, j) PROVE Evicts(w, j)'
      BY <1>4, <1>5, <1>9, <2>1, <3>2, OneElementSeq DEF Evicts
    <3> QED
      BY <1>2, <3>1, <3>2, StaysTracked DEF TrackedInv
  <2> QED
    BY <2>3, <2>5, <2>7, <2>8
<1>12. CASE ~keep
  <2>1. /\ call'[c] \in Call
        /\ call'[c].kind = call[c].kind /\ call'[c].sent = call[c].sent /\ call'[c].todo = rest
        /\ call'[c].got = call[c].got
        /\ \A j \in Accounts : call'[c].seen[j] = call[c].seen[j]
        /\ \/ call'[c].at = "done" /\ rest = <<>>
           \/ call'[c].at = "claim" /\ rest # <<>>
    <3> DEFINE seen == [call[c].seen EXCEPT ![k] = call[c].seen[k]]
               drops == call[c].drops \cup {k}
               at == IF rest = <<>> THEN "done" ELSE "claim"
    <3>1. call'[c] = [call[c] EXCEPT !.seen = seen, !.got = call[c].got, !.drops = drops,
                                     !.todo = rest, !.at = at]
      BY <1>6, <1>12
    <3>2. /\ seen \in [Accounts -> Lifecycle] /\ drops \subseteq Accounts
          /\ \A j \in Accounts : seen[j] = call[c].seen[j]
      BY <1>1, <1>4, <1>10 DEF Call
    <3>3. \/ at = "done" /\ rest = <<>>
          \/ at = "claim" /\ rest # <<>>
      OBVIOUS
    <3> HIDE DEF seen, drops, at
    <3> QED
      BY <1>1, <1>4, <3>1, <3>2, <3>3, ZenonT(60) DEF Call
  <2>2. /\ owner' \in [Accounts -> Calls \cup {NoCall}] /\ owner'[k] = NoCall
        /\ \A j \in Accounts \ {k} : owner'[j] = owner[j]
    BY <1>1, <1>4, <1>7, <1>12
  <2>3. LeaseTypeOK'
    <3>1. call' \in [Calls -> Call]
      BY <1>1, <1>5, <2>1, Zenon DEF Observe
    <3> QED
      BY <1>2, <2>2, <3>1 DEF LeaseTypeOK
  <2>4. OwnerOf(c)'
    <3>1. call[c].got \subseteq Accounts /\ \A tx \in call[c].sent : tx.key \in Accounts
      BY <1>1 DEF Call, Transaction
    <3> QED
      BY <1>2, <1>8, <2>1, <2>2, <3>1 DEF OwnerOf, Observing
  <2>5. OwnerInv'
    BY <1>1, <1>5, <1>8, <2>2, <2>4, OthersOwn
  <2>6. ObservedOf(c)'
    <3>1. call[c].got \subseteq Accounts
      BY <1>1 DEF Call
    <3> QED
      BY <1>2, <1>9, <1>12, <2>1, <3>1 DEF ObservedInv, ObservedOf
  <2>7. ObservedInv'
    BY <1>1, <1>2, <1>5, <2>6, OthersObserve DEF ObservedInv
  <2>8. TrackedInv'
    <3>1. ASSUME NEW j \in Accounts PROVE Settled(j)' <=> Settled(j)
      BY <1>5, <2>1, SettledOf
    <3>2. ASSUME NEW j \in Accounts, NEW w \in Calls, Evicts(w, j) PROVE Evicts(w, j)'
      BY <1>5, <1>9, <1>12, <2>1, <3>2 DEF Evicts
    <3> QED
      BY <1>2, <3>1, <3>2, StaysTracked DEF TrackedInv
  <2> QED
    BY <2>3, <2>5, <2>7, <2>8
<1> QED
  BY <1>11, <1>12

(* A lease is dropped, and recency is right about its key by then. *)
LEMMA DropLeaseInv ==
    ASSUME LeaseInv, NEW c \in Calls, NEW k \in call[c].got, call[c].at = "done", DropLease(c, k),
           UNCHANGED account, lru' \subseteq Accounts, evictions' \in Seq(Accounts),
           \A j \in lru' : j # k => j \in lru,
           \A j \in lru : j # k => j \in lru' \/ j \in Range(evictions'),
           Range(evictions) \subseteq Range(evictions'),
           k \in lru' => Evictable(account[k]),
           Evictable(account[k]) =>
              k \in lru' \/ k \in Range(evictions') \/ \E w \in Calls \ {c} : Evicts(w, k)
    PROVE  LeaseInv'
<1> USE DEF LeaseInv
<1>1. call \in [Calls -> Call] /\ call[c] \in Call /\ owner \in [Accounts -> Calls \cup {NoCall}]
  BY DEF LeaseTypeOK
<1>2. k \in Accounts /\ OwnerOf(c) /\ ObservedOf(c)
  BY <1>1 DEF Call, OwnerInv, ObservedInv
<1>3. \A w \in Calls \ {c} : call'[w] = call[w]
  BY <1>1 DEF DropLease
<1>4. /\ call'[c] \in Call
      /\ call'[c].kind = call[c].kind /\ call'[c].sent = call[c].sent
      /\ call'[c].todo = call[c].todo /\ call'[c].at = call[c].at
      /\ call'[c].got = call[c].got \ {k}
      /\ \A j \in Accounts \ {k} : call'[c].seen[j] = call[c].seen[j]
  <2> DEFINE seen == [call[c].seen EXCEPT ![k] = Absent]
             got == call[c].got \ {k}
             drops == call[c].drops \cup {k}
  <2>1. call'[c] = [call[c] EXCEPT !.got = got, !.seen = seen, !.drops = drops]
    BY <1>1 DEF DropLease
  <2>2. Absent \in Lifecycle
    BY UnpersistedModes DEF Absent, Lifecycle
  <2>3. /\ seen \in [Accounts -> Lifecycle] /\ drops \in SUBSET Accounts /\ got \in SUBSET Accounts
        /\ \A j \in Accounts \ {k} : seen[j] = call[c].seen[j]
    BY <1>1, <1>2, <2>2 DEF Call
  <2> HIDE DEF seen, got, drops
  <2>4. call'[c] \in Call
    BY <1>1, <2>1, <2>3, Zenon DEF Call
  <2> QED
    BY <1>1, <2>1, <2>3, <2>4 DEF Call, got
<1>5. /\ owner' \in [Accounts -> Calls \cup {NoCall}] /\ owner'[k] = NoCall
      /\ \A j \in Accounts \ {k} : owner'[j] = owner[j]
  BY <1>1, <1>2 DEF DropLease
<1>6. LeaseTypeOK'
  <2>1. call' \in [Calls -> Call]
    BY <1>1, <1>3, <1>4 DEF DropLease
  <2> QED
    BY <1>5, <2>1 DEF LeaseTypeOK
<1>7. owner[k] = c /\ \A tx \in call[c].sent : tx.key # k
  BY <1>2 DEF OwnerOf
<1>8. call[c].got \subseteq Accounts /\ \A tx \in call[c].sent : tx.key \in Accounts
  BY <1>1 DEF Call, Transaction
<1>9. OwnerOf(c)'
  BY <1>2, <1>4, <1>5, <1>7, <1>8 DEF OwnerOf, Observing
<1>10. OwnerInv'
  BY <1>1, <1>3, <1>5, <1>7, <1>9, OthersOwn
<1>11. ObservedOf(c)'
  BY <1>2, <1>4, <1>8 DEF ObservedOf
<1>12. ObservedInv'
  BY <1>1, <1>3, <1>11, OthersObserve DEF ObservedInv
<1>13. TrackedInv'
  <2>1. ASSUME NEW j \in Accounts PROVE Settled(j)' <=> Settled(j)
    BY <1>3, <1>4, SettledOf
  <2>2. ASSUME NEW j \in Accounts, j # k, ~Settled(j) PROVE Tracked(j)'
    <3>1. Tracked(j)
      BY <2>2 DEF TrackedInv
    <3>2. \A w \in Calls : Evicts(w, j) => Evicts(w, j)'
      BY <1>3, <1>4, <2>2 DEF Evicts
    <3> QED
      BY <2>2, <3>1, <3>2, StaysTracked
  <2>3. Tracked(k)'
    <3>1. \A w \in Calls \ {c} : Evicts(w, k) => Evicts(w, k)'
      BY <1>3 DEF Evicts
    <3> QED
      BY <3>1 DEF Tracked
  <2> QED
    BY <2>1, <2>2, <2>3 DEF TrackedInv
<1> QED
  BY <1>6, <1>10, <1>12, <1>13

(* An eviction lets go only of a key that recency still has, or that is not evictable. *)
LEMMA ReleaseInv ==
    ASSUME LeaseInv, NEW c \in Calls, NEW k \in Accounts, Release(c, k)
    PROVE  LeaseInv'
<1> USE DEF LeaseInv
<1>1. k \in call[c].got /\ call[c].at = "done" /\ DropLease(c, k) /\ UNCHANGED <<account, lru, evictions>>
  BY DEF Release
<1>2. ~Settled(k)
  BY <1>1, SettledByOwner DEF OwnerInv, OwnerOf
<1>3. Tracked(k)
  BY <1>2 DEF TrackedInv
<1>4. call[c].kind = "Eviction" /\ Evictable(account[k]) => k \in lru
  BY <1>1 DEF Release, CachedEvictionApplies, ObservedInv, ObservedOf
<1>5. Evictable(account[k]) =>
        k \in lru' \/ k \in Range(evictions') \/ \E w \in Calls \ {c} : Evicts(w, k)
  BY <1>1, <1>3, <1>4 DEF Tracked, Evicts
<1>6. k \in lru' => Evictable(account[k])
  BY <1>1, <1>3 DEF Tracked
<1>7. lru' \subseteq Accounts /\ evictions' \in Seq(Accounts)
  BY <1>1 DEF LeaseTypeOK
<1> QED
  BY <1>1, <1>5, <1>6, <1>7, DropLeaseInv

(* A lease is handed to the task that waits for the transaction. *)
LEMMA SubmitInv ==
    ASSUME LeaseInv, NEW c \in Calls, NEW k \in call[c].got, call[c].at = "done",
           NEW image \in [mode : AccountModes, slot : Nat, must : BOOLEAN], Submit(c, k, image),
           UNCHANGED <<account, owner, lru, evictions>>,
           call[c].kind = "Eviction" =>
              image.mode = "Closed" /\ ~image.must /\ Evictable(account[k])
    PROVE  LeaseInv'
<1> USE DEF LeaseInv
<1> DEFINE tx == [key |-> k, image |-> image, result |-> "pending"]
<1>1. call \in [Calls -> Call] /\ call[c] \in Call
  BY DEF LeaseTypeOK
<1>2. k \in Accounts /\ OwnerOf(c) /\ ObservedOf(c)
  BY <1>1 DEF Call, OwnerInv, ObservedInv
<1>3. \A w \in Calls \ {c} : call'[w] = call[w]
  BY <1>1 DEF Submit
<1>4. tx \in Transaction /\ tx.key = k /\ tx.image = image /\ tx.result = "pending"
  BY <1>2 DEF Transaction
<1>5. call'[c] = [call[c] EXCEPT !.got = call[c].got \ {k}, !.sent = call[c].sent \cup {tx}]
  BY <1>1 DEF Submit
<1> HIDE DEF tx
<1>6. /\ call'[c] \in Call
      /\ call'[c].kind = call[c].kind /\ call'[c].todo = call[c].todo /\ call'[c].at = call[c].at
      /\ call'[c].seen = call[c].seen
      /\ call'[c].got = call[c].got \ {k} /\ call'[c].sent = call[c].sent \cup {tx}
  <2> DEFINE got == call[c].got \ {k}
             sent == call[c].sent \cup {tx}
  <2>1. got \in SUBSET Accounts /\ sent \in SUBSET Transaction
    BY <1>1, <1>4 DEF Call
  <2>2. call'[c] = [call[c] EXCEPT !.got = got, !.sent = sent]
    BY <1>5
  <2> HIDE DEF got, sent
  <2>3. call'[c] \in Call
    BY <1>1, <2>1, <2>2, Zenon DEF Call
  <2> QED
    BY <1>1, <2>2, <2>3 DEF Call, got, sent
<1>7. LeaseTypeOK'
  <2>1. call' \in [Calls -> Call]
    BY <1>1, <1>3, <1>6 DEF Submit
  <2> QED
    BY <2>1 DEF LeaseTypeOK
<1>8. OwnerOf(c)'
  BY <1>2, <1>4, <1>6 DEF OwnerOf, Observing
<1>9. OwnerInv'
  BY <1>1, <1>3, <1>8, OthersOwn
<1>10. ObservedOf(c)'
  BY <1>2, <1>4, <1>6 DEF ObservedOf
<1>11. ObservedInv'
  BY <1>1, <1>3, <1>10, OthersObserve DEF ObservedInv
<1>12. TrackedInv'
  <2>1. ASSUME NEW j \in Accounts PROVE Settled(j)' <=> Settled(j)
    BY <1>3, <1>4, <1>6, SettledOf
  <2>2. ASSUME NEW j \in Accounts, NEW w \in Calls, Evicts(w, j) PROVE Evicts(w, j)'
    BY <1>3, <1>4, <1>6, <2>2 DEF Evicts
  <2> QED
    BY <2>1, <2>2, StaysTracked DEF TrackedInv
<1> QED
  BY <1>7, <1>9, <1>11, <1>12

LEMMA MaterializeInv ==
    ASSUME LeaseInv, NEW c \in Calls, NEW k \in Accounts, Materialize(c, k)
    PROVE  LeaseInv'
<1>1. PICK image \in Images :
        /\ k \in call[c].got /\ call[c].at = "done" /\ call[c].kind # "Eviction"
        /\ IF Skipped(call[c].seen[k], image)
           THEN Track(k, call[c].seen[k].mode) /\ DropLease(c, k)
           ELSE Submit(c, k, image) /\ UNCHANGED <<owner, lru, evictions>>
        /\ UNCHANGED account
  BY DEF Materialize
<1>2. CASE Skipped(call[c].seen[k], image)
  <2>1. Track(k, call[c].seen[k].mode) /\ DropLease(c, k)
    BY <1>1, <1>2
  <2>2. Evictable(account[k]) <=> ~RequiresPersistence(call[c].seen[k].mode)
    <3>1. Evictable(account[k]) <=> Evictable(call[c].seen[k])
      BY <1>1 DEF LeaseInv, ObservedInv, ObservedOf
    <3> QED
      BY <1>2, <3>1 DEF Skipped, Evictable
  <2> QED
    BY <1>1, <2>1, <2>2, TrackEffect, DropLeaseInv DEF LeaseInv
<1>3. CASE ~Skipped(call[c].seen[k], image)
  <2>1. image \in [mode : AccountModes, slot : Nat, must : BOOLEAN]
    BY LeasesAssumption
  <2> QED
    BY <1>1, <1>3, <2>1, SubmitInv
<1> QED
  BY <1>2, <1>3

LEMMA DeleteInv ==
    ASSUME LeaseInv, NEW c \in Calls, NEW k \in Accounts, Delete(c, k)
    PROVE  LeaseInv'
<1> DEFINE image == [mode |-> "Closed", slot |-> 0, must |-> FALSE]
<1>1. image \in [mode : AccountModes, slot : Nat, must : BOOLEAN]
  BY UnpersistedModes
<1>2. k \in call[c].got /\ call[c].at = "done"
      /\ Submit(c, k, image) /\ UNCHANGED <<account, owner, lru, evictions>>
  BY DEF Delete
<1>3. call[c].kind = "Eviction" => Evictable(account[k])
  BY <1>2 DEF Delete, CachedEvictionApplies, LeaseInv, ObservedInv, ObservedOf
<1>4. image.mode = "Closed" /\ ~image.must
  OBVIOUS
<1> HIDE DEF image
<1> QED
  BY <1>1, <1>2, <1>3, <1>4, SubmitInv

-----------------------------------------------------------------------------
(* Submitted transactions and their tasks.                                  *)

(* A transaction has a result; recency of its key is then for the task to update. *)
LEMMA SettleInv ==
    ASSUME LeaseInv, NEW c \in Calls, NEW tx \in call[c].sent, tx.result = "pending",
           NEW result \in {"ok", "failed"}, Settle(c, tx, result), UNCHANGED <<owner, lru, evictions>>,
           account' \in [Accounts -> Lifecycle],
           \A j \in Accounts \ {tx.key} : account'[j] = account[j],
           account'[tx.key].stored => account'[tx.key].mode # "Closed",
           result = "failed" => account' = account,
           result = "ok" => (Evictable(account'[tx.key]) <=>
                                tx.image.mode # "Closed" /\ ~RequiresPersistence(tx.image.mode)),
           call[c].kind = "Eviction" => result = "ok"
    PROVE  LeaseInv'
<1> USE DEF LeaseInv
<1> DEFINE new == [tx EXCEPT !.result = result]
           sent == (call[c].sent \ {tx}) \cup {new}
<1>1. call \in [Calls -> Call] /\ call[c] \in Call
  BY DEF LeaseTypeOK
<1>2. tx \in Transaction /\ call[c].got \subseteq Accounts /\ call[c].sent \subseteq Transaction
  BY <1>1 DEF Call
<1>3. /\ new \in Transaction /\ new.key = tx.key /\ new.image = tx.image /\ new.result = result
      /\ tx.key \in Accounts /\ \A other \in call[c].sent : other.key \in Accounts
  BY <1>2 DEF Transaction
<1>4. OwnerOf(c) /\ ObservedOf(c)
  BY DEF OwnerInv, ObservedInv
<1>5. /\ owner[tx.key] = c /\ tx.key \notin call[c].got
      /\ \A other \in call[c].sent \ {tx} : other.key # tx.key
  BY <1>4 DEF OwnerOf
<1>6. \A w \in Calls \ {c} : call'[w] = call[w]
  BY <1>1 DEF Settle
<1> HIDE DEF new
<1>7. /\ call'[c] \in Call
      /\ call'[c].kind = call[c].kind /\ call'[c].todo = call[c].todo /\ call'[c].at = call[c].at
      /\ call'[c].seen = call[c].seen /\ call'[c].got = call[c].got /\ call'[c].sent = sent
  <2>1. call'[c] = [call[c] EXCEPT !.sent = sent]
    BY <1>1 DEF Settle, new
  <2>2. sent \in SUBSET Transaction
    BY <1>2, <1>3
  <2> HIDE DEF sent
  <2> QED
    BY <1>1, <2>1, <2>2, Zenon DEF Call
<1>8. \A other \in sent : other = new \/ (other \in call[c].sent /\ other.key # tx.key)
  BY <1>5
<1>9. new \in sent /\ \A other \in call[c].sent : other.key # tx.key => other \in sent
  OBVIOUS
<1> HIDE DEF sent
<1>10. LeaseTypeOK'
  <2>1. call' \in [Calls -> Call]
    BY <1>1, <1>6, <1>7 DEF Settle
  <2> QED
    BY <2>1 DEF LeaseTypeOK
<1>11. OwnerOf(c)'
  <2>1. \A j : Observing(c, j)' <=> Observing(c, j)
    BY <1>7, Zenon DEF Observing
  <2>2. ASSUME NEW other \in sent
        PROVE  /\ owner[other.key] = c /\ other.key \notin call[c].got /\ ~Observing(c, other.key)
               /\ \A another \in sent : another.key = other.key => another = other
    <3>1. CASE other = new
      BY <1>3, <1>4, <1>5, <1>8, <3>1, Zenon DEF OwnerOf
    <3>2. CASE other \in call[c].sent /\ other.key # tx.key
      BY <1>3, <1>4, <1>8, <3>2, Zenon DEF OwnerOf
    <3> QED
      BY <1>8, <2>2, <3>1, <3>2, Zenon
  <2>3. call[c].sent # {} /\ call[c].at # "idle"
    BY <1>4, Zenon DEF OwnerOf
  <2> QED
    BY <1>4, <1>7, <2>1, <2>2, <2>3, Zenon DEF OwnerOf
<1>12. OwnerInv'
  BY <1>1, <1>6, <1>11, OthersOwn
<1>13. ObservedOf(c)'
  <2>1. \A k \in call'[c].got : Evictable(call'[c].seen[k]) <=> Evictable(account'[k])
    BY <1>2, <1>4, <1>5, <1>7 DEF ObservedOf
  <2>2. ASSUME NEW other \in sent
        PROVE  /\ other.result = "ok" =>
                    (Evictable(account'[other.key]) <=>
                        other.image.mode # "Closed" /\ ~RequiresPersistence(other.image.mode))
               /\ call[c].kind = "Eviction" =>
                    /\ other.image.mode = "Closed" /\ ~other.image.must /\ other.result # "failed"
                    /\ other.result = "pending" => Evictable(account'[other.key])
    <3>1. CASE other = new
      BY <1>3, <1>4, <3>1 DEF ObservedOf
    <3>2. CASE other \in call[c].sent /\ other.key # tx.key
      BY <1>3, <1>4, <3>2 DEF ObservedOf
    <3> QED
      BY <1>8, <3>1, <3>2
  <2> QED
    BY <1>4, <1>7, <2>1, <2>2 DEF ObservedOf
<1>14. ObservedInv'
  <2>1. \A k \in Accounts : account'[k].stored => account'[k].mode # "Closed"
    BY DEF ObservedInv
  <2>2. \A k \in Accounts : owner[k] \in Calls \ {c} => (Evictable(account'[k]) <=> Evictable(account[k]))
    BY <1>5
  <2> QED
    BY <1>1, <1>6, <1>13, <2>1, <2>2, OthersObserve DEF ObservedInv
<1>15. TrackedInv'
  <2>1. ASSUME NEW j \in Accounts, NEW w \in Calls, Evicts(w, j) PROVE Evicts(w, j)'
    BY <1>3, <1>6, <1>7, <1>9, <2>1 DEF Evicts
  <2>2. ASSUME NEW j \in Accounts, j # tx.key PROVE Settled(j)' <=> Settled(j)
    BY <1>3, <1>6, <1>7, <1>8, <1>9, <2>2, SettledOf
  <2>3. ~Settled(tx.key)
    <3>1. \A other \in call[c].sent : other.key = tx.key => other.result = "pending"
      BY <1>5, Zenon
    <3>2. OwnerInv /\ tx.key \in Accounts
      BY <1>3
    <3>3. Settled(tx.key) <=> \E other \in call[c].sent : other.key = tx.key /\ other.result = "ok"
      BY <1>5, <3>2, SettledByOwner
    <3> QED
      BY <3>1, <3>3
  <2>4. result = "ok" => Settled(tx.key)'
    BY <1>3, <1>7, <1>9 DEF Settled
  <2>5. ASSUME NEW j \in Accounts, ~Settled(j)' PROVE Tracked(j)'
    <3>1. account'[j] = account[j] /\ Tracked(j)
      BY <2>2, <2>3, <2>4, <2>5 DEF TrackedInv
    <3> QED
      BY <2>1, <3>1, StaysTracked
  <2> QED
    BY <2>5 DEF TrackedInv
<1> QED
  BY <1>10, <1>12, <1>14, <1>15

(* The transaction stores the image, or removes a closed account. *)
LEMMA ExecuteInv ==
    ASSUME LeaseInv, NEW c \in Calls, Execute(c)
    PROVE  LeaseInv'
<1>1. PICK tx \in call[c].sent :
        /\ tx.result = "pending"
        /\ account' = [account EXCEPT ![tx.key] =
                         IF tx.image.mode = "Closed" THEN Absent ELSE Stored(tx.image)]
        /\ Settle(c, tx, "ok")
        /\ UNCHANGED <<owner, lru, evictions>>
  BY Zenon DEF Execute
<1> DEFINE new == IF tx.image.mode = "Closed" THEN Absent ELSE Stored(tx.image)
<1>2. tx \in Transaction
  BY DEF LeaseInv, LeaseTypeOK, Call
<1>3. /\ new \in Lifecycle
      /\ new.stored => new.mode # "Closed"
      /\ Evictable(new) <=> tx.image.mode # "Closed" /\ ~RequiresPersistence(tx.image.mode)
  <2>1. CASE tx.image.mode = "Closed"
    BY <1>2, <2>1, UnpersistedModes DEF Absent, Lifecycle, Evictable, Transaction
  <2>2. CASE tx.image.mode # "Closed"
    BY <1>2, <2>2 DEF Stored, Lifecycle, Evictable, Transaction
  <2> QED
    BY <2>1, <2>2
<1>4. tx.key \in Accounts /\ account \in [Accounts -> Lifecycle]
  BY <1>2 DEF LeaseInv, LeaseTypeOK, Transaction
<1>5. account' = [account EXCEPT ![tx.key] = new]
  BY <1>1
<1> HIDE DEF new
<1>6. /\ account' \in [Accounts -> Lifecycle] /\ account'[tx.key] = new
      /\ \A j \in Accounts \ {tx.key} : account'[j] = account[j]
  BY <1>3, <1>4, <1>5
<1> QED
  BY <1>1, <1>3, <1>6, SettleInv

(* The transaction of an eviction does not fail: nobody else can have made  *)
(* its account one that may not be closed.                                  *)
LEMMA ExecuteFailsInv ==
    ASSUME LeaseInv, NEW c \in Calls, ExecuteFails(c)
    PROVE  LeaseInv'
<1>1. PICK tx \in call[c].sent :
        /\ tx.result = "pending" /\ (~Applies(tx, tx.key, c) \/ tx.image.mode # "Closed")
        /\ Settle(c, tx, "failed") /\ UNCHANGED <<account, owner, lru, evictions>>
  BY DEF ExecuteFails
<1>2. tx \in Transaction /\ tx.key \in Accounts /\ account \in [Accounts -> Lifecycle]
  BY DEF LeaseInv, LeaseTypeOK, Call, Transaction
<1>3. call[c].kind # "Eviction"
  <2> SUFFICES ASSUME call[c].kind = "Eviction" PROVE FALSE
    OBVIOUS
  <2>1. tx.image.mode = "Closed" /\ ~tx.image.must /\ Evictable(account[tx.key])
    BY <1>1 DEF LeaseInv, ObservedInv, ObservedOf
  <2>2. account[tx.key].mode \in AccountModes \ {"Closed"} /\ account[tx.key].slot \in Nat
    BY <1>2, <2>1 DEF Evictable, Lifecycle, LeaseInv, ObservedInv
  <2>3. <<account[tx.key].mode, "Closed">> \in Keeping
    BY <2>1, <2>2, UnpersistedModes DEF Evictable
  <2>4. Applies(tx, tx.key, c)
    BY <2>1, <2>2, <2>3 DEF Applies, ValidTransition
  <2> QED
    BY <1>1, <2>1, <2>4
<1>4. account'[tx.key].stored => account'[tx.key].mode # "Closed"
  BY <1>1, <1>2 DEF LeaseInv, ObservedInv
<1> QED
  BY <1>1, <1>2, <1>3, <1>4, SettleInv

(* The task updates recency for what its transaction did, then drops the lease. *)
LEMMA CompleteInv ==
    ASSUME LeaseInv, NEW c \in Calls, Complete(c)
    PROVE  LeaseInv'
<1> USE DEF LeaseInv
<1>1. PICK tx \in call[c].sent :
        /\ tx.result # "pending"
        /\ IF tx.result = "failed" THEN UNCHANGED <<lru, evictions>>
           ELSE IF tx.image.mode = "Closed" THEN lru' = lru \ {tx.key} /\ UNCHANGED evictions
           ELSE Track(tx.key, tx.image.mode)
        /\ owner' = [owner EXCEPT ![tx.key] = NoCall]
        /\ call' = [call EXCEPT ![c].sent = @ \ {tx}, ![c].seen[tx.key] = Absent,
                                ![c].drops = @ \cup {tx.key}]
        /\ UNCHANGED account
  BY Zenon DEF Complete
<1> DEFINE k == tx.key
<1>2. /\ call \in [Calls -> Call] /\ call[c] \in Call /\ owner \in [Accounts -> Calls \cup {NoCall}]
      /\ lru \subseteq Accounts /\ evictions \in Seq(Accounts)
  BY DEF LeaseTypeOK
<1>3. /\ call[c].got \subseteq Accounts /\ call[c].sent \subseteq Transaction
      /\ \A other \in call[c].sent : other.key \in Accounts
  BY <1>2 DEF Call, Transaction
<1>4. k \in Accounts /\ tx.result \in {"ok", "failed"}
  BY <1>1, <1>3 DEF Transaction
<1>5. OwnerOf(c) /\ ObservedOf(c)
  BY DEF OwnerInv, ObservedInv
<1>6. owner[k] = c /\ k \notin call[c].got /\ \A other \in call[c].sent \ {tx} : other.key # k
  BY <1>5 DEF OwnerOf
<1> HIDE DEF k
<1>7. \A w \in Calls \ {c} : call'[w] = call[w]
  BY <1>1, <1>2
<1>8. /\ call'[c] \in Call
      /\ call'[c].kind = call[c].kind /\ call'[c].todo = call[c].todo /\ call'[c].at = call[c].at
      /\ call'[c].got = call[c].got /\ call'[c].sent = call[c].sent \ {tx}
      /\ \A j \in Accounts \ {k} : call'[c].seen[j] = call[c].seen[j]
  <2> DEFINE seen == [call[c].seen EXCEPT ![k] = Absent]
             sent == call[c].sent \ {tx}
             drops == call[c].drops \cup {k}
  <2>1. call'[c] = [call[c] EXCEPT !.sent = sent, !.seen = seen, !.drops = drops]
    BY <1>1, <1>2 DEF k
  <2>2. Absent \in Lifecycle
    BY UnpersistedModes DEF Absent, Lifecycle
  <2>3. /\ seen \in [Accounts -> Lifecycle] /\ drops \in SUBSET Accounts /\ sent \in SUBSET Transaction
        /\ \A j \in Accounts \ {k} : seen[j] = call[c].seen[j]
    BY <1>2, <1>3, <1>4, <2>2 DEF Call
  <2> HIDE DEF seen, sent, drops
  <2>4. call'[c] \in Call
    BY <1>2, <2>1, <2>3, Zenon DEF Call
  <2> QED
    BY <1>2, <2>1, <2>3, <2>4 DEF Call, sent
<1>9. /\ owner' \in [Accounts -> Calls \cup {NoCall}] /\ owner'[k] = NoCall
      /\ \A j \in Accounts \ {k} : owner'[j] = owner[j]
  BY <1>1, <1>2, <1>4 DEF k
<1>10. /\ lru' \subseteq Accounts /\ evictions' \in Seq(Accounts)
       /\ \A j \in lru' : j # k => j \in lru
       /\ \A j \in lru : j # k => j \in lru' \/ j \in Range(evictions')
       /\ Range(evictions) \subseteq Range(evictions')
  <2>1. CASE tx.result = "failed"
    BY <1>1, <1>2, <2>1
  <2>2. CASE tx.result # "failed" /\ tx.image.mode = "Closed"
    BY <1>1, <1>2, <2>2 DEF k
  <2>3. CASE tx.result # "failed" /\ tx.image.mode # "Closed"
    BY <1>1, <1>4, <2>3, TrackEffect DEF k
  <2> QED
    BY <2>1, <2>2, <2>3
<1>11. LeaseTypeOK'
  <2>1. call' \in [Calls -> Call]
    BY <1>1, <1>2, <1>7, <1>8
  <2> QED
    BY <1>1, <1>9, <1>10, <2>1 DEF LeaseTypeOK
<1>12. OwnerOf(c)'
  <2>1. \A other \in call'[c].sent : other \in call[c].sent /\ other.key \in Accounts \ {k}
    BY <1>3, <1>6, <1>8
  <2>2. \A j : Observing(c, j)' <=> Observing(c, j)
    BY <1>8 DEF Observing
  <2>3. \A j \in Accounts : Observing(c, j) => j # k
    BY <1>5 DEF OwnerOf, k
  <2> QED
    <3>1. /\ \A j \in Accounts : Observing(c, j)' => owner'[j] = c /\ j \notin call'[c].got
          /\ \A j \in call'[c].got : owner'[j] = c
      <4>1. \A j \in call[c].got : j \in Accounts /\ j # k
        BY <1>2, <1>6 DEF Call
      <4>2. \A j \in call'[c].got : owner'[j] = c
        BY <1>5, <1>8, <1>9, <4>1, Zenon DEF OwnerOf
      <4> QED
        BY <1>5, <1>8, <1>9, <2>2, <2>3, <4>2, Zenon DEF OwnerOf
    <3>2. ASSUME NEW other \in call'[c].sent
          PROVE  /\ owner'[other.key] = c /\ other.key \notin call'[c].got /\ ~Observing(c, other.key)'
                 /\ \A another \in call'[c].sent : another.key = other.key => another = other
      BY <1>5, <1>8, <1>9, <2>1, <2>2 DEF OwnerOf
    <3>3. call[c].sent = {} => call'[c].sent = {}
      BY <1>8
    <3> QED
      BY <1>5, <1>8, <3>1, <3>2, <3>3 DEF OwnerOf
<1>13. OwnerInv'
  BY <1>2, <1>6, <1>7, <1>9, <1>12, OthersOwn
<1>14. ObservedOf(c)'
  BY <1>1, <1>3, <1>5, <1>6, <1>8, ZenonT(60) DEF ObservedOf
<1>15. ObservedInv'
  BY <1>1, <1>2, <1>7, <1>14, OthersObserve DEF ObservedInv
<1>16. TrackedInv'
  <2>1. ASSUME NEW j \in Accounts, j # k, ~Settled(j)' PROVE Tracked(j)'
    <3>1. Settled(j)' <=> Settled(j)
      BY <1>7, <1>8, <2>1, SettledOf DEF k
    <3>2. Tracked(j)
      BY <2>1, <3>1 DEF TrackedInv
    <3>3. \A w \in Calls : Evicts(w, j) => Evicts(w, j)'
      BY <1>7, <1>8, <2>1 DEF Evicts, k
    <3> QED
      BY <1>1, <1>10, <2>1, <3>2, <3>3, StaysTracked
  <2>2. Tracked(k)'
    <3>1. CASE tx.result = "failed"
      <4>1. ~Settled(k)
        BY <1>6, <3>1, SettledByOwner
      <4>2. Tracked(k)
        BY <1>4, <4>1 DEF TrackedInv
      <4>3. \A w \in Calls : Evicts(w, k) => Evicts(w, k)'
        BY <1>5, <1>7, <3>1 DEF Evicts, ObservedOf
      <4> QED
        BY <1>1, <3>1, <4>2, <4>3, StaysTracked
    <3>2. CASE tx.result = "ok"
      <4>1. Evictable(account[k]) <=> tx.image.mode # "Closed" /\ ~RequiresPersistence(tx.image.mode)
        BY <1>5, <3>2 DEF ObservedOf, k
      <4>2. CASE tx.image.mode = "Closed"
        BY <1>1, <3>2, <4>1, <4>2 DEF Tracked, k
      <4>3. CASE tx.image.mode # "Closed"
        <5>1. Track(k, tx.image.mode)
          BY <1>1, <3>2, <4>3 DEF k
        <5>2. /\ RequiresPersistence(tx.image.mode) => k \notin lru'
              /\ ~RequiresPersistence(tx.image.mode) => k \in lru'
          BY <1>4, <5>1, TrackEffect
        <5> QED
          BY <1>1, <4>1, <4>3, <5>2 DEF Tracked
      <4> QED
        BY <4>2, <4>3
    <3> QED
      BY <1>4, <3>1, <3>2
  <2> QED
    BY <2>1, <2>2 DEF TrackedInv
<1> QED
  BY <1>11, <1>13, <1>15, <1>16

(* A cancelled call drops the leases it holds itself, and only those. *)
LEMMA CancelInv ==
    ASSUME LeaseInv, NEW c \in Calls, Cancel(c)
    PROVE  LeaseInv'
<1> USE DEF LeaseInv
<1>1. /\ call \in [Calls -> Call] /\ call[c] \in Call /\ owner \in [Accounts -> Calls \cup {NoCall}]
  BY DEF LeaseTypeOK
<1>2. /\ call[c].got \subseteq Accounts /\ call[c].drops \subseteq Accounts
      /\ \A other \in call[c].sent : other.key \in Accounts
  BY <1>1 DEF Call, Transaction
<1>3. OwnerOf(c) /\ ObservedOf(c)
  BY DEF OwnerInv, ObservedInv
<1>4. call[c].kind # "Eviction" /\ UNCHANGED <<account, lru, evictions>>
  BY DEF Cancel
<1>5. \A w \in Calls \ {c} : call'[w] = call[w]
  BY <1>1 DEF Cancel
<1>6. /\ call'[c] \in Call
      /\ call'[c].kind = call[c].kind /\ call'[c].todo = <<>> /\ call'[c].at = "done"
      /\ call'[c].got = {} /\ call'[c].sent = call[c].sent
  <2> DEFINE drops == call[c].drops \cup call[c].got
  <2>1. drops \in SUBSET Accounts /\ <<>> \in Seq(Accounts)
    BY <1>2, NoElement
  <2>2. call'[c] = [kind |-> call[c].kind, todo |-> <<>>, at |-> "done", wait |-> NoCall, done |-> FALSE,
                    woken |-> FALSE, got |-> {}, seen |-> call[c].seen, sent |-> call[c].sent, drops |-> drops]
    BY <1>1, Zenon DEF Cancel, Idle
  <2> HIDE DEF drops
  <2> QED
    <3>1. /\ call[c].kind \in {"none", "Account", "Missing", "Eviction"}
          /\ call[c].seen \in [Accounts -> Lifecycle] /\ call[c].sent \in SUBSET Transaction
      BY <1>1 DEF Call
    <3>2. NoCall \in Calls \cup {NoCall} /\ {} \in SUBSET Accounts
      OBVIOUS
    <3> QED
      BY <2>1, <2>2, <3>1, <3>2 DEF Call
<1>7. /\ owner' \in [Accounts -> Calls \cup {NoCall}]
      /\ \A j \in Accounts : owner'[j] = IF j \in call[c].got THEN NoCall ELSE owner[j]
  BY <1>1 DEF Cancel
<1>8. LeaseTypeOK'
  <2>1. call' \in [Calls -> Call]
    BY <1>1, <1>5, <1>6 DEF Cancel
  <2> QED
    BY <1>4, <1>7, <2>1 DEF LeaseTypeOK
<1>9. OwnerOf(c)'
  BY <1>2, <1>3, <1>6, <1>7 DEF OwnerOf, Observing
<1>10. OwnerInv'
  <2>1. \A j \in Accounts : owner[j] \in Calls \ {c} => owner'[j] = owner[j]
    BY <1>3, <1>7 DEF OwnerOf
  <2> QED
    BY <1>1, <1>5, <1>9, <2>1, OthersOwn
<1>11. ObservedOf(c)'
  BY <1>3, <1>4, <1>6 DEF ObservedOf
<1>12. ObservedInv'
  BY <1>1, <1>4, <1>5, <1>11, OthersObserve DEF ObservedInv
<1>13. TrackedInv'
  <2>1. ASSUME NEW j \in Accounts PROVE Settled(j)' <=> Settled(j)
    BY <1>5, <1>6, SettledOf
  <2>2. ASSUME NEW j \in Accounts, NEW w \in Calls, Evicts(w, j) PROVE Evicts(w, j)'
    BY <1>4, <1>5, <2>2 DEF Evicts
  <2> QED
    BY <1>4, <2>1, <2>2, StaysTracked DEF TrackedInv
<1> QED
  BY <1>8, <1>10, <1>12, <1>13

(* An ordinary transaction changes no evictability, so it disturbs no lease. *)
LEMMA UndelegateInv ==
    ASSUME LeaseInv, NEW k \in Accounts, Undelegate(k)
    PROVE  LeaseInv'
<1> USE DEF LeaseInv
<1>1. account \in [Accounts -> Lifecycle] /\ UNCHANGED <<owner, lru, evictions, call>>
  BY DEF Undelegate, LeaseTypeOK
<1>2. /\ account[k].mode = "Delegated"
      /\ account' = [account EXCEPT ![k] = [account[k] EXCEPT !.mode = "Undelegating"]]
  BY DEF Undelegate
<1>3. /\ account'[k] \in Lifecycle /\ account'[k].mode = "Undelegating"
      /\ \A j \in Accounts \ {k} : account'[j] = account[j]
  BY <1>1, <1>2, UnpersistedModes DEF Lifecycle
<1>4. account' \in [Accounts -> Lifecycle]
  BY <1>1, <1>2, <1>3
<1>5. \A j \in Accounts : Evictable(account'[j]) <=> Evictable(account[j])
  BY <1>2, <1>3, UnpersistedModes DEF Evictable
<1>6. LeaseTypeOK'
  BY <1>1, <1>4 DEF LeaseTypeOK
<1>7. OwnerInv'
  BY <1>1 DEF OwnerInv, OwnerOf, Observing
<1>8. ObservedInv'
  <2>1. ASSUME NEW c \in Calls PROVE ObservedOf(c)'
    <3>1. call[c].got \subseteq Accounts /\ \A tx \in call[c].sent : tx.key \in Accounts
      BY DEF LeaseTypeOK, Call, Transaction
    <3>2. ObservedOf(c)
      BY DEF ObservedInv
    <3> QED
      BY <1>1, <1>5, <3>1, <3>2 DEF ObservedOf
  <2> QED
    BY <1>3, <2>1 DEF ObservedInv
<1>9. TrackedInv'
  BY <1>1, <1>5, Zenon DEF TrackedInv, Tracked, Settled, Evicts
<1> QED
  BY <1>6, <1>7, <1>8, <1>9

(* Accounts that are stored at the start are evictable, and in the cache. *)
LEMMA LeaseInitInv == LeaseInit => LeaseInv
<1> SUFFICES ASSUME LeaseInit PROVE LeaseInv
  OBVIOUS
<1>1. PICK warm \in SUBSET Accounts, image \in Images :
        /\ ~RequiresPersistence(image.mode)
        /\ account = [k \in Accounts |-> IF k \in warm THEN Stored(image) ELSE Absent]
        /\ lru = warm
  BY DEF LeaseInit
<1>2. /\ owner = [k \in Accounts |-> NoCall] /\ evictions = <<>> /\ call = [c \in Calls |-> Idle]
  BY DEF LeaseInit
<1>3. image.mode \in AccountModes \ {"Closed"} /\ image.slot \in Nat
  BY LeasesAssumption
<1>4. Absent \in Lifecycle /\ ~Evictable(Absent)
  BY UnpersistedModes DEF Absent, Lifecycle, Evictable
<1>5. Stored(image) \in Lifecycle /\ Evictable(Stored(image)) /\ Stored(image).mode # "Closed"
  BY <1>1, <1>3 DEF Stored, Lifecycle, Evictable
<1>6. <<>> \in Seq(Accounts)
  BY NoElement
<1>7. Idle \in Call
  BY <1>4, <1>6 DEF Idle, Call
<1>8. Idle.at = "idle" /\ Idle.todo = <<>> /\ Idle.got = {} /\ Idle.sent = {} /\ Idle.kind = "none"
  BY DEF Idle
<1>9. LeaseTypeOK
  BY <1>1, <1>2, <1>4, <1>5, <1>6, <1>7 DEF LeaseTypeOK
<1>10. OwnerInv
  BY <1>2, <1>8 DEF OwnerInv, OwnerOf, Observing
<1>11. ObservedInv
  BY <1>1, <1>2, <1>5, <1>8, Zenon DEF ObservedInv, ObservedOf, Absent
<1>12. TrackedInv
  BY <1>1, <1>4, <1>5 DEF TrackedInv, Tracked
<1> QED
  BY <1>9, <1>10, <1>11, <1>12 DEF LeaseInv
=============================================================================
