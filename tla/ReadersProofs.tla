--------------------------- MODULE ReadersProofs ---------------------------
(***************************************************************************)
(* Reads without a lock.  Readers of the mapped storage and its relocation *)
(* exclude each other (accountsdb/src/readers.rs), proved for any set of   *)
(* threads, any buffer size and any number of pauses.  A reader of an      *)
(* account image accepts only committed images (solana/account/src/cow),   *)
(* proved for any readers, any number of words, writes, reads and changes  *)
(* of hands.                                                               *)
(***************************************************************************)
EXTENDS Readers, AccountImage, TLAPS

Closing == {"membarrier", "scan", "wait", "relocate"}

Fenced == {"scan", "wait", "relocate"}

(* The compactor is the owner of the maintenance mutex; it has closed the   *)
(* gate, and from the scan on its membarrier has reached every thread.      *)
MutexInv ==
    /\ \A t \in Thread : pc[t] \in CompactorLabels <=> maintenance = t
    /\ \A t \in Thread : pc[t] \in Closing => closed
    /\ \A t \in Thread : pc[t] \in Fenced => unfenced = {}

Announced == {"gate", "withdraw"}

(* What a thread sees in its slot are its scopes, or the one it announced.  *)
SlotInv ==
    \A t \in Thread :
        /\ OwnDepth(t) = IF pc[t] \in Announced THEN 1 ELSE guards[t]
        /\ pc[t] \notin {"outside", "enter"} => guards[t] = 0
        /\ (guards[t] # 0 \/ pc[t] \in ReaderLabels \ {"outside"}) => t \in registered

(* A thread the membarrier has reached and that still reads was admitted    *)
(* before, so its slot has not been zero in memory since, nor will be.      *)
FenceInv ==
    \A t \in Thread : closed /\ t \notin unfenced /\ guards[t] # 0 =>
        /\ depth[t] # 0
        /\ \A i \in DOMAIN buffer[t] : buffer[t][i] # 0

(* Slots that were scanned stay inactive while the gate is closed. *)
ScanInv ==
    \A t, u \in Thread :
        /\ pc[t] = "scan" /\ u \in registered \ unscanned => guards[u] = 0
        /\ pc[t] = "relocate" => guards[u] = 0

ReadersInv == TypeOK /\ MutexInv /\ SlotInv /\ FenceInv /\ ScanInv

-----------------------------------------------------------------------------
(* What a thread sees of its own slot.                                      *)

(* The slot a thread sees is a natural number. *)
LEMMA OwnDepthType ==
    ASSUME TypeOK, NEW t \in Thread
    PROVE  OwnDepth(t) \in Nat
BY DEF TypeOK, OwnDepth

(* A buffered store is what its thread sees, and no other thread's slot.    *)
LEMMA StoreSeen ==
    ASSUME TypeOK, NEW t \in Thread, NEW v \in Nat, Store(t, v), UNCHANGED depth
    PROVE  /\ buffer' \in [Thread -> Seq(Nat)]
           /\ OwnDepth(t)' = v
           /\ \A i \in DOMAIN buffer'[t] :
                 \/ buffer'[t][i] = v
                 \/ i \in DOMAIN buffer[t] /\ buffer'[t][i] = buffer[t][i]
           /\ \A u \in Thread \ {t} : OwnDepth(u)' = OwnDepth(u) /\ buffer'[u] = buffer[u]
<1>1. buffer[t] \in Seq(Nat) /\ buffer'[t] = Append(buffer[t], v)
  BY DEF TypeOK, Store
<1>2. buffer' \in [Thread -> Seq(Nat)]
  BY DEF TypeOK, Store
<1>3. Len(buffer'[t]) = Len(buffer[t]) + 1 /\ buffer'[t] # <<>> /\ buffer'[t][Len(buffer'[t])] = v
  BY <1>1, SMTT(30)
<1>4. \A i \in DOMAIN buffer'[t] :
         \/ buffer'[t][i] = v
         \/ i \in DOMAIN buffer[t] /\ buffer'[t][i] = buffer[t][i]
  BY <1>1
<1>5. \A u \in Thread \ {t} : OwnDepth(u)' = OwnDepth(u) /\ buffer'[u] = buffer[u]
  BY DEF TypeOK, Store, OwnDepth
<1> QED
  BY <1>2, <1>3, <1>4, <1>5 DEF OwnDepth

(* Draining a buffer changes no thread's view of its slot. *)
LEMMA FlushAllSeen ==
    ASSUME TypeOK, NEW t \in Thread, FlushAll(t)
    PROVE  /\ depth' \in [Thread -> Nat] /\ buffer' \in [Thread -> Seq(Nat)]
           /\ depth'[t] = OwnDepth(t) /\ buffer'[t] = <<>>
           /\ \A u \in Thread : OwnDepth(u)' = OwnDepth(u)
           /\ \A u \in Thread \ {t} : depth'[u] = depth[u] /\ buffer'[u] = buffer[u]
BY OwnDepthType DEF TypeOK, FlushAll, OwnDepth

(* Which sequence is empty, and what is left without the first element. *)
LEMMA Lengths ==
    ASSUME NEW S, NEW s \in Seq(S)
    PROVE  /\ Len(s) \in Nat /\ (s # <<>> => Len(s) # 0) /\ (Len(s) # 0 => s # <<>>)
           /\ s # <<>> => /\ Tail(s) \in Seq(S) /\ Len(Tail(s)) = Len(s) - 1
                         /\ \A i \in 1..(Len(s) - 1) : Tail(s)[i] = s[i + 1]
<1>1. Len(s) \in Nat /\ (s # <<>> => Len(s) # 0) /\ (Len(s) # 0 => s # <<>>)
  OBVIOUS
<1>2. ASSUME s # <<>>
      PROVE  /\ Tail(s) \in Seq(S) /\ Len(Tail(s)) = Len(s) - 1
             /\ \A i \in 1..(Len(s) - 1) : Tail(s)[i] = s[i + 1]
  BY <1>2
<1> QED
  BY <1>1, <1>2

(* Dropping the first of several elements keeps the last one. *)
LEMMA TailKeepsLast ==
    ASSUME NEW S, NEW s \in Seq(S), s # <<>>
    PROVE  \/ Tail(s) = <<>> /\ s[Len(s)] = s[1]
           \/ Tail(s) # <<>> /\ Tail(s)[Len(Tail(s))] = s[Len(s)]
<1>1. Len(s) \in Nat \ {0} /\ Tail(s) \in Seq(S) /\ Len(Tail(s)) = Len(s) - 1
  BY Lengths
<1>2. CASE Len(s) = 1
  <2>1. Len(Tail(s)) = 0
    BY <1>1, <1>2
  <2>2. Tail(s) # <<>> => Len(Tail(s)) \in Nat \ {0}
    BY <1>1, Lengths
  <2> QED
    BY <1>2, <2>1, <2>2
<1>3. CASE Len(s) # 1
  <2>1. Len(s) - 1 \in 1..Len(Tail(s)) /\ (Len(s) - 1) + 1 = Len(s)
    BY <1>1, <1>3
  <2>2. Tail(s)[Len(Tail(s))] = s[Len(s)]
    BY <1>1, <2>1, Lengths
  <2>3. Tail(s) # <<>>
    <3>1. Len(Tail(s)) # 0
      BY <1>1, <1>3
    <3> QED
      BY <1>1, <3>1, Lengths
  <2> QED
    BY <2>2, <2>3
<1> QED
  BY <1>2, <1>3

(* Neither does the arrival of its oldest store, which memory then has.     *)
LEMMA FlushSeen ==
    ASSUME TypeOK, NEW t \in Thread, Flush(t)
    PROVE  /\ depth' \in [Thread -> Nat] /\ buffer' \in [Thread -> Seq(Nat)]
           /\ 1 \in DOMAIN buffer[t] /\ depth'[t] = buffer[t][1]
           /\ \A i \in DOMAIN buffer'[t] :
                 i + 1 \in DOMAIN buffer[t] /\ buffer'[t][i] = buffer[t][i + 1]
           /\ \A u \in Thread : OwnDepth(u)' = OwnDepth(u)
           /\ \A u \in Thread \ {t} : depth'[u] = depth[u] /\ buffer'[u] = buffer[u]
<1>1. buffer[t] \in Seq(Nat) /\ buffer[t] # <<>>
  BY DEF TypeOK, Flush
<1>2. Head(buffer[t]) = buffer[t][1] /\ 1 \in DOMAIN buffer[t] /\ buffer[t][1] \in Nat
  BY <1>1
<1>3. /\ Tail(buffer[t]) \in Seq(Nat)
      /\ Len(Tail(buffer[t])) = Len(buffer[t]) - 1
      /\ \A i \in 1..Len(Tail(buffer[t])) : Tail(buffer[t])[i] = buffer[t][i + 1]
  BY <1>1
<1>4. depth'[t] = buffer[t][1] /\ buffer'[t] = Tail(buffer[t])
  BY <1>2 DEF TypeOK, Flush
<1>5. depth' \in [Thread -> Nat] /\ buffer' \in [Thread -> Seq(Nat)]
  BY <1>2, <1>3 DEF TypeOK, Flush
<1>6. \A u \in Thread \ {t} : depth'[u] = depth[u] /\ buffer'[u] = buffer[u]
  BY DEF TypeOK, Flush
<1>7. OwnDepth(t)' = OwnDepth(t)
  BY <1>1, <1>4, TailKeepsLast DEF OwnDepth
<1>8. \A i \in DOMAIN buffer'[t] :
         i + 1 \in DOMAIN buffer[t] /\ buffer'[t][i] = buffer[t][i + 1]
  BY <1>1, <1>3, <1>4
<1> QED
  BY <1>2, <1>4, <1>5, <1>6, <1>7, <1>8 DEF OwnDepth

-----------------------------------------------------------------------------
(* The invariant is inductive.                                              *)

(* It holds initially. *)
LEMMA ReadersInit == Init => ReadersInv
<1> SUFFICES ASSUME Init PROVE ReadersInv
  OBVIOUS
<1>1. TypeOK
  <2>1. buffer \in [Thread -> Seq(Nat)]
    <3>1. <<>> \in Seq(Nat)
      OBVIOUS
    <3> QED
      BY <3>1 DEF Init
  <2> QED
    BY <2>1 DEF Init, TypeOK, ReaderLabels
<1>2. MutexInv
  BY ReadersAssumption DEF Init, MutexInv, CompactorLabels, Closing, Fenced
<1>3. SlotInv
  BY DEF Init, SlotInv, OwnDepth, Announced, ReaderLabels
<1>4. FenceInv /\ ScanInv
  BY DEF Init, FenceInv, ScanInv
<1> QED
  BY <1>1, <1>2, <1>3, <1>4 DEF ReadersInv

(* enter() registers the slot under the maintenance mutex, so the slots being scanned are all of them. *)
LEMMA EnterInv ==
    ASSUME ReadersInv, NEW t \in Thread, Enter(t)
    PROVE  ReadersInv'
<1> USE DEF ReadersInv
<1>1. \A u \in Thread : OwnDepth(u)' = OwnDepth(u)
  BY DEF Enter, OwnDepth
<1>2. TypeOK'
  BY ReadersAssumption DEF Enter, Goto, TypeOK, ReaderLabels, CompactorLabels
<1>3. MutexInv'
  BY ReadersAssumption DEF Enter, Goto, TypeOK, MutexInv, CompactorLabels, Closing, Fenced
<1>4. SlotInv'
  BY <1>1 DEF Enter, Goto, TypeOK, SlotInv, Announced, ReaderLabels
<1>5. FenceInv'
  BY DEF Enter, FenceInv
<1>6. ScanInv'
  <2>1. \A u \in Thread : pc'[u] \in {"scan", "relocate"} => pc[u] = pc'[u] /\ maintenance = u
    BY DEF Enter, Goto, TypeOK, MutexInv, CompactorLabels
  <2>2. \A u \in Thread : pc'[u] \in {"scan", "relocate"} => registered' = registered
    BY <2>1, ReadersAssumption DEF Enter
  <2>3. guards' = guards /\ unscanned' = unscanned
    BY DEF Enter
  <2> QED
    BY <2>1, <2>2, <2>3 DEF ScanInv
<1> QED
  BY <1>2, <1>3, <1>4, <1>5, <1>6

(* A nested scope adds to a slot that is not zero; an outermost one is only announced. *)
LEMMA AnnounceInv ==
    ASSUME ReadersInv, NEW t \in Thread, Announce(t)
    PROVE  ReadersInv'
<1> USE DEF ReadersInv
<1>0. OwnDepth(t) \in Nat /\ OwnDepth(t) = guards[t] /\ guards[t] \in Nat /\ pc[t] = "enter"
  BY OwnDepthType DEF Announce, SlotInv, Announced, TypeOK
<1>1. /\ buffer' \in [Thread -> Seq(Nat)]
      /\ OwnDepth(t)' = OwnDepth(t) + 1
      /\ \A i \in DOMAIN buffer'[t] :
            \/ buffer'[t][i] = OwnDepth(t) + 1
            \/ i \in DOMAIN buffer[t] /\ buffer'[t][i] = buffer[t][i]
      /\ \A u \in Thread \ {t} : OwnDepth(u)' = OwnDepth(u) /\ buffer'[u] = buffer[u]
  BY <1>0, StoreSeen DEF Announce
<1>2. UNCHANGED <<registered, depth, closed, maintenance, idle, unfenced, unscanned, sleeping, pauses>>
  BY DEF Announce
<1>3. CASE OwnDepth(t) # 0
  <2>1. /\ pc' = [pc EXCEPT ![t] = "outside"]
        /\ guards' \in [Thread -> Nat]
        /\ guards'[t] = OwnDepth(t) + 1 /\ guards[t] # 0 /\ guards'[t] # 0
        /\ \A u \in Thread \ {t} : guards'[u] = guards[u]
    <3>1. pc' = [pc EXCEPT ![t] = "outside"] /\ guards' = [guards EXCEPT ![t] = @ + 1]
      BY <1>3 DEF Announce, Goto
    <3>2. guards \in [Thread -> Nat]
      BY DEF TypeOK
    <3> QED
      BY <1>0, <1>3, <3>1, <3>2
  <2>2. TypeOK'
    BY <1>1, <1>2, <2>1 DEF TypeOK, ReaderLabels
  <2>3. MutexInv'
    BY <1>0, <1>2, <2>1 DEF TypeOK, MutexInv, CompactorLabels, Closing, Fenced
  <2>4. SlotInv'
    BY <1>0, <1>1, <1>2, <2>1 DEF TypeOK, SlotInv, Announced, ReaderLabels
  <2>5. FenceInv'
    <3>1. ASSUME NEW u \in Thread, closed, u \notin unfenced, guards'[u] # 0
          PROVE  depth[u] # 0 /\ \A i \in DOMAIN buffer'[u] : buffer'[u][i] # 0
      <4>1. guards[u] # 0
        BY <2>1, <3>1
      <4>2. depth[u] # 0 /\ \A i \in DOMAIN buffer[u] : buffer[u][i] # 0
        BY <3>1, <4>1 DEF FenceInv
      <4> QED
        BY <1>0, <1>1, <2>1, <3>1, <4>2
    <3> QED
      BY <1>2, <3>1 DEF FenceInv
  <2>6. ScanInv'
    BY <1>0, <1>2, <2>1 DEF TypeOK, ScanInv
  <2> QED
    BY <2>2, <2>3, <2>4, <2>5, <2>6
<1>4. CASE OwnDepth(t) = 0
  <2>1. /\ pc' = [pc EXCEPT ![t] = "gate"] /\ guards' = guards
        /\ guards[t] = 0 /\ OwnDepth(t)' = 1 /\ t \in registered
    BY <1>0, <1>1, <1>4 DEF Announce, Goto, SlotInv, ReaderLabels
  <2>2. TypeOK'
    BY <1>1, <1>2, <2>1 DEF TypeOK, ReaderLabels
  <2>3. MutexInv'
    BY <1>0, <1>2, <2>1 DEF TypeOK, MutexInv, CompactorLabels, Closing, Fenced
  <2>4. SlotInv'
    BY <1>1, <1>2, <2>1 DEF TypeOK, SlotInv, Announced, ReaderLabels
  <2>5. FenceInv'
    BY <1>1, <1>2, <2>1 DEF FenceInv
  <2>6. ScanInv'
    BY <1>0, <1>2, <2>1 DEF TypeOK, ScanInv
  <2> QED
    BY <2>2, <2>3, <2>4, <2>5, <2>6
<1> QED
  BY <1>3, <1>4

(* A closed gate admits nobody. *)
LEMMA ReadGateInv ==
    ASSUME ReadersInv, NEW t \in Thread, ReadGate(t)
    PROVE  ReadersInv'
<1> USE DEF ReadersInv
<1>0. pc[t] = "gate" /\ guards[t] = 0 /\ OwnDepth(t) = 1 /\ t \in registered
  BY DEF ReadGate, SlotInv, Announced, ReaderLabels
<1>1. /\ \A u \in Thread : OwnDepth(u)' = OwnDepth(u)
      /\ UNCHANGED <<registered, depth, buffer, closed, maintenance, idle, unfenced, unscanned, sleeping, pauses>>
  BY DEF ReadGate, OwnDepth
<1>2. CASE closed
  <2>1. pc' = [pc EXCEPT ![t] = "withdraw"] /\ guards' = guards
    BY <1>2 DEF ReadGate, Goto
  <2>2. TypeOK'
    BY <1>1, <2>1 DEF TypeOK, ReaderLabels
  <2>3. MutexInv'
    BY <1>0, <1>1, <2>1 DEF TypeOK, MutexInv, CompactorLabels, Closing, Fenced
  <2>4. SlotInv'
    BY <1>0, <1>1, <2>1 DEF TypeOK, SlotInv, Announced, ReaderLabels
  <2>5. FenceInv' /\ ScanInv'
    BY <1>0, <1>1, <2>1 DEF TypeOK, FenceInv, ScanInv
  <2> QED
    BY <2>2, <2>3, <2>4, <2>5
<1>3. CASE ~closed
  <2>1. /\ pc' = [pc EXCEPT ![t] = "outside"]
        /\ guards' \in [Thread -> Nat] /\ guards'[t] = 1
        /\ \A u \in Thread \ {t} : guards'[u] = guards[u]
    <3>1. pc' = [pc EXCEPT ![t] = "outside"] /\ guards' = [guards EXCEPT ![t] = @ + 1]
      BY <1>3 DEF ReadGate, Goto
    <3>2. guards \in [Thread -> Nat]
      BY DEF TypeOK
    <3> QED
      BY <1>0, <1>3, <3>1, <3>2
  <2>2. TypeOK'
    BY <1>1, <2>1 DEF TypeOK, ReaderLabels
  <2>3. MutexInv'
    BY <1>0, <1>1, <2>1 DEF TypeOK, MutexInv, CompactorLabels, Closing, Fenced
  <2>4. SlotInv'
    BY <1>0, <1>1, <2>1 DEF TypeOK, SlotInv, Announced, ReaderLabels
  <2>5. FenceInv'
    BY <1>1, <1>3 DEF FenceInv
  <2>6. ScanInv'
    BY <1>1, <1>3, <2>1 DEF TypeOK, MutexInv, ScanInv, Closing
  <2> QED
    BY <2>2, <2>3, <2>4, <2>5, <2>6
<1> QED
  BY <1>2, <1>3

(* A thread that waits for maintenance to end holds no scope. *)
LEMMA AwaitMaintenanceInv ==
    ASSUME ReadersInv, NEW t \in Thread, AwaitMaintenance(t)
    PROVE  ReadersInv'
<1> USE DEF ReadersInv
<1>1. /\ depth' \in [Thread -> Nat] /\ buffer' \in [Thread -> Seq(Nat)]
      /\ depth'[t] = OwnDepth(t) /\ buffer'[t] = <<>>
      /\ \A u \in Thread : OwnDepth(u)' = OwnDepth(u)
      /\ \A u \in Thread \ {t} : depth'[u] = depth[u] /\ buffer'[u] = buffer[u]
  BY FlushAllSeen DEF AwaitMaintenance
<1>2. TypeOK'
  BY <1>1, ReadersAssumption DEF AwaitMaintenance, Goto, TypeOK, ReaderLabels, CompactorLabels
<1>3. MutexInv'
  BY DEF AwaitMaintenance, Goto, TypeOK, MutexInv, CompactorLabels, Closing, Fenced
<1>4. SlotInv'
  BY <1>1 DEF AwaitMaintenance, Goto, TypeOK, SlotInv, Announced, ReaderLabels
<1>5. FenceInv'
  <2>1. guards[t] = 0 /\ guards' = guards /\ closed' = closed /\ unfenced' = unfenced
    BY DEF AwaitMaintenance, SlotInv
  <2> QED
    BY <1>1, <2>1 DEF FenceInv
<1>6. ScanInv'
  BY DEF AwaitMaintenance, Goto, TypeOK, ScanInv
<1> QED
  BY <1>2, <1>3, <1>4, <1>5, <1>6

(* The slot reaches zero only with the last scope. *)
LEMMA LeaveInv ==
    ASSUME ReadersInv, NEW t \in Thread, Leave(t)
    PROVE  ReadersInv'
<1> USE DEF ReadersInv
<1>0. OwnDepth(t) \in Nat /\ guards[t] \in Nat
      /\ OwnDepth(t) = IF pc[t] \in Announced THEN 1 ELSE guards[t]
  BY OwnDepthType DEF SlotInv, TypeOK
<1>1. OwnDepth(t) - 1 \in Nat
  BY <1>0 DEF Leave, Announced
<1>2. /\ buffer' \in [Thread -> Seq(Nat)]
      /\ OwnDepth(t)' = OwnDepth(t) - 1
      /\ \A i \in DOMAIN buffer'[t] :
            \/ buffer'[t][i] = OwnDepth(t) - 1
            \/ i \in DOMAIN buffer[t] /\ buffer'[t][i] = buffer[t][i]
      /\ \A u \in Thread \ {t} : OwnDepth(u)' = OwnDepth(u) /\ buffer'[u] = buffer[u]
  BY <1>1, StoreSeen DEF Leave
<1>3. UNCHANGED <<registered, depth, closed, maintenance, idle, unfenced, unscanned, sleeping, pauses>>
  BY DEF Leave
<1>4. CASE pc[t] = "outside"
  <2>0. guards[t] > 0 /\ OwnDepth(t) = guards[t]
    BY <1>0, <1>4 DEF Leave, Announced
  <2>1. /\ guards' \in [Thread -> Nat] /\ guards[t] # 0
        /\ guards'[t] = OwnDepth(t)' /\ guards'[t] = OwnDepth(t) - 1
        /\ \A u \in Thread \ {t} : guards'[u] = guards[u]
        /\ \/ guards'[t] = 0 /\ pc' = [pc EXCEPT ![t] = "left"]
           \/ pc' = [pc EXCEPT ![t] = "outside"]
    BY <1>0, <1>2, <1>4, <2>0 DEF Leave, Goto, TypeOK
  <2>2. TypeOK'
    BY <1>0, <1>2, <1>3, <2>1 DEF TypeOK, ReaderLabels
  <2>3. MutexInv'
    BY <1>3, <1>4, <2>1 DEF TypeOK, MutexInv, CompactorLabels, Closing, Fenced
  <2>4. SlotInv'
    <3>1. pc'[t] \in {"outside", "left"} /\ (pc'[t] = "left" => guards'[t] = 0)
      BY <2>1 DEF TypeOK
    <3>2. \A u \in Thread \ {t} : pc'[u] = pc[u]
      BY <2>1 DEF TypeOK
    <3>3. pc'[t] \notin Announced /\ t \in registered /\ guards'[t] = OwnDepth(t)'
      BY <1>4, <2>1, <3>1 DEF SlotInv, Announced
    <3> QED
      BY <1>2, <1>3, <2>1, <3>1, <3>2, <3>3, ZenonT(60) DEF SlotInv, Announced, ReaderLabels
  <2>5. FenceInv'
    <3>1. ASSUME NEW u \in Thread, closed, u \notin unfenced, guards'[u] # 0
          PROVE  depth[u] # 0 /\ \A i \in DOMAIN buffer'[u] : buffer'[u][i] # 0
      <4>1. guards[u] # 0
        BY <2>1, <3>1
      <4>2. depth[u] # 0 /\ \A i \in DOMAIN buffer[u] : buffer[u][i] # 0
        BY <3>1, <4>1 DEF FenceInv
      <4> QED
        BY <1>2, <2>1, <3>1, <4>2
    <3> QED
      BY <1>3, <3>1 DEF FenceInv
  <2>6. ScanInv'
    <3>1. \A u \in Thread : pc'[u] \in {"scan", "relocate"} => pc'[u] = pc[u]
      BY <2>1 DEF TypeOK
    <3>2. \A u \in Thread : guards[u] = 0 => guards'[u] = 0
      BY <2>1
    <3> QED
      BY <1>3, <3>1, <3>2 DEF ScanInv
  <2> QED
    BY <2>2, <2>3, <2>4, <2>5, <2>6
<1>5. CASE pc[t] = "withdraw"
  <2>1. /\ guards[t] = 0 /\ guards' = guards /\ pc' = [pc EXCEPT ![t] = "withdrawn"]
        /\ OwnDepth(t)' = 0 /\ t \in registered
    BY <1>0, <1>2, <1>5 DEF Leave, Goto, SlotInv, Announced, ReaderLabels
  <2>2. TypeOK'
    BY <1>2, <1>3, <2>1 DEF TypeOK, ReaderLabels
  <2>3. MutexInv'
    BY <1>3, <1>5, <2>1 DEF TypeOK, MutexInv, CompactorLabels, Closing, Fenced
  <2>4. SlotInv'
    BY <1>2, <1>3, <2>1 DEF TypeOK, SlotInv, Announced, ReaderLabels
  <2>5. FenceInv'
    <3>1. ASSUME NEW u \in Thread, closed, u \notin unfenced, guards[u] # 0
          PROVE  depth[u] # 0 /\ \A i \in DOMAIN buffer'[u] : buffer'[u][i] # 0
      <4>1. u # t
        BY <2>1, <3>1
      <4> QED
        BY <1>2, <3>1, <4>1 DEF FenceInv
    <3> QED
      BY <1>3, <2>1, <3>1 DEF FenceInv
  <2>6. ScanInv'
    BY <1>3, <2>1 DEF TypeOK, ScanInv
  <2> QED
    BY <2>2, <2>3, <2>4, <2>5, <2>6
<1> QED
  BY <1>4, <1>5 DEF Leave

(* The last exit looks at the gate. *)
LEMMA CheckGateInv ==
    ASSUME ReadersInv, NEW t \in Thread, CheckGate(t)
    PROVE  ReadersInv'
<1> USE DEF ReadersInv
<1>1. PICK label \in {"outside", "notify", "await", "notify_await"} :
        pc[t] \in {"left", "withdrawn"} /\ pc' = [pc EXCEPT ![t] = label]
  BY DEF CheckGate, Goto
<1>2. /\ \A u \in Thread : OwnDepth(u)' = OwnDepth(u)
      /\ UNCHANGED <<registered, depth, buffer, guards, closed, maintenance, idle, unfenced, unscanned, sleeping, pauses>>
  BY DEF CheckGate, OwnDepth
<1>3. TypeOK'
  BY <1>1, <1>2 DEF TypeOK, ReaderLabels
<1>4. MutexInv'
  BY <1>1, <1>2 DEF TypeOK, MutexInv, CompactorLabels, Closing, Fenced
<1>5. SlotInv'
  BY <1>1, <1>2 DEF TypeOK, SlotInv, Announced, ReaderLabels
<1>6. FenceInv'
  BY <1>2 DEF FenceInv
<1>7. ScanInv'
  BY <1>1, <1>2 DEF TypeOK, ScanInv
<1> QED
  BY <1>3, <1>4, <1>5, <1>6, <1>7

(* notify() drains the buffer of a thread without scopes. *)
LEMMA NotifyInv ==
    ASSUME ReadersInv, NEW t \in Thread, Notify(t)
    PROVE  ReadersInv'
<1> USE DEF ReadersInv
<1>1. /\ depth' \in [Thread -> Nat] /\ buffer' \in [Thread -> Seq(Nat)]
      /\ depth'[t] = OwnDepth(t) /\ buffer'[t] = <<>>
      /\ \A u \in Thread : OwnDepth(u)' = OwnDepth(u)
      /\ \A u \in Thread \ {t} : depth'[u] = depth[u] /\ buffer'[u] = buffer[u]
  BY FlushAllSeen DEF Notify
<1>2. TypeOK'
  BY <1>1, ReadersAssumption DEF Notify, Goto, TypeOK, ReaderLabels, CompactorLabels
<1>3. MutexInv'
  BY DEF Notify, TypeOK, MutexInv, CompactorLabels, Closing, Fenced
<1>4. SlotInv'
  BY <1>1 DEF Notify, TypeOK, SlotInv, Announced, ReaderLabels
<1>5. FenceInv'
  <2>1. guards[t] = 0 /\ guards' = guards /\ closed' = closed /\ unfenced' = unfenced
    BY DEF Notify, SlotInv
  <2> QED
    BY <1>1, <2>1 DEF FenceInv
<1>6. ScanInv'
  BY DEF Notify, TypeOK, ScanInv
<1> QED
  BY <1>2, <1>3, <1>4, <1>5, <1>6

(* pause() is refused inside a scope, so the compactor reads nothing itself. *)
LEMMA LockMaintenanceInv ==
    ASSUME ReadersInv, NEW t \in Thread, LockMaintenance(t)
    PROVE  ReadersInv'
<1> USE DEF ReadersInv
<1>1. \A u \in Thread : OwnDepth(u)' = OwnDepth(u)
  BY DEF LockMaintenance, OwnDepth
<1>2. TypeOK'
  BY ReadersAssumption DEF LockMaintenance, Goto, TypeOK, ReaderLabels, CompactorLabels
<1>3. MutexInv'
  BY ReadersAssumption DEF LockMaintenance, Goto, TypeOK, MutexInv, CompactorLabels, Closing, Fenced
<1>4. SlotInv'
  BY <1>1 DEF LockMaintenance, Goto, TypeOK, SlotInv, Announced, ReaderLabels
<1>5. FenceInv'
  BY DEF LockMaintenance, FenceInv
<1>6. ScanInv'
  BY DEF LockMaintenance, Goto, TypeOK, ScanInv
<1> QED
  BY <1>2, <1>3, <1>4, <1>5, <1>6

(* The gate closes before any thread is fenced. *)
LEMMA CloseGateInv ==
    ASSUME ReadersInv, NEW t \in Thread, CloseGate(t)
    PROVE  ReadersInv'
<1> USE DEF ReadersInv
<1>1. \A u \in Thread : OwnDepth(u)' = OwnDepth(u)
  BY DEF CloseGate, OwnDepth
<1>2. TypeOK'
  BY ReadersAssumption DEF CloseGate, Goto, TypeOK, ReaderLabels, CompactorLabels
<1>3. MutexInv'
  BY DEF CloseGate, Goto, TypeOK, MutexInv, CompactorLabels, Closing, Fenced
<1>4. SlotInv'
  BY <1>1 DEF CloseGate, Goto, TypeOK, SlotInv, Announced, ReaderLabels
<1>5. FenceInv'
  BY DEF CloseGate, FenceInv
<1>6. ScanInv'
  BY DEF CloseGate, Goto, TypeOK, ScanInv
<1> QED
  BY <1>2, <1>3, <1>4, <1>5, <1>6

(* A fenced thread's scopes are in memory. *)
LEMMA FenceStepInv ==
    ASSUME ReadersInv, NEW t \in Thread, Fence(t)
    PROVE  ReadersInv'
<1> USE DEF ReadersInv
<1>1. /\ depth' \in [Thread -> Nat] /\ buffer' \in [Thread -> Seq(Nat)]
      /\ depth'[t] = OwnDepth(t) /\ buffer'[t] = <<>>
      /\ \A u \in Thread : OwnDepth(u)' = OwnDepth(u)
      /\ \A u \in Thread \ {t} : depth'[u] = depth[u] /\ buffer'[u] = buffer[u]
  BY FlushAllSeen DEF Fence
<1>2. TypeOK'
  BY <1>1, ReadersAssumption DEF Fence, Goto, TypeOK, ReaderLabels, CompactorLabels
<1>3. MutexInv'
  BY DEF Fence, MutexInv, Fenced
<1>4. SlotInv'
  BY <1>1 DEF Fence, SlotInv
<1>5. FenceInv'
  <2>1. UNCHANGED <<guards, closed>> /\ unfenced' = unfenced \ {t}
    BY DEF Fence
  <2>2. guards[t] # 0 => depth'[t] # 0
    BY <1>1 DEF TypeOK, SlotInv, Announced
  <2>3. DOMAIN buffer'[t] = {}
    BY <1>1
  <2>4. \A u \in Thread \ {t} : depth'[u] = depth[u] /\ buffer'[u] = buffer[u]
    BY <1>1
  <2> QED
    BY <2>1, <2>2, <2>3, <2>4, Zenon DEF FenceInv
<1>6. ScanInv'
  BY DEF Fence, ScanInv
<1> QED
  BY <1>2, <1>3, <1>4, <1>5, <1>6

(* The scan begins when every thread is fenced. *)
LEMMA LockIdleInv ==
    ASSUME ReadersInv, NEW t \in Thread, LockIdle(t)
    PROVE  ReadersInv'
<1> USE DEF ReadersInv
<1>1. \A u \in Thread : OwnDepth(u)' = OwnDepth(u)
  BY DEF LockIdle, OwnDepth
<1>2. TypeOK'
  BY ReadersAssumption DEF LockIdle, Goto, TypeOK, ReaderLabels, CompactorLabels
<1>3. MutexInv'
  BY DEF LockIdle, Goto, TypeOK, MutexInv, CompactorLabels, Closing, Fenced
<1>4. SlotInv'
  BY <1>1 DEF LockIdle, Goto, TypeOK, SlotInv, Announced, ReaderLabels
<1>5. FenceInv'
  BY DEF LockIdle, FenceInv
<1>6. ScanInv'
  BY DEF LockIdle, Goto, TypeOK, ScanInv
<1> QED
  BY <1>2, <1>3, <1>4, <1>5, <1>6

(* An inactive slot of a fenced thread means that it has no scope. *)
LEMMA ScanInvStep ==
    ASSUME ReadersInv, NEW t \in Thread, NEW u \in Thread, Scan(t, u)
    PROVE  ReadersInv'
<1> USE DEF ReadersInv
<1>1. \A v \in Thread : OwnDepth(v)' = OwnDepth(v)
  BY DEF Scan, OwnDepth
<1>2. TypeOK'
  BY ReadersAssumption DEF Scan, Goto, TypeOK, ReaderLabels, CompactorLabels
<1>3. MutexInv'
  BY DEF Scan, Goto, TypeOK, MutexInv, CompactorLabels, Closing, Fenced
<1>4. SlotInv'
  BY <1>1 DEF Scan, Goto, TypeOK, SlotInv, Announced, ReaderLabels
<1>5. FenceInv'
  BY DEF Scan, FenceInv
<1>6. ScanInv'
  <2>1. UNCHANGED <<registered, guards>> /\ pc[t] = "scan"
    BY DEF Scan
  <2>2. CASE depth[u] = 0
    <3>1. pc' = pc /\ unscanned' = unscanned \ {u}
      BY <2>2 DEF Scan
    <3>2. guards[u] = 0
      BY <2>1, <2>2 DEF TypeOK, MutexInv, FenceInv, Closing, Fenced
    <3> QED
      BY <2>1, <3>1, <3>2 DEF ScanInv
  <2>3. CASE depth[u] # 0
    <3>1. pc' = [pc EXCEPT ![t] = "wait"]
      BY <2>3 DEF Scan, Goto
    <3>2. \A v \in Thread : pc'[v] # "scan" /\ pc'[v] # "relocate"
      BY <2>1, <3>1 DEF TypeOK, MutexInv, CompactorLabels
    <3> QED
      BY <3>2 DEF ScanInv
  <2> QED
    BY <2>2, <2>3
<1> QED
  BY <1>2, <1>3, <1>4, <1>5, <1>6

(* The scan begins again. *)
LEMMA WakeInv ==
    ASSUME ReadersInv, NEW t \in Thread, Wake(t)
    PROVE  ReadersInv'
<1> USE DEF ReadersInv
<1>1. \A u \in Thread : OwnDepth(u)' = OwnDepth(u)
  BY DEF Wake, OwnDepth
<1>2. TypeOK'
  BY ReadersAssumption DEF Wake, Goto, TypeOK, ReaderLabels, CompactorLabels
<1>3. MutexInv'
  BY DEF Wake, Goto, TypeOK, MutexInv, CompactorLabels, Closing, Fenced
<1>4. SlotInv'
  BY <1>1 DEF Wake, Goto, TypeOK, SlotInv, Announced, ReaderLabels
<1>5. FenceInv'
  BY DEF Wake, FenceInv
<1>6. ScanInv'
  BY DEF Wake, Goto, TypeOK, ScanInv
<1> QED
  BY <1>2, <1>3, <1>4, <1>5, <1>6

(* Every registered slot was inactive. *)
LEMMA PausedInv ==
    ASSUME ReadersInv, NEW t \in Thread, Paused(t)
    PROVE  ReadersInv'
<1> USE DEF ReadersInv
<1>1. \A u \in Thread : OwnDepth(u)' = OwnDepth(u)
  BY DEF Paused, OwnDepth
<1>2. TypeOK'
  BY ReadersAssumption DEF Paused, Goto, TypeOK, ReaderLabels, CompactorLabels
<1>3. MutexInv'
  BY DEF Paused, Goto, TypeOK, MutexInv, CompactorLabels, Closing, Fenced
<1>4. SlotInv'
  BY <1>1 DEF Paused, Goto, TypeOK, SlotInv, Announced, ReaderLabels
<1>5. FenceInv'
  BY DEF Paused, FenceInv
<1>6. ScanInv'
  BY DEF Paused, Goto, TypeOK, SlotInv, ScanInv
<1> QED
  BY <1>2, <1>3, <1>4, <1>5, <1>6

(* The gate reopens. *)
LEMMA ReopenInv ==
    ASSUME ReadersInv, NEW t \in Thread, Reopen(t)
    PROVE  ReadersInv'
<1> USE DEF ReadersInv
<1>1. \A u \in Thread : OwnDepth(u)' = OwnDepth(u)
  BY DEF Reopen, OwnDepth
<1>2. TypeOK'
  BY ReadersAssumption DEF Reopen, Goto, TypeOK, ReaderLabels, CompactorLabels
<1>3. MutexInv'
  BY DEF Reopen, Goto, TypeOK, MutexInv, CompactorLabels, Closing, Fenced
<1>4. SlotInv'
  BY <1>1 DEF Reopen, Goto, TypeOK, SlotInv, Announced, ReaderLabels
<1>5. FenceInv'
  BY DEF Reopen, FenceInv
<1>6. ScanInv'
  BY DEF Reopen, Goto, TypeOK, ScanInv
<1> QED
  BY <1>2, <1>3, <1>4, <1>5, <1>6

(* The mutex is released when the gate is open. *)
LEMMA UnlockInv ==
    ASSUME ReadersInv, NEW t \in Thread, Unlock(t)
    PROVE  ReadersInv'
<1> USE DEF ReadersInv
<1>1. \A u \in Thread : OwnDepth(u)' = OwnDepth(u)
  BY DEF Unlock, OwnDepth
<1>2. TypeOK'
  BY ReadersAssumption DEF Unlock, Goto, TypeOK, ReaderLabels, CompactorLabels
<1>3. MutexInv'
  BY ReadersAssumption DEF Unlock, Goto, TypeOK, MutexInv, CompactorLabels, Closing, Fenced
<1>4. SlotInv'
  BY <1>1 DEF Unlock, Goto, TypeOK, SlotInv, Announced, ReaderLabels
<1>5. FenceInv'
  BY DEF Unlock, FenceInv
<1>6. ScanInv'
  BY DEF Unlock, Goto, TypeOK, ScanInv
<1> QED
  BY <1>2, <1>3, <1>4, <1>5, <1>6

(* A store that reaches memory is not zero while its thread reads. *)
LEMMA FlushInv ==
    ASSUME ReadersInv, NEW t \in Thread, Flush(t)
    PROVE  ReadersInv'
<1> USE DEF ReadersInv
<1>1. /\ depth' \in [Thread -> Nat] /\ buffer' \in [Thread -> Seq(Nat)]
      /\ 1 \in DOMAIN buffer[t] /\ depth'[t] = buffer[t][1]
      /\ \A i \in DOMAIN buffer'[t] :
            i + 1 \in DOMAIN buffer[t] /\ buffer'[t][i] = buffer[t][i + 1]
      /\ \A u \in Thread : OwnDepth(u)' = OwnDepth(u)
      /\ \A u \in Thread \ {t} : depth'[u] = depth[u] /\ buffer'[u] = buffer[u]
  BY FlushSeen
<1>2. TypeOK'
  BY <1>1, ReadersAssumption DEF Flush, Goto, TypeOK, ReaderLabels, CompactorLabels
<1>3. MutexInv'
  BY DEF Flush, MutexInv, Fenced
<1>4. SlotInv'
  BY <1>1 DEF Flush, SlotInv
<1>5. FenceInv'
  <2>1. UNCHANGED <<guards, closed, unfenced>>
    BY DEF Flush
  <2>2. ASSUME NEW u \in Thread, closed, u \notin unfenced, guards[u] # 0
        PROVE  depth'[u] # 0 /\ \A i \in DOMAIN buffer'[u] : buffer'[u][i] # 0
    <3>1. depth[u] # 0 /\ \A i \in DOMAIN buffer[u] : buffer[u][i] # 0
      BY <2>2 DEF FenceInv
    <3> QED
      BY <1>1, <3>1
  <2> QED
    BY <2>1, <2>2 DEF FenceInv
<1>6. ScanInv'
  BY DEF Flush, ScanInv
<1> QED
  BY <1>2, <1>3, <1>4, <1>5, <1>6

(* The invariant holds in every behaviour. *)
THEOREM ReadersInvariant == Spec => []ReadersInv
<1>1. ReadersInv /\ [Next]_vars => ReadersInv'
  <2> SUFFICES ASSUME ReadersInv, [Next]_vars PROVE ReadersInv'
    OBVIOUS
  <2>1. ASSUME NEW t \in Thread, Enter(t) \/ ReaderStep(t) PROVE ReadersInv'
    BY <2>1, EnterInv, AnnounceInv, ReadGateInv, AwaitMaintenanceInv, LeaveInv, CheckGateInv, NotifyInv
       DEF ReaderStep
  <2>2. ASSUME NEW t \in Thread, LockMaintenance(t) \/ CompactorStep(t) PROVE ReadersInv'
    BY <2>2, LockMaintenanceInv, CloseGateInv, LockIdleInv, ScanInvStep, WakeInv, PausedInv, ReopenInv,
       UnlockInv DEF CompactorStep
  <2>3. ASSUME NEW t \in Thread, Flush(t) \/ Fence(t) PROVE ReadersInv'
    BY <2>3, FlushInv, FenceStepInv
  <2>4. CASE UNCHANGED vars
    BY <2>4 DEF vars, ReadersInv, TypeOK, MutexInv, SlotInv, FenceInv, ScanInv, OwnDepth, Announced
  <2> QED
    BY <2>1, <2>2, <2>3, <2>4 DEF Next
<1> QED
  BY <1>1, ReadersInit, PTL DEF Spec

(***************************************************************************)
(* While a thread relocates the store no thread is inside a read scope,    *)
(* and no other thread relocates: Readers::pause() returns only when every *)
(* ReadGuard is gone and enter() gives out none until the Pause is         *)
(* dropped, with no fence on the reader's side.                            *)
(***************************************************************************)
THEOREM RelocationExcludesReaders == Spec => []RelocationIsExclusive
<1>1. ReadersInv => RelocationIsExclusive
  BY ReadersAssumption DEF ReadersInv, TypeOK, MutexInv, ScanInv, RelocationIsExclusive, CompactorLabels
<1> QED
  BY <1>1, ReadersInvariant, PTL

-----------------------------------------------------------------------------
(* The account image: lock-free reads of an account while it is written.    *)

StoredWord == [account : Nat, stamp : Int]

(* States of the writer that prepare, or have published, a shadow. *)
Prepares == writer.pc \in {"translate", "write", "commit"}

WriterType ==
    [pc : {"idle", "failed", "header"}]
    \cup [pc : {"translate", "write", "commit", "published"}, version : Nat, at : 1..Words]
    \cup [pc : {"serialize"}, at : 1..Words]

Reading == {"read", "check"}

ReaderType ==
    [pc : {"idle"}, reads : Nat]
    \cup [pc : Reading \cup {"done"}, reads : Nat, account : Nat, pre : Nat, got : Seq(StoredWord)]

ImageTypes ==
    /\ seq \in Nat /\ account \in Nat /\ writes \in Nat
    /\ image \in [1..2 -> [1..Words -> StoredWord]]
    /\ writer \in WriterType
    /\ reader \in [Reader -> ReaderType]

(* The shadow in preparation is the one of the current sequence number. *)
VersionInv ==
    /\ Prepares => writer.version = seq
    /\ writer.pc = "published" => seq = writer.version + 1

(* A read of the account that owns the span. *)
Current(r) == reader[r].pc \in Reading /\ reader[r].account = account

(* The sequence number of a read may still be the current one when it ends: *)
(* it is now, or a rollback makes it so.                                    *)
Fresh(r) == reader[r].pre = seq \/ (writer.pc = "published" /\ reader[r].pre + 1 = seq)

ReaderInv ==
    \A r \in Reader :
        /\ reader[r].pc \in Reading => reader[r].account <= account
        /\ reader[r].pc = "read" => Len(reader[r].got) < Words
        /\ reader[r].pc = "check" => Len(reader[r].got) = Words
        /\ Current(r) =>
              /\ writer.pc \notin {"header", "serialize"}
              /\ writer.pc # "failed" => reader[r].pre <= seq
              /\ Fresh(r) => \A i \in 1..Len(reader[r].got) :
                                reader[r].got[i] = image[ActiveCopy(reader[r].pre)][i]

ImageInv == ImageTypes /\ VersionInv /\ ReaderInv

-----------------------------------------------------------------------------
(* The two copies of a span: active and shadow are different, and the next    *)
(* sequence number swaps them.                                                *)
LEMMA CopyFacts ==
    ASSUME NEW s \in Nat
    PROVE  /\ ActiveCopy(s) \in 1..2 /\ ShadowCopy(s) \in 1..2
           /\ ActiveCopy(s) # ShadowCopy(s)
  BY DEF ActiveCopy, ShadowCopy

(* A word written into one copy leaves the other copy, and the types, alone.   *)
LEMMA OneWord ==
    ASSUME NEW im \in [1..2 -> [1..Words -> StoredWord]], NEW c \in 1..2, NEW i \in 1..Words,
           NEW w \in StoredWord, NEW d \in 1..2, d # c
    PROVE  /\ [im EXCEPT ![c][i] = w] \in [1..2 -> [1..Words -> StoredWord]]
           /\ [im EXCEPT ![c][i] = w][d] = im[d]
  OBVIOUS

(* The initial image satisfies the invariant. *)
LEMMA ImageInitInv == ImageInit => ImageInv
  <1> SUFFICES ASSUME ImageInit PROVE ImageInv
    OBVIOUS
  <1> DEFINE a == [account |-> 0, stamp |-> 0]
             b == [account |-> 0, stamp |-> -1]
  <1>1. a \in StoredWord /\ b \in StoredWord
    BY DEF StoredWord
  <1>2. Copy(a) \in [1..Words -> StoredWord] /\ Copy(b) \in [1..Words -> StoredWord]
    BY <1>1 DEF Copy
  <1>3. image \in [1..2 -> [1..Words -> StoredWord]]
    <2>1. image = <<Copy(a), Copy(b)>>
      BY DEF ImageInit
    <2> QED BY <1>2, <2>1
  <1>4. writer \in WriterType /\ writer.pc = "idle"
    BY DEF ImageInit, WriterType
  <1>5. reader \in [Reader -> ReaderType] /\ \A r \in Reader : reader[r].pc = "idle"
    BY DEF ImageInit, ReaderType
  <1>6. ImageTypes
    BY <1>3, <1>4, <1>5 DEF ImageInit, ImageTypes
  <1>7. VersionInv
    BY <1>4 DEF VersionInv, Prepares
  <1>8. ReaderInv
    BY <1>5 DEF ReaderInv, Current, Reading
  <1> QED BY <1>6, <1>7, <1>8 DEF ImageInv

(* The fields of a writer and of a reader in each state. *)
LEMMA WriterFields ==
    ASSUME ImageTypes
    PROVE  /\ writer.pc \in {"idle", "failed", "header", "translate", "write", "commit",
                             "published", "serialize"}
           /\ writer.pc \in {"translate", "write", "commit", "published"} =>
                /\ writer \in [pc : {"translate", "write", "commit", "published"},
                               version : Nat, at : 1..Words]
                /\ writer.version \in Nat /\ writer.at \in 1..Words
           /\ writer.pc = "serialize" =>
                /\ writer \in [pc : {"serialize"}, at : 1..Words]
                /\ writer.at \in 1..Words
  BY DEF ImageTypes, WriterType

LEMMA ReaderFields ==
    ASSUME ImageTypes, NEW r \in Reader
    PROVE  /\ reader[r].pc \in {"idle", "read", "check", "done"} /\ reader[r].reads \in Nat
           /\ reader[r].pc # "idle" =>
                /\ reader[r] \in [pc : Reading \cup {"done"}, reads : Nat, account : Nat,
                                  pre : Nat, got : Seq(StoredWord)]
                /\ reader[r].account \in Nat /\ reader[r].pre \in Nat
                /\ reader[r].got \in Seq(StoredWord) /\ Len(reader[r].got) \in Nat
  <1>1. reader[r] \in ReaderType
    BY DEF ImageTypes
  <1>2. CASE reader[r] \in [pc : {"idle"}, reads : Nat]
    BY <1>2
  <1>3. CASE reader[r] \in [pc : Reading \cup {"done"}, reads : Nat, account : Nat,
                            pre : Nat, got : Seq(StoredWord)]
    <2>1. reader[r].got \in Seq(StoredWord) /\ Len(reader[r].got) \in Nat
      BY <1>3
    <2> QED BY <1>3, <2>1 DEF Reading
  <1> QED BY <1>1, <1>2, <1>3 DEF ReaderType

-----------------------------------------------------------------------------
(* What the actions of the writer have to show about the readers, which they   *)
(* leave alone: no image word of a fresh read changes, and no read becomes     *)
(* fresh.                                                                      *)
LEMMA ReadersUntouched ==
    ASSUME ImageInv, ImageTypes', reader' = reader, account' = account,
           writer.pc \notin {"header", "serialize"} => writer'.pc \notin {"header", "serialize"},
           writer.pc \notin {"header", "serialize", "failed"} =>
              /\ writer'.pc # "failed" => seq' >= seq
              /\ \A r \in Reader : Current(r) /\ Fresh(r)' =>
                    Fresh(r) /\ image'[ActiveCopy(reader[r].pre)] = image[ActiveCopy(reader[r].pre)],
           writer.pc = "failed" => UNCHANGED <<seq, image, writer>>
    PROVE  ReaderInv'
  <1> SUFFICES ASSUME NEW r \in Reader
               PROVE  /\ reader[r].pc \in Reading => reader[r].account <= account
                      /\ reader[r].pc = "read" => Len(reader[r].got) < Words
                      /\ reader[r].pc = "check" => Len(reader[r].got) = Words
                      /\ Current(r) =>
                            /\ writer'.pc \notin {"header", "serialize"}
                            /\ writer'.pc # "failed" => reader[r].pre <= seq'
                            /\ Fresh(r)' => \A i \in 1..Len(reader[r].got) :
                                  reader[r].got[i] = image'[ActiveCopy(reader[r].pre)][i]
    BY DEF ReaderInv, Current
  <1>1. /\ reader[r].pc \in Reading => reader[r].account <= account
        /\ reader[r].pc = "read" => Len(reader[r].got) < Words
        /\ reader[r].pc = "check" => Len(reader[r].got) = Words
    BY DEF ImageInv, ReaderInv
  <1>2. ASSUME Current(r)
        PROVE  /\ writer'.pc \notin {"header", "serialize"}
               /\ writer'.pc # "failed" => reader[r].pre <= seq'
               /\ Fresh(r)' => \A i \in 1..Len(reader[r].got) :
                     reader[r].got[i] = image'[ActiveCopy(reader[r].pre)][i]
    <2>1. /\ writer.pc \notin {"header", "serialize"}
          /\ writer.pc # "failed" => reader[r].pre <= seq
          /\ Fresh(r) => \A i \in 1..Len(reader[r].got) :
                reader[r].got[i] = image[ActiveCopy(reader[r].pre)][i]
      BY <1>2 DEF ImageInv, ReaderInv
    <2>2. seq \in Nat /\ seq' \in Nat /\ reader[r].pre \in Nat
      BY <1>2, ReaderFields DEF ImageInv, ImageTypes, Current, Reading
    <2>3. CASE writer.pc = "failed"
      BY <2>1, <2>3 DEF Fresh
    <2>4. CASE writer.pc # "failed"
      BY <1>2, <2>1, <2>2, <2>4
    <2> QED BY <2>3, <2>4
  <1> QED BY <1>1, <1>2

(* Loading a view fixes its version to the sequence number. *)
LEMMA LoadViewInv == ImageInv /\ LoadView => ImageInv'
  <1> SUFFICES ASSUME ImageInv, LoadView PROVE ImageInv'
    OBVIOUS
  <1>1. writer' \in WriterType /\ writer'.pc = "translate" /\ writer'.version = seq
    BY AccountImageAssumption DEF LoadView, WriterType, ImageInv, ImageTypes
  <1>2. ImageTypes'
    BY <1>1 DEF LoadView, ImageInv, ImageTypes
  <1>3. VersionInv'
    BY <1>1 DEF LoadView, VersionInv, Prepares
  <1>4. ReaderInv'
    <2>1. \A r \in Reader : Fresh(r)' => Fresh(r)
      BY <1>1 DEF LoadView, Fresh
    <2>2. seq' >= seq
      BY DEF LoadView, ImageInv, ImageTypes
    <2> QED BY <1>1, <1>2, <2>1, <2>2, ReadersUntouched DEF LoadView
  <1> QED BY <1>2, <1>3, <1>4 DEF ImageInv

(* A word of the shadow changes and the sequence number does not: every fresh  *)
(* read is of the other copy.                                                  *)
LEMMA ShadowWordInv ==
    ASSUME ImageInv, writer.pc \in {"translate", "write"}, NEW w \in StoredWord,
           image' = [image EXCEPT ![ShadowCopy(writer.version)][writer.at] = w],
           writer' \in WriterType, writer'.pc \in {"translate", "write", "commit"},
           writer'.version = writer.version,
           UNCHANGED <<seq, reader, account, writes>>
    PROVE  ImageInv'
  <1>1. writer.version = seq /\ seq \in Nat /\ writer.at \in 1..Words
    BY WriterFields DEF ImageInv, VersionInv, Prepares, ImageTypes
  <1>2. /\ ActiveCopy(seq) \in 1..2 /\ ShadowCopy(seq) \in 1..2
        /\ ActiveCopy(seq) # ShadowCopy(seq)
    BY <1>1, CopyFacts
  <1>3. /\ image' \in [1..2 -> [1..Words -> StoredWord]]
        /\ image'[ActiveCopy(seq)] = image[ActiveCopy(seq)]
    BY <1>1, <1>2, OneWord DEF ImageInv, ImageTypes
  <1>4. ImageTypes'
    BY <1>3 DEF ImageInv, ImageTypes
  <1>5. VersionInv'
    BY <1>1 DEF VersionInv, Prepares
  <1>6. ReaderInv'
    <2>1. \A r \in Reader : Fresh(r)' => Fresh(r) /\ reader[r].pre = seq
      BY DEF Fresh
    <2>2. seq' >= seq
      BY <1>1
    <2> QED BY <1>3, <1>4, <2>1, <2>2, ReadersUntouched
  <1> QED BY <1>4, <1>5, <1>6 DEF ImageInv

(* Translation copies a word of the active image into the shadow. *)
LEMMA TranslateInv == ImageInv /\ Translate => ImageInv'
  <1> SUFFICES ASSUME ImageInv, Translate PROVE ImageInv'
    OBVIOUS
  <1>1. /\ writer \in [pc : {"translate", "write", "commit", "published"},
                       version : Nat, at : 1..Words]
        /\ writer.version \in Nat /\ writer.at \in 1..Words /\ writer.pc = "translate"
    BY WriterFields DEF ImageInv, Translate
  <1> DEFINE w == image[ActiveCopy(writer.version)][writer.at]
  <1>2. w \in StoredWord
    BY <1>1, CopyFacts DEF ImageInv, ImageTypes
  <1>3. image' = [image EXCEPT ![ShadowCopy(writer.version)][writer.at] = w]
    BY DEF Translate
  <1> HIDE DEF w
  <1>4. /\ writer' \in WriterType /\ writer'.version = writer.version
        /\ writer'.pc \in {"translate", "write", "commit"}
    <2> DEFINE W == [pc : {"translate", "write", "commit", "published"},
                     version : Nat, at : 1..Words]
    <2>1. CASE writer.at < Words
      <3>1. writer' = [writer EXCEPT !.at = writer.at + 1] /\ writer.at + 1 \in 1..Words
        BY <1>1, <2>1, AccountImageAssumption DEF Translate
      <3>2. writer' \in W /\ writer'.version = writer.version /\ writer'.pc = "translate"
        BY <1>1, <3>1
      <3> QED BY <3>2 DEF WriterType
    <2>2. CASE ~(writer.at < Words)
      <3>1. writer' = [writer EXCEPT !.pc = "write", !.at = 1] /\ 1 \in 1..Words
        BY <1>1, <2>2, AccountImageAssumption DEF Translate
      <3>2. writer' \in W /\ writer'.version = writer.version /\ writer'.pc = "write"
        BY <1>1, <3>1
      <3> QED BY <3>2 DEF WriterType
    <2> QED BY <2>1, <2>2
  <1> QED BY <1>1, <1>2, <1>3, <1>4, ShadowWordInv DEF Translate

(* A setter writes a word of the shadow. *)
LEMMA WriteShadowInv == ImageInv /\ WriteShadow => ImageInv'
  <1> SUFFICES ASSUME ImageInv, WriteShadow PROVE ImageInv'
    OBVIOUS
  <1>1. /\ writer \in [pc : {"translate", "write", "commit", "published"},
                       version : Nat, at : 1..Words]
        /\ writer.version \in Nat /\ writer.at \in 1..Words /\ writer.pc = "write"
    BY WriterFields DEF ImageInv, WriteShadow
  <1>2. Word(writes) \in StoredWord
    BY DEF Word, StoredWord, ImageInv, ImageTypes
  <1>3. /\ writer' \in WriterType /\ writer'.version = writer.version
        /\ writer'.pc \in {"translate", "write", "commit"}
    <2> DEFINE W == [pc : {"translate", "write", "commit", "published"},
                     version : Nat, at : 1..Words]
    <2>1. CASE writer.at < Words
      <3>1. writer' = [writer EXCEPT !.at = writer.at + 1] /\ writer.at + 1 \in 1..Words
        BY <1>1, <2>1, AccountImageAssumption DEF WriteShadow
      <3>2. writer' \in W /\ writer'.version = writer.version /\ writer'.pc = "write"
        BY <1>1, <3>1
      <3> QED BY <3>2 DEF WriterType
    <2>2. CASE ~(writer.at < Words)
      <3>1. writer' = [writer EXCEPT !.pc = "commit"]
        BY <2>2 DEF WriteShadow
      <3>2. writer' \in W /\ writer'.version = writer.version /\ writer'.pc = "commit"
        BY <1>1, <3>1
      <3> QED BY <3>2 DEF WriterType
    <2> QED BY <2>1, <2>2
  <1> QED BY <1>1, <1>2, <1>3, ShadowWordInv DEF WriteShadow

(* A commit publishes the shadow: no read in flight has the new number yet. *)
LEMMA CommitInv == ImageInv /\ Commit => ImageInv'
  <1> SUFFICES ASSUME ImageInv, Commit PROVE ImageInv'
    OBVIOUS
  <1>1. /\ writer \in [pc : {"translate", "write", "commit", "published"},
                       version : Nat, at : 1..Words]
        /\ writer.pc = "commit" /\ writer.version = seq /\ seq \in Nat
    BY WriterFields DEF ImageInv, VersionInv, Prepares, Commit, ImageTypes
  <1>2. seq' = seq + 1
    BY <1>1 DEF Commit
  <1>3. writer' \in WriterType /\ writer'.pc = "published" /\ writer'.version = seq
    BY <1>1 DEF Commit, WriterType
  <1>4. ImageTypes'
    BY <1>1, <1>2, <1>3 DEF Commit, ImageInv, ImageTypes
  <1>5. VersionInv'
    BY <1>2, <1>3 DEF VersionInv, Prepares
  <1>6. ReaderInv'
    <2>1. ASSUME NEW r \in Reader, Current(r), Fresh(r)' PROVE Fresh(r)
      <3>1. reader[r].pre \in Nat /\ reader[r].pre <= seq
        BY <1>1, <2>1, ReaderFields DEF ImageInv, ReaderInv, Current, Reading
      <3>2. reader[r].pre = seq + 1 \/ reader[r].pre + 1 = seq + 1
        BY <1>2, <2>1 DEF Fresh, Commit
      <3> QED BY <1>1, <3>1, <3>2 DEF Fresh
    <2>2. seq' >= seq
      BY <1>1, <1>2
    <2> QED BY <1>1, <1>3, <1>4, <2>1, <2>2, ReadersUntouched DEF Commit
  <1> QED BY <1>4, <1>5, <1>6 DEF ImageInv

(* A stored batch ends the transaction. *)
LEMMA BatchStoredInv == ImageInv /\ BatchStored => ImageInv'
  <1> SUFFICES ASSUME ImageInv, BatchStored PROVE ImageInv'
    OBVIOUS
  <1>1. writer' \in WriterType /\ writer'.pc = "idle"
    BY DEF BatchStored, WriterType
  <1>2. ImageTypes'
    BY <1>1 DEF BatchStored, ImageInv, ImageTypes
  <1>3. VersionInv'
    BY <1>1 DEF VersionInv, Prepares
  <1>4. \A r \in Reader : Fresh(r)' => Fresh(r)
    BY <1>1 DEF BatchStored, Fresh
  <1>5. seq' >= seq
    BY DEF BatchStored, ImageInv, ImageTypes
  <1>6. ReaderInv'
    BY <1>1, <1>2, <1>4, <1>5, ReadersUntouched DEF BatchStored
  <1> QED BY <1>2, <1>3, <1>6 DEF ImageInv

(* A rollback makes the previous copy active again: the reads that began       *)
(* before the publication are still of that copy.                              *)
LEMMA RollbackInv == ImageInv /\ Rollback => ImageInv'
  <1> SUFFICES ASSUME ImageInv, Rollback PROVE ImageInv'
    OBVIOUS
  <1>1. /\ writer.pc = "published" /\ writer.version \in Nat
        /\ seq = writer.version + 1 /\ seq' = seq - 1
    BY WriterFields DEF ImageInv, VersionInv, Rollback
  <1>2. writer' \in WriterType /\ writer'.pc = "failed"
    BY DEF Rollback, WriterType
  <1>3. ImageTypes'
    BY <1>1, <1>2 DEF Rollback, ImageInv, ImageTypes
  <1>4. VersionInv'
    BY <1>2 DEF VersionInv, Prepares
  <1>5. \A r \in Reader : Fresh(r)' => Fresh(r)
    BY <1>1, <1>2 DEF Rollback, Fresh
  <1>6. ReaderInv'
    BY <1>1, <1>2, <1>3, <1>5, ReadersUntouched DEF Rollback
  <1> QED BY <1>3, <1>4, <1>6 DEF ImageInv

(* A failed transaction leaves its writes in the shadow. *)
LEMMA AbandonShadowInv == ImageInv /\ AbandonShadow => ImageInv'
  <1> SUFFICES ASSUME ImageInv, AbandonShadow PROVE ImageInv'
    OBVIOUS
  <1>1. writer' \in WriterType /\ writer'.pc = "idle"
    BY DEF AbandonShadow, WriterType
  <1>2. ImageTypes'
    BY <1>1 DEF AbandonShadow, ImageInv, ImageTypes
  <1>3. VersionInv'
    BY <1>1 DEF VersionInv, Prepares
  <1>4. \A r \in Reader : Fresh(r)' => Fresh(r)
    BY <1>1 DEF AbandonShadow, Fresh
  <1>5. seq' >= seq
    BY DEF AbandonShadow, ImageInv, ImageTypes
  <1>6. ReaderInv'
    BY <1>1, <1>2, <1>4, <1>5, ReadersUntouched DEF AbandonShadow
  <1> QED BY <1>2, <1>3, <1>6 DEF ImageInv

-----------------------------------------------------------------------------
(* While a span changes hands nobody reads it for its new owner. *)
LEMMA NobodyReads ==
    ASSUME ImageInv, reader' = reader, account' \in Nat, account' >= account,
           \A r \in Reader : ~Current(r)'
    PROVE  ReaderInv'
  <1> SUFFICES ASSUME NEW r \in Reader
               PROVE  /\ reader[r].pc \in Reading => reader[r].account <= account'
                      /\ reader[r].pc = "read" => Len(reader[r].got) < Words
                      /\ reader[r].pc = "check" => Len(reader[r].got) = Words
    BY DEF ReaderInv
  <1>1. reader[r].pc \in Reading => reader[r].account \in Nat
    BY ReaderFields DEF ImageInv, Reading
  <1> QED BY <1>1 DEF ImageInv, ReaderInv, ImageTypes

(* A deletion gives the span to another account: the reads in flight are not   *)
(* of that account.                                                            *)
LEMMA DeleteInv == ImageInv /\ Delete => ImageInv'
  <1> SUFFICES ASSUME ImageInv, Delete PROVE ImageInv'
    OBVIOUS
  <1>1. writer' \in WriterType /\ writer'.pc = "header"
    BY DEF Delete, WriterType
  <1>2. account \in Nat /\ account' = account + 1
    BY DEF ImageInv, ImageTypes, Delete
  <1>3. ImageTypes'
    BY <1>1, <1>2 DEF Delete, ImageInv, ImageTypes
  <1>4. VersionInv'
    BY <1>1 DEF VersionInv, Prepares
  <1>5. ASSUME NEW r \in Reader PROVE ~Current(r)'
    <2>1. reader[r].pc \in Reading => reader[r].account \in Nat /\ reader[r].account <= account
      BY ReaderFields DEF ImageInv, ReaderInv, Reading
    <2> QED BY <1>2, <2>1 DEF Current, Delete
  <1>6. ReaderInv'
    BY <1>2, <1>5, NobodyReads DEF Delete
  <1> QED BY <1>3, <1>4, <1>6 DEF ImageInv

(* The header of the new account starts its sequence numbers over. *)
LEMMA SerializeHeaderInv == ImageInv /\ SerializeHeader => ImageInv'
  <1> SUFFICES ASSUME ImageInv, SerializeHeader PROVE ImageInv'
    OBVIOUS
  <1>1. writer' \in WriterType /\ writer'.pc = "serialize"
    BY AccountImageAssumption DEF SerializeHeader, WriterType
  <1>2. ImageTypes'
    BY <1>1 DEF SerializeHeader, ImageInv, ImageTypes
  <1>3. VersionInv'
    BY <1>1 DEF VersionInv, Prepares
  <1>4. \A r \in Reader : ~Current(r)'
    BY DEF SerializeHeader, ImageInv, ReaderInv, Current
  <1>5. account \in Nat /\ account' = account
    BY DEF SerializeHeader, ImageInv, ImageTypes
  <1>6. ReaderInv'
    BY <1>4, <1>5, NobodyReads DEF SerializeHeader
  <1> QED BY <1>2, <1>3, <1>6 DEF ImageInv

(* Its first copy is written while nobody can read it. *)
LEMMA SerializeInv == ImageInv /\ Serialize => ImageInv'
  <1> SUFFICES ASSUME ImageInv, Serialize PROVE ImageInv'
    OBVIOUS
  <1>1. /\ writer \in [pc : {"serialize"}, at : 1..Words]
        /\ writer.at \in 1..Words /\ writer.pc = "serialize"
    BY WriterFields DEF ImageInv, Serialize
  <1>2. writer' \in WriterType /\ writer'.pc \in {"serialize", "idle"}
    <2>1. CASE writer.at < Words
      <3>1. writer' = [writer EXCEPT !.at = writer.at + 1] /\ writer.at + 1 \in 1..Words
        BY <1>1, <2>1, AccountImageAssumption DEF Serialize
      <3>2. writer' \in [pc : {"serialize"}, at : 1..Words]
        BY <1>1, <3>1
      <3> QED BY <3>2 DEF WriterType
    <2>2. CASE ~(writer.at < Words)
      BY <2>2 DEF Serialize, WriterType
    <2> QED BY <2>1, <2>2
  <1>3. Word(writes) \in StoredWord
    BY DEF Word, StoredWord, ImageInv, ImageTypes
  <1>4. image' \in [1..2 -> [1..Words -> StoredWord]]
    BY <1>1, <1>3, OneWord DEF Serialize, ImageInv, ImageTypes
  <1>5. ImageTypes'
    BY <1>2, <1>4 DEF Serialize, ImageInv, ImageTypes
  <1>6. VersionInv'
    BY <1>2 DEF VersionInv, Prepares
  <1>7. \A r \in Reader : ~Current(r)'
    BY DEF Serialize, ImageInv, ReaderInv, Current
  <1>8. account \in Nat /\ account' = account
    BY DEF Serialize, ImageInv, ImageTypes
  <1>9. ReaderInv'
    BY <1>7, <1>8, NobodyReads DEF Serialize
  <1> QED BY <1>5, <1>6, <1>9 DEF ImageInv

-----------------------------------------------------------------------------
(* A step of one reader keeps the invariant when what it leaves that reader    *)
(* with satisfies it.                                                          *)
LEMMA OneReader ==
    ASSUME ImageInv, NEW r \in Reader, NEW next \in ReaderType,
           reader' = [reader EXCEPT ![r] = next],
           UNCHANGED <<seq, image, writer, account, writes>>,
           next.pc \in Reading => next.account <= account,
           next.pc = "read" => Len(next.got) < Words,
           next.pc = "check" => Len(next.got) = Words,
           next.pc \in Reading /\ next.account = account =>
              /\ writer.pc \notin {"header", "serialize"}
              /\ writer.pc # "failed" => next.pre <= seq
              /\ next.pre = seq \/ (writer.pc = "published" /\ next.pre + 1 = seq) =>
                    \A i \in 1..Len(next.got) : next.got[i] = image[ActiveCopy(next.pre)][i]
    PROVE  ImageInv'
  <1>1. reader \in [Reader -> ReaderType]
    BY DEF ImageInv, ImageTypes
  <1>2. reader'[r] = next /\ \A s \in Reader \ {r} : reader'[s] = reader[s]
    BY <1>1
  <1>3. reader' \in [Reader -> ReaderType]
    BY <1>1
  <1>4. ImageTypes'
    BY <1>3 DEF ImageInv, ImageTypes
  <1>5. VersionInv'
    BY DEF ImageInv, VersionInv, Prepares
  <1>6. ReaderInv'
    <2> SUFFICES ASSUME NEW s \in Reader
                 PROVE  /\ reader'[s].pc \in Reading => reader'[s].account <= account
                        /\ reader'[s].pc = "read" => Len(reader'[s].got) < Words
                        /\ reader'[s].pc = "check" => Len(reader'[s].got) = Words
                        /\ Current(s)' =>
                              /\ writer.pc \notin {"header", "serialize"}
                              /\ writer.pc # "failed" => reader'[s].pre <= seq
                              /\ Fresh(s)' => \A i \in 1..Len(reader'[s].got) :
                                    reader'[s].got[i] = image[ActiveCopy(reader'[s].pre)][i]
      BY DEF ReaderInv
    <2>1. CASE s = r
      BY <1>2, <2>1 DEF Current, Fresh
    <2>2. CASE s # r
      <3>1. reader'[s] = reader[s]
        BY <1>2, <2>2
      <3>2. Current(s)' = Current(s) /\ Fresh(s)' = Fresh(s)
        BY <3>1 DEF Current, Fresh
      <3> QED BY <3>1, <3>2 DEF ImageInv, ReaderInv
    <2> QED BY <2>1, <2>2
  <1> QED BY <1>4, <1>5, <1>6 DEF ImageInv

(* A read starts from the current sequence number, and with nothing. *)
LEMMA StartReadInv == ASSUME NEW r \in Reader PROVE ImageInv /\ StartRead(r) => ImageInv'
  <1> SUFFICES ASSUME ImageInv, StartRead(r) PROVE ImageInv'
    OBVIOUS
  <1> DEFINE next == [pc |-> "read", reads |-> reader[r].reads + 1, account |-> account,
                      pre |-> seq, got |-> <<>>]
  <1>1. seq \in Nat /\ account \in Nat /\ reader[r].reads + 1 \in Nat
    BY ReaderFields DEF ImageInv, ImageTypes
  <1>2. <<>> \in Seq(StoredWord) /\ Len(<<>>) = 0
    OBVIOUS
  <1>3. next \in ReaderType
    BY <1>1, <1>2 DEF ReaderType, Reading
  <1>4. reader' = [reader EXCEPT ![r] = next]
    BY DEF StartRead
  <1>5. next.pc = "read" /\ next.account = account /\ next.pre = seq /\ next.got = <<>>
    OBVIOUS
  <1>6. writer.pc \notin {"header", "serialize"} /\ UNCHANGED <<seq, image, writer, account, writes>>
    BY DEF StartRead
  <1> HIDE DEF next
  <1>7. Len(next.got) = 0 /\ Len(next.got) < Words
    BY <1>2, <1>5, AccountImageAssumption
  <1>8. \A i \in 1..Len(next.got) : next.got[i] = image[ActiveCopy(next.pre)][i]
    BY <1>7
  <1>9. next.pre <= seq /\ next.account <= account /\ next.pc # "check"
    BY <1>1, <1>5
  <1> QED BY <1>3, <1>4, <1>6, <1>7, <1>8, <1>9, OneReader

(* A reader takes the next word of the copy its number selects. *)
LEMMA ReadWordInv == ASSUME NEW r \in Reader PROVE ImageInv /\ ReadWord(r) => ImageInv'
  <1> SUFFICES ASSUME ImageInv, ReadWord(r) PROVE ImageInv'
    OBVIOUS
  <1>1. /\ reader[r] \in [pc : Reading \cup {"done"}, reads : Nat, account : Nat,
                          pre : Nat, got : Seq(StoredWord)]
        /\ reader[r].got \in Seq(StoredWord) /\ Len(reader[r].got) \in Nat
        /\ reader[r].pc = "read" /\ reader[r].pre \in Nat
    BY ReaderFields DEF ImageInv, ReadWord
  <1>2. /\ Len(reader[r].got) < Words /\ reader[r].account <= account
        /\ Current(r) =>
              /\ writer.pc \notin {"header", "serialize"}
              /\ writer.pc # "failed" => reader[r].pre <= seq
              /\ Fresh(r) => \A i \in 1..Len(reader[r].got) :
                                reader[r].got[i] = image[ActiveCopy(reader[r].pre)][i]
    BY <1>1 DEF ImageInv, ReaderInv, Reading
  <1> DEFINE n == Len(reader[r].got) + 1
             w == image[ActiveCopy(reader[r].pre)][n]
             got == Append(reader[r].got, w)
             at == IF n = Words THEN "check" ELSE "read"
             next == [reader[r] EXCEPT !.got = got, !.pc = at]
  <1>3. n \in 1..Words /\ ActiveCopy(reader[r].pre) \in 1..2
    BY <1>1, <1>2, AccountImageAssumption, CopyFacts
  <1>4. w \in StoredWord
    BY <1>3 DEF ImageInv, ImageTypes
  <1>5. /\ got \in Seq(StoredWord) /\ Len(got) = n /\ got[n] = w
        /\ \A i \in 1..Len(reader[r].got) : got[i] = reader[r].got[i]
    BY <1>1, <1>4
  <1>6. reader' = [reader EXCEPT ![r] = next]
    BY DEF ReadWord, ImageInv, ImageTypes
  <1>7. at \in Reading /\ (at = "read" => n < Words) /\ (at = "check" => n = Words)
    BY <1>3, AccountImageAssumption DEF Reading
  <1>8. UNCHANGED <<seq, image, writer, account, writes>>
    BY DEF ReadWord
  <1>9. \A i \in 1..n : i = n \/ i \in 1..Len(reader[r].got)
    BY <1>1
  <1> HIDE DEF got, at
  <1>10. /\ next \in ReaderType /\ next.pc = at /\ next.got = got
         /\ next.account = reader[r].account /\ next.pre = reader[r].pre
    BY <1>1, <1>5, <1>7 DEF ReaderType
  <1> HIDE DEF next
  <1>11. ASSUME next.account = account
         PROVE  /\ writer.pc \notin {"header", "serialize"}
                /\ writer.pc # "failed" => next.pre <= seq
                /\ next.pre = seq \/ (writer.pc = "published" /\ next.pre + 1 = seq) =>
                      \A i \in 1..Len(next.got) : next.got[i] = image[ActiveCopy(next.pre)][i]
    <2>1. Current(r)
      BY <1>1, <1>10, <1>11 DEF Current, Reading
    <2>2. ASSUME Fresh(r), NEW i \in 1..n
          PROVE  got[i] = image[ActiveCopy(reader[r].pre)][i]
      BY <1>2, <1>5, <1>9, <2>1, <2>2
    <2> HIDE DEF n
    <2> QED BY <1>2, <1>5, <1>10, <2>1, <2>2 DEF Fresh
  <1> HIDE DEF n
  <1>12. next.pc \in Reading => next.account <= account
    BY <1>2, <1>10
  <1> QED BY <1>5, <1>6, <1>7, <1>8, <1>10, <1>11, <1>12, OneReader

(* A check ends the read, or starts it over from the current number. *)
LEMMA CheckReadInv == ASSUME NEW r \in Reader PROVE ImageInv /\ CheckRead(r) => ImageInv'
  <1> SUFFICES ASSUME ImageInv, CheckRead(r) PROVE ImageInv'
    OBVIOUS
  <1>1. /\ reader[r] \in [pc : Reading \cup {"done"}, reads : Nat, account : Nat,
                          pre : Nat, got : Seq(StoredWord)]
        /\ reader[r].pc = "check" /\ seq \in Nat
    BY ReaderFields DEF ImageInv, ImageTypes, CheckRead
  <1>2. UNCHANGED <<seq, image, writer, account, writes>>
    BY DEF CheckRead
  <1>3. CASE reader[r].pre = seq
    <2> DEFINE next == [reader[r] EXCEPT !.pc = "done"]
    <2>1. reader' = [reader EXCEPT ![r] = next]
      BY <1>3 DEF CheckRead
    <2>2. next \in ReaderType /\ next.pc = "done"
      BY <1>1 DEF ReaderType
    <2> HIDE DEF next
    <2> QED BY <1>2, <2>1, <2>2, OneReader DEF Reading
  <1>4. CASE reader[r].pre # seq
    <2> DEFINE next == [reader[r] EXCEPT !.pc = "read", !.pre = seq, !.got = <<>>]
    <2>1. reader' = [reader EXCEPT ![r] = next]
      BY <1>4 DEF CheckRead
    <2>2. <<>> \in Seq(StoredWord) /\ Len(<<>>) = 0
      OBVIOUS
    <2>3. /\ next \in ReaderType /\ next.pc = "read" /\ next.pre = seq /\ next.got = <<>>
          /\ next.account = reader[r].account
      BY <1>1, <2>2 DEF ReaderType, Reading
    <2> HIDE DEF next
    <2>4. Len(next.got) = 0 /\ Len(next.got) < Words
      BY <2>2, <2>3, AccountImageAssumption
    <2>5. \A i \in 1..Len(next.got) : next.got[i] = image[ActiveCopy(next.pre)][i]
      BY <2>4
    <2>6. reader[r].account <= account /\
          (reader[r].account = account => writer.pc \notin {"header", "serialize"})
      BY <1>1 DEF ImageInv, ReaderInv, Current, Reading
    <2>7. next.pre <= seq /\ next.pc # "check"
      BY <1>1, <2>3
    <2> QED BY <1>2, <2>1, <2>3, <2>4, <2>5, <2>6, <2>7, OneReader
  <1> QED BY <1>3, <1>4

(* Every step keeps the invariant. *)
LEMMA ImageStepInv == ImageInv /\ [ImageNext]_imageVars => ImageInv'
  <1> SUFFICES ASSUME ImageInv, [ImageNext]_imageVars PROVE ImageInv'
    OBVIOUS
  <1>1. CASE Write
    BY <1>1, LoadViewInv, TranslateInv, WriteShadowInv, CommitInv, BatchStoredInv, RollbackInv,
       AbandonShadowInv DEF Write
  <1>2. CASE Reuse
    BY <1>2, DeleteInv, SerializeHeaderInv, SerializeInv DEF Reuse
  <1>3. CASE \E r \in Reader : ImageReaderStep(r)
    BY <1>3, StartReadInv, ReadWordInv, CheckReadInv DEF ImageReaderStep
  <1>4. CASE UNCHANGED imageVars
    BY <1>4 DEF imageVars, ImageInv, ImageTypes, VersionInv, Prepares, ReaderInv, Current, Fresh
  <1> QED BY <1>1, <1>2, <1>3, <1>4 DEF ImageNext

-----------------------------------------------------------------------------
(* An accepted read is the active image: the copy has as many words as it,     *)
(* and the same ones.                                                          *)
LEMMA AcceptsActive ==
    ASSUME ImageInv, NEW r \in Reader, CheckRead(r), reader'[r].pc = "done",
           reader[r].account = account
    PROVE  reader[r].got = image[ActiveCopy(seq)]
  <1>1. /\ reader[r].pc = "check" /\ reader[r].got \in Seq(StoredWord) /\ seq \in Nat
        /\ reader[r] \in [pc : Reading \cup {"done"}, reads : Nat, account : Nat,
                          pre : Nat, got : Seq(StoredWord)]
    BY ReaderFields DEF ImageInv, ImageTypes, CheckRead
  <1>2. reader[r].pre = seq
    <2> SUFFICES ASSUME reader[r].pre # seq PROVE FALSE
      OBVIOUS
    <2>1. reader'[r] = [reader[r] EXCEPT !.pc = "read", !.pre = seq, !.got = <<>>]
      BY DEF CheckRead, ImageInv, ImageTypes
    <2> QED BY <1>1, <2>1
  <1>3. Current(r) /\ Fresh(r)
    BY <1>1, <1>2 DEF Current, Fresh, Reading
  <1>4. /\ Len(reader[r].got) = Words
        /\ \A i \in 1..Len(reader[r].got) : reader[r].got[i] = image[ActiveCopy(seq)][i]
    BY <1>1, <1>2, <1>3 DEF ImageInv, ReaderInv
  <1>5. image[ActiveCopy(seq)] \in [1..Words -> StoredWord]
    BY <1>1, CopyFacts DEF ImageInv, ImageTypes
  <1>6. reader[r].got \in [1..Words -> StoredWord]
    BY <1>1, <1>4
  <1> QED BY <1>4, <1>5, <1>6

(* A word written into the shadow leaves the active image as it is. *)
LEMMA ActiveKept ==
    ASSUME ImageInv, Translate \/ WriteShadow
    PROVE  image'[ActiveCopy(seq)] = image[ActiveCopy(seq)]
  <1>1. writer.version = seq /\ seq \in Nat
    BY DEF ImageInv, VersionInv, Prepares, ImageTypes, Translate, WriteShadow
  <1>2. ActiveCopy(seq) \in 1..2 /\ ActiveCopy(seq) # ShadowCopy(seq)
    BY <1>1, CopyFacts
  <1> QED BY <1>1, <1>2 DEF ImageInv, ImageTypes, Translate, WriteShadow

(* Only a check ends a read. *)
LEMMA OnlyChecksEnd ==
    ASSUME ImageInv, NEW r \in Reader, NEW s \in Reader, ImageReaderStep(s),
           reader[r].pc = "check", reader'[r].pc = "done"
    PROVE  r = s /\ CheckRead(r)
  <1>1. reader \in [Reader -> ReaderType]
    BY DEF ImageInv, ImageTypes
  <1>2. r = s
    BY <1>1 DEF ImageReaderStep, StartRead, ReadWord, CheckRead
  <1> QED BY <1>2 DEF ImageReaderStep, StartRead, ReadWord

(* Every step accepts only committed images and keeps the active one. *)
LEMMA ImageStepCommitted == ImageInv /\ ImageNext => KeepsCommitted
  <1> SUFFICES ASSUME ImageInv, ImageNext PROVE KeepsCommitted
    OBVIOUS
  <1>1. CASE Write \/ Reuse
    <2>1. reader' = reader
      BY <1>1 DEF Write, Reuse, LoadView, Translate, WriteShadow, Commit, BatchStored, Rollback,
                  AbandonShadow, Delete, SerializeHeader, Serialize
    <2>2. (seq' = seq /\ writer.pc # "serialize") => image' = image \/ Translate \/ WriteShadow
      BY <1>1 DEF Write, Reuse, LoadView, Commit, BatchStored, Rollback,
                  AbandonShadow, Delete, SerializeHeader, Serialize
    <2> QED BY <2>1, <2>2, ActiveKept DEF KeepsCommitted
  <1>2. CASE \E s \in Reader : ImageReaderStep(s)
    <2>1. image' = image
      BY <1>2 DEF ImageReaderStep, StartRead, ReadWord, CheckRead
    <2> QED BY <1>2, <2>1, OnlyChecksEnd, AcceptsActive DEF KeepsCommitted
  <1> QED BY <1>1, <1>2 DEF ImageNext

-----------------------------------------------------------------------------
(* The behaviours of an image in storage (Accounts runs this next to the       *)
(* sequential view of the same code).                                          *)
ImageSpec == ImageInit /\ [][ImageNext]_imageVars

(* Reads, publications, rollbacks and changes of hands keep the invariant.     *)
THEOREM ImageInvariant == ImageSpec => []ImageInv
  <1>1. ImageInit => ImageInv
    BY ImageInitInv
  <1>2. ImageInv /\ [ImageNext]_imageVars => ImageInv'
    BY ImageStepInv
  <1> QED BY <1>1, <1>2, PTL DEF ImageSpec

(* Lock-free readers (AccountLoader::read) accept only what is committed at    *)
(* the moment of their check, and writers never touch the active copy.         *)
THEOREM ReadsCommitted == ImageSpec => ReadsAreCommitted
  <1>1. ImageInv /\ [ImageNext]_imageVars => [KeepsCommitted]_imageVars
    BY ImageStepCommitted
  <1> QED BY <1>1, ImageInvariant, PTL DEF ImageSpec, ReadsAreCommitted
=============================================================================
