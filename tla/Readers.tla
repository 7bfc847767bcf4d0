------------------------------ MODULE Readers ------------------------------
(***************************************************************************)
(* Reader admission for relocation of the mapped account store             *)
(* (accountsdb/src/readers.rs): enter() and the drop of a ReadGuard on the *)
(* reader side, pause() and the drop of a Pause on the compactor side.     *)
(* Any thread may do either.                                               *)
(*                                                                         *)
(* The Linux protocol puts only a compiler fence between the announcement  *)
(* in the thread's slot and the load of the gate, so the store may still   *)
(* be on its way when the gate is read: every thread has a FIFO store      *)
(* buffer for its slot, flushed at any time, by the release of a mutex, or *)
(* by the compactor's membarrier, which reaches the threads one by one.    *)
(***************************************************************************)
EXTENDS Integers, Sequences, FiniteSets

CONSTANTS Thread,     \* the threads
          MaxDepth,   \* bound on nested read scopes of a thread
          BufferSize, \* stores a thread's buffer holds
          MaxPauses,  \* bound on pauses that are started
          NoThread    \* nobody

ASSUME ReadersAssumption ==
    /\ MaxDepth \in Nat \ {0} /\ BufferSize \in Nat \ {0} /\ MaxPauses \in Nat
    /\ NoThread \notin Thread

VARIABLES
    pc,           \* where each thread is
    registered,   \* threads that own a slot
    depth,        \* the slot of each thread, as memory has it
    buffer,       \* the slot stores of each thread that memory lacks
    guards,       \* admitted read scopes of each thread
    closed,       \* the admission gate
    maintenance,  \* owner of the maintenance mutex
    idle,         \* owner of the idle mutex
    unfenced,     \* threads the membarrier in progress has not reached
    unscanned,    \* slots the scan in progress has not looked at
    sleeping,     \* the compactor waiting on the condition variable
    pauses        \* pauses started

vars == <<pc, registered, depth, buffer, guards, closed, maintenance, idle,
          unfenced, unscanned, sleeping, pauses>>

Init ==
    /\ pc = [t \in Thread |-> "outside"]
    /\ registered = {}
    /\ depth = [t \in Thread |-> 0]
    /\ buffer = [t \in Thread |-> <<>>]
    /\ guards = [t \in Thread |-> 0]
    /\ closed = FALSE
    /\ maintenance = NoThread
    /\ idle = NoThread
    /\ unfenced = {} /\ unscanned = {}
    /\ sleeping = NoThread
    /\ pauses = 0

(* A thread sees its own last store. *)
OwnDepth(t) == IF buffer[t] = <<>> THEN depth[t] ELSE buffer[t][Len(buffer[t])]

Store(t, value) ==
    /\ Len(buffer[t]) < BufferSize
    /\ buffer' = [buffer EXCEPT ![t] = Append(@, value)]

(* The buffered stores of t reach memory. *)
FlushAll(t) ==
    /\ depth' = [depth EXCEPT ![t] = OwnDepth(t)]
    /\ buffer' = [buffer EXCEPT ![t] = <<>>]

Goto(t, label) == pc' = [pc EXCEPT ![t] = label]

(* The oldest buffered store of t reaches memory. *)
Flush(t) ==
    /\ buffer[t] # <<>>
    /\ depth' = [depth EXCEPT ![t] = Head(buffer[t])]
    /\ buffer' = [buffer EXCEPT ![t] = Tail(@)]
    /\ UNCHANGED <<pc, registered, guards, closed, maintenance, idle, unfenced,
                   unscanned, sleeping, pauses>>

-----------------------------------------------------------------------------
(* Entering a read scope. *)

(* enter(): the slot is there, or is registered under the maintenance mutex. *)
Enter(t) ==
    /\ pc[t] = "outside" /\ guards[t] < MaxDepth
    /\ Goto(t, "enter")
    /\ t \in registered \/ maintenance = NoThread
    /\ registered' = registered \cup {t}
    /\ UNCHANGED <<depth, buffer, guards, closed, maintenance, idle, unfenced,
                   unscanned, sleeping, pauses>>

(* Announces the scope; a nested scope inherits the outer admission. *)
Announce(t) ==
    /\ pc[t] = "enter"
    /\ Store(t, OwnDepth(t) + 1)
    /\ IF OwnDepth(t) # 0
       THEN Goto(t, "outside") /\ guards' = [guards EXCEPT ![t] = @ + 1]
       ELSE Goto(t, "gate") /\ UNCHANGED guards
    /\ UNCHANGED <<registered, depth, closed, maintenance, idle, unfenced, unscanned,
                   sleeping, pauses>>

(* Reads the gate: admitted, or withdraws. *)
ReadGate(t) ==
    /\ pc[t] = "gate"
    /\ IF closed
       THEN Goto(t, "withdraw") /\ UNCHANGED guards
       ELSE Goto(t, "outside") /\ guards' = [guards EXCEPT ![t] = @ + 1]
    /\ UNCHANGED <<registered, depth, buffer, closed, maintenance, idle, unfenced,
                   unscanned, sleeping, pauses>>

(* Waits for maintenance to end, then tries again. *)
AwaitMaintenance(t) ==
    /\ pc[t] = "await" /\ maintenance = NoThread
    /\ FlushAll(t)
    /\ Goto(t, "enter")
    /\ UNCHANGED <<registered, guards, closed, maintenance, idle, unfenced, unscanned,
                   sleeping, pauses>>

-----------------------------------------------------------------------------
(* Leaving a read scope: drop of a ReadGuard, also when withdrawing. *)

Leave(t) ==
    /\ \/ pc[t] = "outside" /\ guards[t] > 0
            /\ guards' = [guards EXCEPT ![t] = @ - 1]
            /\ Goto(t, IF OwnDepth(t) = 1 THEN "left" ELSE "outside")
       \/ pc[t] = "withdraw" /\ UNCHANGED guards /\ Goto(t, "withdrawn")
    /\ Store(t, OwnDepth(t) - 1)
    /\ UNCHANGED <<registered, depth, closed, maintenance, idle, unfenced, unscanned,
                   sleeping, pauses>>

(* The last exit reads the gate. *)
CheckGate(t) ==
    /\ \/ pc[t] = "left" /\ Goto(t, IF closed THEN "notify" ELSE "outside")
       \/ pc[t] = "withdrawn" /\ Goto(t, IF closed THEN "notify_await" ELSE "await")
    /\ UNCHANGED <<registered, depth, buffer, guards, closed, maintenance, idle,
                   unfenced, unscanned, sleeping, pauses>>

(* Mutant of Notify: takes the idle mutex and wakes nobody. *)
NotifyNobody(t) ==
    /\ pc[t] \in {"notify", "notify_await"} /\ idle = NoThread
    /\ FlushAll(t)
    /\ pc' = [pc EXCEPT ![t] = IF @ = "notify" THEN "outside" ELSE "await"]
    /\ UNCHANGED <<registered, guards, closed, maintenance, idle, unfenced, unscanned,
                   sleeping, pauses>>

(* notify(): under the idle mutex, wakes the compactor if it sleeps. *)
Notify(t) ==
    /\ pc[t] \in {"notify", "notify_await"} /\ idle = NoThread
    /\ FlushAll(t)
    /\ pc' = [pc EXCEPT ![t] = IF @ = "notify" THEN "outside" ELSE "await"]
    /\ sleeping' = NoThread
    /\ UNCHANGED <<registered, guards, closed, maintenance, idle, unfenced, unscanned,
                   pauses>>

-----------------------------------------------------------------------------
(* pause(). *)

(* Takes the maintenance mutex.  From an active reader scope the call is    *)
(* refused (WouldBlock) and changes nothing.                                *)
LockMaintenance(t) ==
    /\ pc[t] = "outside" /\ pauses < MaxPauses
    /\ ~(t \in registered /\ OwnDepth(t) # 0)
    /\ maintenance = NoThread
    /\ maintenance' = t
    /\ pauses' = pauses + 1
    /\ Goto(t, "close")
    /\ UNCHANGED <<registered, depth, buffer, guards, closed, idle, unfenced,
                   unscanned, sleeping>>

(* Mutant of CloseGate: no membarrier after the gate is closed. *)
CloseGateNoFence(t) ==
    /\ pc[t] = "close"
    /\ closed' = TRUE
    /\ unfenced' = {}
    /\ Goto(t, "membarrier")
    /\ UNCHANGED <<registered, depth, buffer, guards, maintenance, idle, unscanned,
                   sleeping, pauses>>

(* Closes the gate and starts the membarrier. *)
CloseGate(t) ==
    /\ pc[t] = "close"
    /\ closed' = TRUE
    /\ unfenced' = Thread
    /\ Goto(t, "membarrier")
    /\ UNCHANGED <<registered, depth, buffer, guards, maintenance, idle, unscanned,
                   sleeping, pauses>>

(* The membarrier reaches thread u. *)
Fence(u) ==
    /\ u \in unfenced
    /\ FlushAll(u)
    /\ unfenced' = unfenced \ {u}
    /\ UNCHANGED <<pc, registered, guards, closed, maintenance, idle, unscanned,
                   sleeping, pauses>>

(* Takes the idle mutex and starts the scan of the slots. *)
LockIdle(t) ==
    /\ pc[t] = "membarrier" /\ unfenced = {} /\ idle = NoThread
    /\ idle' = t
    /\ unscanned' = registered
    /\ Goto(t, "scan")
    /\ UNCHANGED <<registered, depth, buffer, guards, closed, maintenance, unfenced,
                   sleeping, pauses>>

(* Looks at one slot: an active one ends the scan and the compactor waits. *)
Scan(t, u) ==
    /\ pc[t] = "scan" /\ u \in unscanned
    /\ IF depth[u] = 0
       THEN /\ unscanned' = unscanned \ {u}
            /\ UNCHANGED <<pc, idle, sleeping>>
       ELSE /\ unscanned' = {}
            /\ idle' = NoThread /\ sleeping' = t
            /\ Goto(t, "wait")
    /\ UNCHANGED <<registered, depth, buffer, guards, closed, maintenance, unfenced,
                   pauses>>

(* Woken: takes the idle mutex again and scans again. *)
Wake(t) ==
    /\ pc[t] = "wait" /\ sleeping # t /\ idle = NoThread
    /\ idle' = t
    /\ unscanned' = registered
    /\ Goto(t, "scan")
    /\ UNCHANGED <<registered, depth, buffer, guards, closed, maintenance, unfenced,
                   sleeping, pauses>>

(* All slots were inactive: relocation may begin. *)
Paused(t) ==
    /\ pc[t] = "scan" /\ unscanned = {}
    /\ idle' = NoThread
    /\ Goto(t, "relocate")
    /\ UNCHANGED <<registered, depth, buffer, guards, closed, maintenance, unfenced,
                   unscanned, sleeping, pauses>>

(* Drop of the Pause, after relocation or when the membarrier failed:       *)
(* reopens the gate, then releases the mutex.                               *)
Reopen(t) ==
    /\ pc[t] = "relocate" \/ (pc[t] = "membarrier" /\ unfenced = Thread)
    /\ closed' = FALSE
    /\ unfenced' = {}
    /\ Goto(t, "unlock")
    /\ UNCHANGED <<registered, depth, buffer, guards, maintenance, idle, unscanned,
                   sleeping, pauses>>

Unlock(t) ==
    /\ pc[t] = "unlock"
    /\ maintenance' = NoThread
    /\ Goto(t, "outside")
    /\ UNCHANGED <<registered, depth, buffer, guards, closed, idle, unfenced,
                   unscanned, sleeping, pauses>>

-----------------------------------------------------------------------------
(* Steps a thread takes once it has called enter(), dropped a guard or      *)
(* called pause(), and the end of the scopes it opened.                     *)
ReaderStep(t) ==
    \/ Announce(t) \/ ReadGate(t) \/ AwaitMaintenance(t)
    \/ Leave(t) \/ CheckGate(t) \/ Notify(t)

CompactorStep(t) ==
    \/ CloseGate(t) \/ LockIdle(t) \/ (\E u \in Thread : Scan(t, u))
    \/ Wake(t) \/ Paused(t) \/ Reopen(t) \/ Unlock(t)

Next ==
    \/ \E t \in Thread : \/ Enter(t) \/ ReaderStep(t)
                         \/ LockMaintenance(t) \/ CompactorStep(t)
                         \/ Flush(t) \/ Fence(t)

Spec == Init /\ [][Next]_vars

(***************************************************************************)
(* Every thread keeps running, stores reach memory and the membarrier      *)
(* completes.  Nothing makes a thread enter a scope or start a pause.      *)
(***************************************************************************)
Fairness ==
    \A t \in Thread : /\ WF_vars(ReaderStep(t) \/ CompactorStep(t))
                      /\ WF_vars(Flush(t))
                      /\ WF_vars(Fence(t))

FairSpec == Spec /\ Fairness

-----------------------------------------------------------------------------
ReaderLabels == {"outside", "enter", "gate", "withdraw", "withdrawn", "await",
                 "left", "notify", "notify_await"}
CompactorLabels == {"close", "membarrier", "scan", "wait", "relocate", "unlock"}

(* Types of the slots, buffers, gate and mutexes; a slot never goes below zero *)
(* although enter and drop only add and subtract.                              *)
TypeOK ==
    /\ pc \in [Thread -> ReaderLabels \cup CompactorLabels]
    /\ registered \subseteq Thread
    /\ depth \in [Thread -> Nat]
    /\ buffer \in [Thread -> Seq(Nat)]
    /\ guards \in [Thread -> Nat]
    /\ closed \in BOOLEAN
    /\ maintenance \in Thread \cup {NoThread}
    /\ idle \in Thread \cup {NoThread}
    /\ unfenced \subseteq Thread
    /\ unscanned \subseteq Thread
    /\ sleeping \in Thread \cup {NoThread}
    /\ pauses \in Nat

(***************************************************************************)
(* While a thread relocates the store no thread is inside a read scope,    *)
(* although announcements may have been delayed past the load of the gate. *)
(***************************************************************************)
RelocationIsExclusive ==
    \A t, u \in Thread : pc[t] = "relocate" => guards[u] = 0 /\ (u # t => pc[u] # "relocate")

(* Every outermost read scope ends. *)
ScopesEnd == \A t \in Thread : []<>(guards[t] = 0)

(***************************************************************************)
(* If scopes end, a pause that was started gets to relocate or fails, and  *)
(* a thread that called enter() is admitted.  Stated of one thread: they   *)
(* are interchangeable.                                                    *)
(***************************************************************************)
ReadersProgress ==
    LET t == CHOOSE u \in Thread : TRUE
    IN  ScopesEnd => /\ pc[t] = "close" ~> pc[t] \in {"relocate", "unlock"}
                     /\ pc[t] = "enter" ~> guards[t] > 0
=============================================================================
