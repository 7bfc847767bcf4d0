-------------------------- MODULE SequencerProofs ---------------------------
(***************************************************************************)
(* Theorems about the sequencer and its executor pool, for every set of    *)
(* executors, accounts and transactions.  The sequencer drives the table   *)
(* as TableNext allows, so the table keeps TableInv; SequencerLemmas,      *)
(* ExecutorProofs and LedgerProofs keep the rest of the invariant.         *)
(***************************************************************************)
EXTENDS ExecutorProofs, LedgerProofs, OrderingTableProofs

(* The lowest executor of a set is one of it. *)
LEMMA MinOf ==
    ASSUME NEW S, S \subseteq Nat, S # {}
    PROVE  Min(S) \in S
  <1> DEFINE R == OpToRel(<, Nat)
  <1>1. PICK x \in S : \A y \in S : ~(<<y, x>> \in R)
    <2> HIDE DEF R
    <2> QED BY NatLessThanWellFounded, WFMin, Zenon DEF R
  <1>2. \A y \in S : ~(y < x)
    BY <1>1 DEF OpToRel
  <1>3. \E m \in S : \A y \in S : m =< y
    BY <1>2
  <1> QED BY <1>3 DEF Min

(* With nothing outstanding every ticket is done. *)
LEMMA NothingOutstanding ==
    ASSUME TableInv, outstanding = 0
    PROVE  /\ taken = {} /\ \A t \in Tickets : Done(t)
  <1>1. Unfinished \subseteq Tickets
    BY DEF Unfinished
  <1>2. IsFiniteSet(Unfinished) /\ Cardinality(Unfinished) = 0
    BY <1>1, TicketSetsFinite DEF TableInv, NothingLost
  <1>3. Unfinished = {}
    BY <1>2, FS_EmptySet
  <1> QED BY <1>3 DEF TableInv, NothingLost, Unfinished

(* Every step of the sequencer and its threads is a step of the table, or   *)
(* leaves it alone: what is completed was handed out, and the table is reset *)
(* only with nothing outstanding.                                            *)
LEMMA SequencerDrivesTable == SequencerInv /\ [Next]_vars => [TableNext]_tableVars
  <1> SUFFICES ASSUME SequencerInv, [Next]_vars PROVE TableNext \/ UNCHANGED tableVars
    OBVIOUS
  <1>1. CASE \E req \in Request : Schedule(req)
    BY <1>1 DEF Schedule, TableNext
  <1>2. CASE Dispatch
    BY <1>2 DEF Dispatch, TableNext
  <1>3. CASE HandleCompleted
    BY <1>3, HandleCompletedPoolInv DEF HandleCompleted, TableNext
  <1>4. CASE Drained
    BY <1>4 DEF Drained, TableNext
  <1>5. CASE \/ \E kind \in {"block", "checkpoint"} : Finalize(kind)
             \/ ReplayMismatch \/ Barrier \/ Shutdown \/ Release
    BY <1>5 DEF Finalize, ReplayMismatch, Barrier, Shutdown, Release
  <1>6. CASE \/ DispatchDone \/ HandleFailed \/ SendTransition \/ AppendBlock
             \/ SimulatorParked \/ SimulatorLost \/ Cancelled \/ Join
    BY <1>6 DEF DispatchDone, HandleFailed, SendTransition, AppendBlock, SimulatorParked,
       SimulatorLost, Cancelled, Join
  <1>7. CASE \E e \in Executors : ExecutorStep(e) \/ Fail(e)
    BY <1>7 DEF ExecutorStep, Receive, Commit, Exit, Fail
  <1>8. CASE Simulate \/ SimulatorStep \/ SimStop \/ Signal \/ Stopped \/ UNCHANGED vars
    BY <1>8 DEF Simulate, SimulatorStep, SimReceive, SimResume, SimStop, Signal, Stopped, vars
  <1> QED BY <1>1, <1>2, <1>3, <1>4, <1>5, <1>6, <1>7, <1>8 DEF Next, SequencerStep

(* What a completion, a registration and a drained epoch do to the tickets. *)
LEMMA HandleCompletedStep == SequencerInv /\ HandleCompleted => ThreadsInv'
  <1> SUFFICES ASSUME SequencerInv, HandleCompleted PROVE ThreadsInv'
    OBVIOUS
  <1>1. Head(events).ticket \in taken /\ Complete(Head(events).ticket)
    BY HandleCompletedPoolInv DEF HandleCompleted
  <1>2. Completed(Head(events).ticket)
    BY <1>1, CompleteEffect DEF SequencerInv
  <1>3. /\ Tickets' = Tickets /\ Head(events).ticket \in Unfinished
        /\ Unfinished' = Unfinished \ {Head(events).ticket}
    BY <1>2 DEF Completed
  <1> QED BY <1>3, HandleCompletedInv

LEMMA ScheduleStep == ASSUME NEW req \in Request PROVE SequencerInv /\ Schedule(req) => ThreadsInv'
  <1> SUFFICES ASSUME SequencerInv, Schedule(req) PROVE ThreadsInv'
    OBVIOUS
  <1>1. PICK n : n = Len(nodes) + 1
    OBVIOUS
  <1>2. Registered(req, n)
    BY <1>1, RegisterEffect DEF SequencerInv, Schedule
  <1>3. Tickets' = Tickets \cup {n} /\ Unfinished' = Unfinished \cup {n}
    BY <1>2 DEF Registered
  <1> QED BY <1>1, <1>3, ScheduleInv

LEMMA DrainedStep == SequencerInv /\ Drained => ThreadsInv'
  BY NothingOutstanding, DrainedInv DEF SequencerInv, Drained

(* A ticket or a boundary is sent to an executor of the set it is taken from. *)
LEMMA SendStep == SequencerInv /\ (Dispatch \/ SendTransition) => ThreadsInv'
  <1> SUFFICES ASSUME SequencerInv, Dispatch \/ SendTransition PROVE ThreadsInv'
    OBVIOUS
  <1>1. CASE Dispatch
    <2>1. available \subseteq Nat /\ available # {}
      BY <1>1, SequencerAssumption DEF Dispatch, SequencerInv, PoolInv, PoolTypes
    <2> QED BY <1>1, <2>1, MinOf, DispatchInv
  <1>2. CASE SendTransition
    <2>1. unsent \subseteq Nat /\ unsent # {}
      BY <1>2, SequencerAssumption DEF SendTransition, SequencerInv, ControlInv
    <2> QED BY <1>2, <2>1, MinOf, SendTransitionInv
  <1> QED BY <1>1, <1>2

(* Every step of a thread keeps what is not the table's of the invariant. *)
LEMMA ThreadsStepInv == SequencerInv /\ [Next]_vars => ThreadsInv'
  <1> SUFFICES ASSUME SequencerInv, [Next]_vars PROVE ThreadsInv'
    OBVIOUS
  <1>1. CASE \E req \in Request : Schedule(req)
    BY <1>1, ScheduleStep
  <1>2. CASE \E kind \in {"block", "checkpoint"} : Finalize(kind)
    BY <1>2, FinalizeInv
  <1>3. CASE ReplayMismatch \/ Barrier \/ Shutdown
    BY <1>3, OtherBoundaryInv
  <1>4. CASE SequencerStep
    BY <1>4, SendStep, DispatchDoneInv, HandleCompletedStep, HandleFailedInv, DrainedStep,
       AppendBlockInv, SimulatorAnswerInv, EndInv DEF SequencerStep
  <1>5. CASE Release
    BY <1>5, ReleaseInv
  <1>6. CASE \E e \in Executors : ExecutorStep(e) \/ Fail(e)
    BY <1>6, ReceiveInv, CommitStepInv, ExitInv, FailInv DEF ExecutorStep
  <1>7. CASE Simulate \/ SimulatorStep \/ SimStop \/ Signal \/ Stopped \/ UNCHANGED vars
    BY <1>7, SimulatorInv DEF Stopped
  <1> QED BY <1>1, <1>2, <1>3, <1>4, <1>5, <1>6, <1>7 DEF Next

(* Every step keeps the whole of it. *)
LEMMA SequencerStepInv == SequencerInv /\ [Next]_vars => SequencerInv'
  <1> SUFFICES ASSUME SequencerInv, [Next]_vars PROVE SequencerInv'
    OBVIOUS
  <1>1. TableInv'
    BY SequencerDrivesTable, TableStepInv DEF SequencerInv
  <1>2. ThreadsInv'
    BY ThreadsStepInv
  <1> QED BY <1>1, <1>2 DEF SequencerInv, ThreadsInv

(* The invariant holds at first. *)
LEMMA SequencerInvInit == Init => SequencerInv
  BY SequencerInitInv, TableInitInv DEF Init, SequencerInv, ThreadsInv

(***************************************************************************)
(* For every set of executors, of accounts and of transactions: the table, *)
(* the executors' channels, the ledger and the account store agree in      *)
(* every reachable state of the sequencer (SequencerInv).                  *)
(***************************************************************************)
THEOREM SequencerInvariant == Spec => []SequencerInv
  BY SequencerInvInit, SequencerStepInv, PTL DEF Spec

(***************************************************************************)
(* The sequencer, its pool and its executors use the ordering table as it  *)
(* is meant to be used: every step is a step of the table or leaves it     *)
(* alone; only a ticket that was handed out is completed, and the table    *)
(* is reset only when nothing is outstanding.                              *)
(***************************************************************************)
THEOREM SequencerRefinesTable == Spec => TableSpec
  <1>1. Init => TableInit
    BY DEF Init
  <1> QED BY <1>1, SequencerDrivesTable, SequencerInvariant, PTL DEF Spec, TableSpec

(***************************************************************************)
(* The table that the sequencer drives keeps its invariant: what is handed *)
(* to executors follows the stream, is disjoint and is never lost.         *)
(***************************************************************************)
THEOREM SequencerKeepsTable == Spec => []TableInv
  BY SequencerRefinesTable, TableCorrect, PTL

(***************************************************************************)
(* While the sequencer is paused nothing executes, everything accepted is  *)
(* committed, and a barrier holds the simulator, for every number of       *)
(* executors and every interleaving of their completions with the drain.   *)
(***************************************************************************)
THEOREM PauseIsQuiescent == Spec => []QuiescentWhilePaused
  BY PausedQuiescent, SequencerInvariant, PTL

(***************************************************************************)
(* A transaction executes in the environment of the slot it is ledgered    *)
(* in, and a block covers exactly the transactions of its slot and names   *)
(* the block before it, however block boundaries and work interleave in    *)
(* the executors' channels.                                                *)
(***************************************************************************)
THEOREM BlocksExact == Spec => []BlocksAreExact
  BY ExactBlocks, SequencerInvariant, PTL

(***************************************************************************)
(* Parallel execution is serial execution: while a transaction runs, every *)
(* account it accesses holds what the last earlier writer of the ledger    *)
(* left, for every set of executors, accounts and transactions, across     *)
(* blocks, barriers and resets of the table.                               *)
(***************************************************************************)
THEOREM ExecutionSerial == Spec => []ExecutionIsSerial
  BY SerialExecution, SequencerInvariant, PTL
=============================================================================
