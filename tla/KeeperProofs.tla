---------------------------- MODULE KeeperProofs ----------------------------
(***************************************************************************)
(* Properties of every behaviour of the keeper: the shutdown of the        *)
(* services, for every finite set of services and every assignment of      *)
(* tiers, proved here, and leases and recency, from LeasesProofs.          *)
(***************************************************************************)
EXTENDS Keeper, LeasesProofs, FiniteSetTheorems

(* The services a tier still expects a report from. *)
Expected(k) == {s \in Service : TierOf[s] = k /\ status[s] \in {"running", "reported"}}

(* A tier that terminate() has left has reported in full, or timed out. *)
Left(k) == k < tier \/ pc = "done"

(* Tiers are cancelled one after another, each after the drain of the one   *)
(* before, and no service registers once that has begun.                    *)
TierInv ==
    /\ pc \in {"serving", "dropped"} => tier = 1
    /\ pc = "serving" => cancelled = {}
    /\ pc = "cancel" => cancelled \subseteq {k \in Tier : k < tier}
    /\ pc = "drain" => cancelled \subseteq {k \in Tier : k <= tier}
    /\ pc = "done" => tier = COUNT
    /\ \A k \in Tier : Left(k) => pending[k] = 0 \/ k \in timedOut

FirstOfStrongest(r, met) ==
    \E i \in DOMAIN met :
        /\ r = met[i]
        /\ \A j \in DOMAIN met : /\ ExitCode(met[j]) <= ExitCode(met[i])
                                 /\ j < i => ExitCode(met[j]) < ExitCode(met[i])

Occurs(r, met) == \E i \in DOMAIN met : met[i] = r

(* The outcome is the first of the strongest reasons, and nothing that the  *)
(* manager took or gave up waiting for is missing from them.                *)
OutcomeInv ==
    /\ FirstOfStrongest(outcome, <<Signalled>> \o observed)
    /\ pc = "serving" => \A s \in Service : status[s] # "received"
    /\ \A s \in Service : status[s] = "received" => reported[s] = reason \/ Occurs(reported[s], observed)
    /\ timedOut # {} => Occurs(Reason("error", NoService), observed)

ShutdownInv == ShutdownTypeOK /\ PendingIsExact /\ TierInv /\ OutcomeInv

-----------------------------------------------------------------------------
(* Counting reports.                                                        *)

(* The sets that pending counts are finite. *)
LEMMA ExpectedFinite ==
    ASSUME NEW k \in Tier
    PROVE  IsFiniteSet(Expected(k)) /\ Cardinality(Expected(k)) \in Nat
<1>1. Expected(k) \in SUBSET Service
  BY DEF Expected
<1> QED
  BY <1>1, FS_Subset, FS_CardinalityType, ShutdownAssumption

(* handle() adds the service to what its tier expects. *)
LEMMA HandleCounts ==
    ASSUME ShutdownTypeOK, PendingIsExact, NEW s \in Service, Handle(s)
    PROVE  PendingIsExact' /\ pending' \in [Tier -> Nat]
<1>1. \A k \in Tier : pending[k] = Cardinality(Expected(k))
  BY DEF PendingIsExact, Expected
<1>2. TierOf[s] \in Tier /\ s \notin Expected(TierOf[s])
  BY ShutdownAssumption DEF Handle, Expected
<1>3. Expected(TierOf[s])' = Expected(TierOf[s]) \cup {s}
  BY ShutdownAssumption DEF Handle, Expected, ShutdownTypeOK
<1>4. \A k \in Tier \ {TierOf[s]} : Expected(k)' = Expected(k)
  BY DEF Handle, Expected, ShutdownTypeOK
<1>5. Cardinality(Expected(TierOf[s])') = Cardinality(Expected(TierOf[s])) + 1
  BY <1>2, <1>3, ExpectedFinite, FS_AddElement
<1>6. /\ pending' \in [Tier -> Nat] /\ pending'[TierOf[s]] = pending[TierOf[s]] + 1
      /\ \A k \in Tier \ {TierOf[s]} : pending'[k] = pending[k]
  BY <1>2 DEF Handle, ShutdownTypeOK
<1>7. \A k \in Tier : pending'[k] = Cardinality(Expected(k)')
  BY <1>1, <1>2, <1>4, <1>5, <1>6
<1> QED
  BY <1>6, <1>7 DEF PendingIsExact, Expected

(* Taking a report removes the service from what its own tier expects. *)
LEMMA TakeReportCounts ==
    ASSUME ShutdownTypeOK, PendingIsExact, NEW s \in Service, TakeReport(s)
    PROVE  /\ PendingIsExact' /\ pending' \in [Tier -> Nat]
           /\ \A k \in Tier : pending[k] = 0 => pending'[k] = 0
<1>1. \A k \in Tier : pending[k] = Cardinality(Expected(k))
  BY DEF PendingIsExact, Expected
<1>2. TierOf[s] \in Tier /\ s \in Expected(TierOf[s])
  BY ShutdownAssumption DEF TakeReport, Expected
<1>3. Expected(TierOf[s])' = Expected(TierOf[s]) \ {s}
  BY ShutdownAssumption DEF TakeReport, Expected, ShutdownTypeOK
<1>4. \A k \in Tier \ {TierOf[s]} : Expected(k)' = Expected(k)
  BY DEF TakeReport, Expected, ShutdownTypeOK
<1>5. /\ Cardinality(Expected(TierOf[s])') = Cardinality(Expected(TierOf[s])) - 1
      /\ Cardinality(Expected(TierOf[s])') \in Nat
  <2>1. IsFiniteSet(Expected(TierOf[s])) /\ IsFiniteSet(Expected(TierOf[s]) \ {s})
    BY <1>2, ExpectedFinite, FS_RemoveElement
  <2> QED
    BY <1>2, <1>3, <2>1, FS_RemoveElement, FS_CardinalityType
<1>6. /\ pending' = [pending EXCEPT ![TierOf[s]] = pending[TierOf[s]] - 1]
      /\ pending[TierOf[s]] - 1 \in Nat
  BY <1>1, <1>2, <1>5 DEF TakeReport, ShutdownTypeOK
<1>7. /\ pending' \in [Tier -> Nat] /\ pending'[TierOf[s]] = pending[TierOf[s]] - 1
      /\ \A k \in Tier \ {TierOf[s]} : pending'[k] = pending[k]
  BY <1>2, <1>6 DEF ShutdownTypeOK
<1>8. \A k \in Tier : pending'[k] = Cardinality(Expected(k)')
  BY <1>1, <1>2, <1>4, <1>5, <1>7
<1>9. pending[TierOf[s]] # 0
  BY <1>2, <1>6 DEF ShutdownTypeOK
<1> QED
  BY <1>7, <1>8, <1>9 DEF PendingIsExact, Expected

-----------------------------------------------------------------------------
(* Combining reasons.                                                       *)

LEMMA ExitCodeType ==
    ASSUME NEW r \in ReasonType
    PROVE  /\ ExitCode(r) \in 0..3
           /\ ExitCode(r) = 0 <=> r.kind = "signalled"
           /\ ExitCode(r) = 3 <=> r.kind = "error"
BY DEF ReasonType, Kind, ExitCode

LEMMA ReasonTyped ==
    ASSUME NEW kind \in Kind, NEW s \in Service \cup {NoService}
    PROVE  Reason(kind, s) \in ReasonType
BY DEF Reason, ReasonType

(* Combining the outcome with the next reason leaves the first of the       *)
(* strongest: the code of combine compares with a strict order.             *)
LEMMA CombineKeepsFirst ==
    ASSUME NEW met \in Seq(ReasonType), NEW r, FirstOfStrongest(r, met), NEW next \in ReasonType
    PROVE  FirstOfStrongest(Combine(r, next), Append(met, next))
<1> DEFINE more == Append(met, next)
<1>1. PICK i \in DOMAIN met :
         /\ r = met[i]
         /\ \A j \in DOMAIN met : /\ ExitCode(met[j]) <= ExitCode(met[i])
                                  /\ j < i => ExitCode(met[j]) < ExitCode(met[i])
  BY DEF FirstOfStrongest
<1>2. /\ Len(met) \in Nat /\ DOMAIN met = 1..Len(met) /\ DOMAIN more = 1..(Len(met) + 1)
      /\ \A j \in DOMAIN met : more[j] = met[j]
      /\ more[Len(met) + 1] = next
  OBVIOUS
<1>3. \A j \in DOMAIN more : j \in DOMAIN met \/ j = Len(met) + 1
  BY <1>2
<1>4. \A j \in DOMAIN more : ExitCode(more[j]) \in Int
  <2>1. \A j \in DOMAIN met : met[j] \in ReasonType
    OBVIOUS
  <2> QED
    BY <1>2, <1>3, <2>1, ExitCodeType
<1> HIDE DEF more
<1>5. CASE ExitCode(next) > ExitCode(r)
  <2>1. Combine(r, next) = more[Len(met) + 1] /\ Len(met) + 1 \in DOMAIN more
    BY <1>2, <1>5 DEF Combine
  <2>2. \A j \in DOMAIN met : ExitCode(more[j]) < ExitCode(more[Len(met) + 1])
    BY <1>1, <1>2, <1>4, <1>5
  <2>3. \A j \in DOMAIN more :
           /\ ExitCode(more[j]) <= ExitCode(more[Len(met) + 1])
           /\ j < Len(met) + 1 => ExitCode(more[j]) < ExitCode(more[Len(met) + 1])
    BY <1>2, <1>3, <1>4, <2>2
  <2> QED
    BY <2>1, <2>3 DEF FirstOfStrongest, more
<1>6. CASE ~(ExitCode(next) > ExitCode(r))
  <2>1. Combine(r, next) = more[i] /\ i \in DOMAIN more /\ i < Len(met) + 1
    BY <1>1, <1>2, <1>6 DEF Combine
  <2>2. \A j \in DOMAIN more :
           /\ ExitCode(more[j]) <= ExitCode(more[i])
           /\ j < i => ExitCode(more[j]) < ExitCode(more[i])
    BY <1>1, <1>2, <1>3, <1>4, <1>6, <2>1
  <2> QED
    BY <2>1, <2>2 DEF FirstOfStrongest, more
<1> QED
  BY <1>5, <1>6

(* One more reason is met, and the earlier ones stay.  *)
LEMMA ObserveMore ==
    ASSUME ShutdownTypeOK, OutcomeInv, NEW next \in ReasonType,
           outcome' = Combine(outcome, next), observed' = Append(observed, next)
    PROVE  /\ outcome' \in ReasonType /\ observed' \in Seq(ReasonType)
           /\ FirstOfStrongest(outcome', <<Signalled>> \o observed')
           /\ Occurs(next, observed') /\ \A r : Occurs(r, observed) => Occurs(r, observed')
<1>1. Signalled \in ReasonType
  BY ReasonTyped DEF Signalled, Kind
<1>2. outcome' \in ReasonType /\ observed' \in Seq(ReasonType)
  BY DEF ShutdownTypeOK, Combine
<1>3. <<Signalled>> \o Append(observed, next) = Append(<<Signalled>> \o observed, next)
  BY <1>1 DEF ShutdownTypeOK
<1>4. <<Signalled>> \o observed \in Seq(ReasonType)
  BY <1>1 DEF ShutdownTypeOK
<1>5. FirstOfStrongest(outcome', <<Signalled>> \o observed')
  BY <1>3, <1>4, CombineKeepsFirst DEF OutcomeInv
<1>6. /\ DOMAIN observed' = 1..(Len(observed) + 1) /\ observed'[Len(observed) + 1] = next
      /\ \A i \in DOMAIN observed : i \in DOMAIN observed' /\ observed'[i] = observed[i]
      /\ Len(observed) \in Nat
  BY DEF ShutdownTypeOK
<1> QED
  BY <1>2, <1>5, <1>6 DEF Occurs

-----------------------------------------------------------------------------
(* Each step keeps the invariant.                                           *)

LEMMA ShutdownInitInv == ShutdownInit => ShutdownInv
<1> SUFFICES ASSUME ShutdownInit PROVE ShutdownInv
  OBVIOUS
<1>1. Signalled \in ReasonType
  BY ReasonTyped DEF Signalled, Kind
<1>2. observed \in Seq(ReasonType)
  BY NoElement, Zenon DEF ShutdownInit
<1>3. ShutdownTypeOK
  BY <1>1, <1>2 DEF ShutdownInit, ShutdownTypeOK, Tier, COUNT
<1>4. PendingIsExact
  <2>1. ASSUME NEW k \in Tier
        PROVE  pending[k] = Cardinality({s \in Service : TierOf[s] = k /\ status[s] \in {"running", "reported"}})
    <3>1. {s \in Service : TierOf[s] = k /\ status[s] \in {"running", "reported"}} = {}
      BY DEF ShutdownInit
    <3> QED
      BY <3>1, FS_EmptySet DEF ShutdownInit
  <2> QED
    BY <2>1 DEF PendingIsExact
<1>5. TierInv
  BY DEF ShutdownInit, TierInv, Tier, Left
<1>6. OutcomeInv
  <2>1. <<Signalled>> \o observed = <<Signalled>>
    BY <1>1 DEF ShutdownInit
  <2>2. FirstOfStrongest(Signalled, <<Signalled>>)
    <3>1. DOMAIN <<Signalled>> = {1} /\ <<Signalled>>[1] = Signalled
      OBVIOUS
    <3> QED
      BY <1>1, <3>1, ExitCodeType DEF FirstOfStrongest
  <2> QED
    BY <2>1, <2>2 DEF ShutdownInit, OutcomeInv
<1> QED
  BY <1>3, <1>4, <1>5, <1>6 DEF ShutdownInv

(* handle() only registers while the manager serves. *)
LEMMA HandleInv ==
    ASSUME ShutdownInv, NEW s \in Service, Handle(s)
    PROVE  ShutdownInv'
<1> USE DEF ShutdownInv
<1>1. PendingIsExact' /\ pending' \in [Tier -> Nat]
  BY HandleCounts
<1>2. ShutdownTypeOK'
  BY <1>1 DEF Handle, ShutdownTypeOK
<1>3. TierInv'
  BY DEF Handle, TierInv, Left, Tier
<1>4. OutcomeInv'
  BY DEF Handle, OutcomeInv, ShutdownTypeOK
<1> QED
  BY <1>1, <1>2, <1>3, <1>4

(* A report that nobody has taken is still expected. *)
LEMMA TerminateInv ==
    ASSUME ShutdownInv, NEW s \in Service, NEW kind \in Kind, Terminate(s, kind)
    PROVE  ShutdownInv'
<1> USE DEF ShutdownInv
<1>1. ShutdownTypeOK'
  BY ReasonTyped DEF Terminate, ShutdownTypeOK
<1>2. PendingIsExact'
  <2>1. \A k \in Tier : Expected(k)' = Expected(k)
    BY DEF Terminate, Expected, ShutdownTypeOK
  <2> QED
    BY <2>1 DEF PendingIsExact, Expected, Terminate
<1>3. TierInv'
  BY DEF Terminate, TierInv, Left
<1>4. OutcomeInv'
  BY DEF Terminate, OutcomeInv, ShutdownTypeOK
<1> QED
  BY <1>1, <1>2, <1>3, <1>4

LEMMA WaitSignalledInv ==
    ASSUME ShutdownInv, NEW kind \in {"signalled", "error"}, WaitSignalled(kind)
    PROVE  ShutdownInv'
<1> USE DEF ShutdownInv
<1>1. ShutdownTypeOK'
  BY ReasonTyped DEF WaitSignalled, ShutdownTypeOK, Kind
<1>2. PendingIsExact'
  BY DEF WaitSignalled, PendingIsExact
<1>3. TierInv'
  BY DEF WaitSignalled, TierInv, Left, ShutdownTypeOK
<1>4. OutcomeInv'
  BY DEF WaitSignalled, OutcomeInv, ShutdownTypeOK
<1> QED
  BY <1>1, <1>2, <1>3, <1>4

LEMMA WaitReportedInv ==
    ASSUME ShutdownInv, NEW s \in Service, WaitReported(s)
    PROVE  ShutdownInv'
<1> USE DEF ShutdownInv
<1>1. PendingIsExact' /\ pending' \in [Tier -> Nat]
      /\ \A k \in Tier : pending[k] = 0 => pending'[k] = 0
  BY TakeReportCounts DEF WaitReported
<1>2. ShutdownTypeOK'
  BY <1>1 DEF WaitReported, TakeReport, ShutdownTypeOK
<1>3. TierInv'
  BY <1>1 DEF WaitReported, TierInv, Left, ShutdownTypeOK
<1>4. OutcomeInv'
  BY DEF WaitReported, TakeReport, OutcomeInv, ShutdownTypeOK
<1> QED
  BY <1>1, <1>2, <1>3, <1>4

(* A tier is left for the next one once it is cancelled, and has reported or timed out. *)
LEMMA NextTierInv ==
    ASSUME ShutdownTypeOK, TierInv, pc \in {"cancel", "drain"}, NextTier,
           cancelled' \subseteq cancelled \cup {tier},
           pending'[tier] = 0 \/ tier \in timedOut',
           \A k \in Tier : (pending[k] = 0 \/ k \in timedOut) => (pending'[k] = 0 \/ k \in timedOut')
    PROVE  TierInv' /\ tier' \in Tier /\ pc' \in {"cancel", "done"}
<1>1. tier \in 1..4 /\ cancelled \subseteq 1..4
  BY DEF ShutdownTypeOK, Tier, COUNT
<1>2. \A k \in cancelled' : k \in 1..4 /\ k <= tier
  BY <1>1 DEF TierInv
<1>3. \A k \in Tier : k <= tier => pending'[k] = 0 \/ k \in timedOut'
  BY <1>1 DEF TierInv, Left, Tier, COUNT
<1>4. CASE tier = COUNT
  BY <1>1, <1>2, <1>3, <1>4 DEF NextTier, TierInv, Left, Tier, COUNT
<1>5. CASE tier # COUNT
  BY <1>1, <1>2, <1>3, <1>5 DEF NextTier, TierInv, Left, Tier, COUNT
<1> QED
  BY <1>4, <1>5

LEMMA CancelTierInv ==
    ASSUME ShutdownInv, CancelTier
    PROVE  ShutdownInv'
<1> USE DEF ShutdownInv
<1>1. TierInv' /\ tier' \in Tier /\ pc' \in {"cancel", "drain", "done"}
  <2>1. CASE pending[tier] = 0
    BY <2>1, NextTierInv DEF CancelTier
  <2>2. CASE pending[tier] # 0
    BY <2>2 DEF CancelTier, TierInv, Left, ShutdownTypeOK, Tier, COUNT
  <2> QED
    BY <2>1, <2>2
<1>2. ShutdownTypeOK'
  BY <1>1 DEF CancelTier, ShutdownTypeOK
<1>3. PendingIsExact'
  BY DEF CancelTier, PendingIsExact
<1>4. OutcomeInv'
  BY <1>1 DEF CancelTier, OutcomeInv
<1> QED
  BY <1>1, <1>2, <1>3, <1>4

(* A drained report debits its own tier, and is combined into the outcome. *)
LEMMA DrainInv ==
    ASSUME ShutdownInv, NEW s \in Service, Drain(s)
    PROVE  ShutdownInv'
<1> USE DEF ShutdownInv
<1>1. PendingIsExact' /\ pending' \in [Tier -> Nat]
      /\ \A k \in Tier : pending[k] = 0 => pending'[k] = 0
  BY TakeReportCounts DEF Drain
<1>2. reported[s] \in ReasonType
  BY DEF ShutdownTypeOK
<1>3. /\ outcome' \in ReasonType /\ observed' \in Seq(ReasonType)
      /\ FirstOfStrongest(outcome', <<Signalled>> \o observed')
      /\ Occurs(reported[s], observed') /\ \A r : Occurs(r, observed) => Occurs(r, observed')
  BY <1>2, ObserveMore DEF Drain
<1>4. TierInv' /\ tier' \in Tier /\ pc' \in {"cancel", "drain", "done"}
  <2>1. CASE DrainEnds
    BY <1>1, <2>1, NextTierInv DEF Drain, DrainEnds
  <2>2. CASE ~DrainEnds
    BY <1>1, <2>2 DEF Drain, TierInv, Left, ShutdownTypeOK
  <2> QED
    BY <2>1, <2>2
<1>5. status' = [status EXCEPT ![s] = "received"]
  BY DEF Drain, TakeReport
<1>6. ShutdownTypeOK'
  BY <1>1, <1>3, <1>4, <1>5 DEF Drain, ShutdownTypeOK
<1>7. OutcomeInv'
  BY <1>3, <1>4, <1>5 DEF Drain, OutcomeInv, ShutdownTypeOK
<1> QED
  BY <1>1, <1>4, <1>6, <1>7

(* A timeout is an error among the reasons met. *)
LEMMA DrainTimeoutInv ==
    ASSUME ShutdownInv, DrainTimeout
    PROVE  ShutdownInv'
<1> USE DEF ShutdownInv
<1>1. Reason("error", NoService) \in ReasonType
  BY ReasonTyped DEF Kind
<1>2. /\ outcome' \in ReasonType /\ observed' \in Seq(ReasonType)
      /\ FirstOfStrongest(outcome', <<Signalled>> \o observed')
      /\ Occurs(Reason("error", NoService), observed')
      /\ \A r : Occurs(r, observed) => Occurs(r, observed')
  BY <1>1, ObserveMore DEF DrainTimeout
<1>3. TierInv' /\ tier' \in Tier /\ pc' \in {"cancel", "done"}
  BY NextTierInv DEF DrainTimeout, TimedOut
<1>4. ShutdownTypeOK'
  BY <1>2, <1>3 DEF DrainTimeout, ShutdownTypeOK
<1>5. PendingIsExact'
  BY DEF DrainTimeout, PendingIsExact
<1>6. OutcomeInv'
  BY <1>2, <1>3 DEF DrainTimeout, OutcomeInv
<1> QED
  BY <1>3, <1>4, <1>5, <1>6

LEMMA DropManagerInv ==
    ASSUME ShutdownInv, DropManager
    PROVE  ShutdownInv'
BY DEF ShutdownInv, DropManager, ShutdownTypeOK, PendingIsExact, TierInv, Left, OutcomeInv

-----------------------------------------------------------------------------
(* Every step of the services and of the manager keeps the invariant. *)
LEMMA ShutdownStepInv == ShutdownInv /\ [ShutdownNext]_shutdownVars => ShutdownInv'
<1> SUFFICES ASSUME ShutdownInv, [ShutdownNext]_shutdownVars PROVE ShutdownInv'
  OBVIOUS
<1>1. CASE ShutdownNext
  BY <1>1, HandleInv, TerminateInv, WaitSignalledInv, WaitReportedInv, CancelTierInv, DrainInv,
     DrainTimeoutInv, DropManagerInv DEF ShutdownNext, ManagerStep
<1>2. CASE UNCHANGED shutdownVars
  BY <1>2 DEF shutdownVars, ShutdownInv, ShutdownTypeOK, PendingIsExact, TierInv, Left, OutcomeInv
<1> QED
  BY <1>1, <1>2

(* A cancelled tier comes after tiers that terminate() has left, so nothing *)
(* is pending in those that did not time out, and the counts are exact.     *)
LEMMA InvStopsInOrder == ShutdownInv => TiersStopInOrder
<1> SUFFICES ASSUME ShutdownInv, NEW s \in Service, NEW k \in cancelled,
                    TierOf[s] < k, pc # "dropped", TierOf[s] \notin timedOut
             PROVE  status[s] \in {"unregistered", "received"}
  BY DEF ShutdownInv, TiersStopInOrder
<1>1. TierOf[s] \in Tier /\ k \in Tier /\ tier \in Tier
  BY ShutdownAssumption DEF ShutdownInv, ShutdownTypeOK
<1>2. Left(TierOf[s])
  BY <1>1 DEF ShutdownInv, ShutdownTypeOK, TierInv, Left, Tier, COUNT
<1>3. pending[TierOf[s]] = 0
  BY <1>1, <1>2 DEF ShutdownInv, TierInv
<1>4. Cardinality(Expected(TierOf[s])) = 0
  BY <1>1, <1>3 DEF ShutdownInv, PendingIsExact, Expected
<1>5. s \notin Expected(TierOf[s])
  BY <1>1, <1>4, ExpectedFinite, FS_EmptySet
<1> QED
  BY <1>5 DEF Expected, ShutdownInv, ShutdownTypeOK

(* With a clean outcome no tier timed out and every report met was clean,   *)
(* so every service reported, and its report is one of those.               *)
LEMMA InvOutcomeIsTrue == ShutdownInv => OutcomeIsTrue
<1> SUFFICES ASSUME ShutdownInv PROVE OutcomeIsTrue
  OBVIOUS
<1> USE DEF ShutdownInv
<1>1. ASSUME pc = "done", Combine(reason, outcome).kind = "signalled", NEW s \in Service,
             status[s] # "unregistered"
      PROVE  status[s] = "received" /\ reported[s].kind = "signalled"
  <2>1. reason \in ReasonType /\ outcome \in ReasonType /\ observed \in Seq(ReasonType)
    BY DEF ShutdownTypeOK
  <2>2. ExitCode(reason) = 0 /\ ExitCode(outcome) = 0
    BY <1>1, <2>1, ExitCodeType DEF Combine
  <2>3. ASSUME NEW i \in DOMAIN observed PROVE observed[i].kind = "signalled"
    <3> DEFINE met == <<Signalled>> \o observed
    <3>1. i + 1 \in DOMAIN met /\ met[i + 1] = observed[i] /\ observed[i] \in ReasonType
      BY <2>1
    <3>2. ExitCode(met[i + 1]) <= ExitCode(outcome)
      BY <3>1 DEF OutcomeInv, FirstOfStrongest
    <3> QED
      BY <2>2, <3>1, <3>2, ExitCodeType
  <2>4. timedOut = {}
    BY <2>3 DEF OutcomeInv, Occurs, Reason
  <2>5. TierOf[s] \in Tier /\ pending[TierOf[s]] = 0
    BY <1>1, <2>4, ShutdownAssumption DEF TierInv, Left
  <2>6. s \notin Expected(TierOf[s])
    BY <2>5, ExpectedFinite, FS_EmptySet DEF PendingIsExact, Expected
  <2>7. status[s] = "received"
    BY <1>1, <2>5, <2>6 DEF Expected, ShutdownTypeOK
  <2>8. reason.kind = "signalled"
    BY <2>1, <2>2, ExitCodeType
  <2> QED
    BY <2>3, <2>7, <2>8 DEF OutcomeInv, Occurs
<1> QED
  BY <1>1 DEF OutcomeIsTrue, OutcomeInv, FirstOfStrongest

-----------------------------------------------------------------------------
(* The shutdown invariant holds whatever the other parts of the keeper do. *)
THEOREM ShutdownInvariant == Spec => []ShutdownInv
<1>1. Init => ShutdownInv
  BY ShutdownInitInv DEF Init
<1>2. [Next]_vars => [ShutdownNext]_shutdownVars
  BY DEF Next, vars
<1> QED
  BY <1>1, <1>2, ShutdownStepInv, PTL DEF Spec

(***************************************************************************)
(* For any services in any tiers: the counts terminate() goes by are exact *)
(* whichever tier a report was taken under, and it cancels no tier while a *)
(* service of a lower one that was given its time still runs.              *)
(***************************************************************************)
THEOREM ShutdownInOrder == Spec => []TiersStopInOrder
BY ShutdownInvariant, InvStopsInOrder, PTL

(***************************************************************************)
(* For any services: terminate() returns the first of the strongest        *)
(* reasons it met, and a clean outcome means that every service it had to  *)
(* wait for stopped cleanly.                                               *)
(***************************************************************************)
THEOREM ShutdownOutcome == Spec => []OutcomeIsTrue
BY ShutdownInvariant, InvOutcomeIsTrue, PTL

-----------------------------------------------------------------------------
(* So does the invariant of leases and recency. *)
THEOREM LeaseInvariant == Spec => []LeaseInv
<1>1. Init => LeaseInv
  BY LeaseInitInv DEF Init
<1>2. LeaseInv /\ [Next]_vars => LeaseInv'
  <2> SUFFICES ASSUME LeaseInv, [Next]_vars PROVE LeaseInv'
    OBVIOUS
  <2>1. ASSUME NEW c \in Calls, LockAccount(c) \/ MissingAccounts(c) \/ ConsumeEviction(c) \/ Cancel(c)
        PROVE  LeaseInv'
    BY <2>1, LockAccountInv, MissingAccountsInv, ConsumeEvictionInv, CancelInv
  <2>2. ASSUME NEW c \in Calls, CallStep(c) PROVE LeaseInv'
    BY <2>2, ClaimInv, RegisterInv, CheckInv, WakeInv, ObserveInv, ExecuteInv, ExecuteFailsInv, CompleteInv,
       NotifyInv, ReleaseInv, MaterializeInv, DeleteInv DEF CallStep
  <2>3. ASSUME NEW k \in Accounts, Undelegate(k) PROVE LeaseInv'
    BY <2>3, UndelegateInv
  <2>4. CASE UNCHANGED leaseVars
    BY <2>4, LeaseStutter
  <2> QED
    BY <2>1, <2>2, <2>3, <2>4 DEF Next, LeaseNext, vars
<1> QED
  BY <1>1, <1>2, PTL DEF Spec

(***************************************************************************)
(* For any accounts and calls: a submitted mutation owns its account until *)
(* its bookkeeping is done, though its caller may have cancelled, so no    *)
(* second one is in flight.                                                *)
(***************************************************************************)
THEOREM LeasesCoverMutations == Spec => []LeaseCoversMutation
<1>1. LeaseInv => LeaseCoversMutation
  BY DEF LeaseInv, OwnerInv, OwnerOf, LeaseCoversMutation
<1> QED
  BY <1>1, LeaseInvariant, PTL

(***************************************************************************)
(* For any accounts, calls, images and capacity: an account that nobody    *)
(* has leased and that can be fetched again is in the recency cache or on  *)
(* its way to be evicted, and nothing else is in the cache, however calls, *)
(* cancellations, failures and undelegations interleave.                   *)
(***************************************************************************)
THEOREM RecencyIsExact == Spec => []RecencyMatches
<1>1. LeaseInv => RecencyMatches
  <2> SUFFICES ASSUME LeaseInv, NEW k \in Accounts, owner[k] = NoCall
               PROVE  /\ Evictable(account[k]) =>
                             \/ k \in lru \cup Range(evictions)
                             \/ \E c \in Calls : call[c].kind = "Eviction" /\ call[c].todo = <<k>>
                      /\ k \in lru => Evictable(account[k])
    BY DEF RecencyMatches
  <2>1. NoCall \notin Calls
    BY LeasesAssumption DEF NoCall
  <2>2. \A c \in Calls : k \notin call[c].got /\ \A tx \in call[c].sent : tx.key # k
    BY <2>1 DEF LeaseInv, OwnerInv, OwnerOf
  <2>3. Tracked(k)
    BY <2>2 DEF LeaseInv, TrackedInv, Settled
  <2> QED
    BY <2>2, <2>3 DEF Tracked, Evicts
<1> QED
  BY <1>1, LeaseInvariant, PTL
=============================================================================
