------------------------------ MODULE Shutdown ------------------------------
(***************************************************************************)
(* Cooperative shutdown of the engine's services (nucleus/src/shutdown.rs): *)
(* handle(), wait(), terminate() and the drop of the manager, and what a   *)
(* service does with its handle.  Services stop on their own at any time,  *)
(* for any reason, and may ignore a cancellation for ever.                 *)
(***************************************************************************)
EXTENDS Integers, Sequences, FiniteSets

CONSTANTS Service,   \* the background services
          TierOf,    \* the shutdown tier of each service
          NoService  \* source of a reason that no service reported

COUNT == 4

Tier == 1..COUNT

ASSUME ShutdownAssumption ==
    /\ IsFiniteSet(Service) /\ NoService \notin Service
    /\ TierOf \in [Service -> Tier]

Kind == {"signalled", "restart", "unexpected", "error"}

VARIABLES
    status,     \* of each service, as its handle and the manager see it
    reported,   \* the reason each service sent
    pending,    \* reports the manager still expects, by tier
    cancelled,  \* tiers whose token is cancelled
    pc,         \* where the owner of the manager is
    tier,       \* the tier terminate() is at
    reason,     \* what wait() returned
    outcome,    \* what terminate() has combined
    observed,   \* reasons terminate() has met, in order
    timedOut    \* tiers that did not report in time

shutdownVars == <<status, reported, pending, cancelled, pc, tier, reason, outcome,
          observed, timedOut>>

Reason(kind, s) == [kind |-> kind, from |-> s]

Signalled == Reason("signalled", NoService)

ShutdownInit ==
    /\ status = [s \in Service |-> "unregistered"]
    /\ reported = [s \in Service |-> Signalled]
    /\ pending = [k \in Tier |-> 0]
    /\ cancelled = {}
    /\ pc = "serving" /\ tier = 1
    /\ reason = Signalled /\ outcome = Signalled
    /\ observed = <<>> /\ timedOut = {}

ExitCode(r) ==
    CASE r.kind = "signalled" -> 0
      [] r.kind = "restart" -> 1
      [] r.kind = "unexpected" -> 2
      [] r.kind = "error" -> 3

Combine(self, next) == IF ExitCode(next) > ExitCode(self) THEN next ELSE self

-----------------------------------------------------------------------------
(* Services. *)

(* handle(): registers a service. *)
Handle(s) ==
    /\ pc = "serving" /\ status[s] = "unregistered"
    /\ status' = [status EXCEPT ![s] = "running"]
    /\ pending' = [pending EXCEPT ![TierOf[s]] = @ + 1]
    /\ UNCHANGED <<reported, cancelled, pc, tier, reason, outcome, observed, timedOut>>

(* A service reports and ends, or drops its handle: an unexpected exit. *)
Terminate(s, kind) ==
    /\ status[s] = "running"
    /\ status' = [status EXCEPT ![s] = "reported"]
    /\ reported' = [reported EXCEPT ![s] = Reason(kind, s)]
    /\ UNCHANGED <<pending, cancelled, pc, tier, reason, outcome, observed, timedOut>>

-----------------------------------------------------------------------------
(* The manager. *)

(* Mutant of TakeReport: the tier being drained is debited. *)
TakeReportHere(s) ==
    /\ status[s] = "reported"
    /\ status' = [status EXCEPT ![s] = "received"]
    /\ pending' = [pending EXCEPT ![tier] = @ - 1]

(* handles.next() yields the report of s, and its own tier is debited. *)
TakeReport(s) ==
    /\ status[s] = "reported"
    /\ status' = [status EXCEPT ![s] = "received"]
    /\ pending' = [pending EXCEPT ![TierOf[s]] = @ - 1]

(* wait() returns on a signal, or because the listener for it failed. *)
WaitSignalled(kind) ==
    /\ pc = "serving"
    /\ reason' = Reason(kind, NoService)
    /\ pc' = "cancel"
    /\ UNCHANGED <<status, reported, pending, cancelled, tier, outcome, observed, timedOut>>

(* wait() returns because a service ended. *)
WaitReported(s) ==
    /\ pc = "serving"
    /\ TakeReport(s)
    /\ reason' = reported[s]
    /\ pc' = "cancel"
    /\ UNCHANGED <<reported, cancelled, tier, outcome, observed, timedOut>>

(* terminate() goes on with the next tier. *)
NextTier ==
    /\ tier' = IF tier = COUNT THEN tier ELSE tier + 1
    /\ pc' = IF tier = COUNT THEN "done" ELSE "cancel"

(* terminate() cancels a tier, and skips its drain if nothing is pending. *)
CancelTier ==
    /\ pc = "cancel"
    /\ cancelled' = cancelled \cup {tier}
    /\ IF pending[tier] = 0 THEN NextTier ELSE pc' = "drain" /\ UNCHANGED tier
    /\ UNCHANGED <<status, reported, pending, reason, outcome, observed, timedOut>>

(* Mutant of DrainEnds: one report is enough. *)
DrainEndsOnce == TRUE

DrainEnds == pending'[tier] = 0

(* drain(): takes reports of any tier until this one has none pending. *)
Drain(s) ==
    /\ pc = "drain"
    /\ TakeReport(s)
    /\ outcome' = Combine(outcome, reported[s])
    /\ observed' = Append(observed, reported[s])
    /\ IF DrainEnds THEN NextTier ELSE UNCHANGED <<pc, tier>>
    /\ UNCHANGED <<reported, cancelled, reason, timedOut>>

(* Mutant of TimedOut: a drain has no time limit. *)
TimedOutNever == pc = "drain" /\ FALSE

TimedOut == pc = "drain"

(* The tier did not report within TIMEOUT. *)
DrainTimeout ==
    LET error == Reason("error", NoService)
    IN  /\ TimedOut
        /\ outcome' = Combine(outcome, error)
        /\ observed' = Append(observed, error)
        /\ timedOut' = timedOut \cup {tier}
        /\ NextTier
        /\ UNCHANGED <<status, reported, pending, cancelled, reason>>

(* The manager is dropped instead: every token is cancelled, nobody waits. *)
DropManager ==
    /\ pc = "serving"
    /\ cancelled' = Tier
    /\ pc' = "dropped"
    /\ UNCHANGED <<status, reported, pending, tier, reason, outcome, observed, timedOut>>

ManagerStep == CancelTier \/ (\E s \in Service : Drain(s)) \/ DrainTimeout

ShutdownNext ==
    \/ \E s \in Service : \/ Handle(s) \/ WaitReported(s)
                          \/ \E kind \in Kind : Terminate(s, kind)
    \/ \E kind \in {"signalled", "error"} : WaitSignalled(kind)
    \/ ManagerStep
    \/ DropManager

-----------------------------------------------------------------------------
ReasonType == [kind : Kind, from : Service \cup {NoService}]

(* Types of the tiers, reasons and pending counts. *)
ShutdownTypeOK ==
    /\ status \in [Service -> {"unregistered", "running", "reported", "received"}]
    /\ reported \in [Service -> ReasonType]
    /\ pending \in [Tier -> Nat]
    /\ cancelled \subseteq Tier
    /\ pc \in {"serving", "cancel", "drain", "done", "dropped"}
    /\ tier \in Tier
    /\ reason \in ReasonType /\ outcome \in ReasonType
    /\ observed \in Seq(ReasonType)
    /\ timedOut \subseteq Tier

(***************************************************************************)
(* pending counts, for each tier, the services registered in it whose      *)
(* report the manager has not taken, whichever tier was being drained when *)
(* it did ("debit its own pending count").                                 *)
(***************************************************************************)
PendingIsExact ==
    \A k \in Tier :
        pending[k] = Cardinality({s \in Service :
                        TierOf[s] = k /\ status[s] \in {"running", "reported"}})

(***************************************************************************)
(* Tiers stop in order: terminate() does not cancel a tier while a service *)
(* of a lower tier that was given its time still runs, because the counts  *)
(* it goes by are exact.  The pacemaker's final drain of the sequencer and *)
(* sync of the appender rely on it.                                        *)
(***************************************************************************)
TiersStopInOrder ==
    /\ PendingIsExact
    /\ \A s \in Service : \A k \in cancelled :
         TierOf[s] < k /\ pc # "dropped" =>
             status[s] \in {"unregistered", "received"} \/ TierOf[s] \in timedOut

(***************************************************************************)
(* terminate() returns the first of the strongest reasons it met: a later  *)
(* failure is not lost behind a clean stop, nor does it replace the one    *)
(* that came first.  And when it returns a clean outcome, every service it *)
(* had to wait for has stopped cleanly.                                    *)
(***************************************************************************)
OutcomeIsTrue ==
    LET met == <<Signalled>> \o observed
    IN  /\ \E i \in DOMAIN met :
             /\ outcome = met[i]
             /\ \A j \in DOMAIN met : /\ ExitCode(met[j]) <= ExitCode(met[i])
                                      /\ j < i => ExitCode(met[j]) < ExitCode(met[i])
        /\ pc = "done" /\ Combine(reason, outcome).kind = "signalled" =>
             \A s \in Service :
                status[s] = "unregistered"
                  \/ (status[s] = "received" /\ reported[s].kind = "signalled")

(* terminate() returns, whatever the services do. *)
TerminateReturns == pc = "cancel" ~> pc = "done"
=============================================================================
