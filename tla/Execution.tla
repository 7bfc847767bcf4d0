----------------------------- MODULE Execution -----------------------------
(***************************************************************************)
(* A transaction's way into the engine (Ingress), through the SVM (Svm),   *)
(* and the memory an SBF program of it is given (Parameters), in one       *)
(* specification.  The three share no state: what Ingress queues is a      *)
(* transaction of Svm in another representation, and Parameters refines    *)
(* the step of Svm that enters a program.  A behaviour is of the part it   *)
(* starts with.                                                            *)
(***************************************************************************)
EXTENDS Svm, Ingress, Parameters

VARIABLE part   \* "ingress", "svm" or "input"

executionVars == <<vars, ingressVars, paramVars, part>>

(* The parts a behaviour is not about. *)
NoSvm ==
    /\ db = <<>> /\ cache = <<>> /\ tx = NoTx /\ tc = EmptyContext /\ pre = tc.acct
    /\ phase = "idle" /\ next = 1 /\ status = "Ok" /\ todo = <<>> /\ leaked = {}

NoIngress == sent = <<>> /\ batch = <<>> /\ path = "replay" /\ ingress = "queued"

NoParameters == ixAccts = <<>> /\ abi = 1 /\ direct = FALSE /\ input = NoInput

ExecutionInit ==
    \/ part = "ingress" /\ IngressInit /\ NoSvm /\ NoParameters
    \/ part = "svm" /\ Init /\ NoIngress /\ NoParameters
    \/ part = "input" /\ ParamInit /\ NoSvm /\ NoIngress

ExecutionNext ==
    \/ part = "svm" /\ Next /\ UNCHANGED <<ingressVars, paramVars, part>>
    \/ part = "ingress" /\ IngressNext /\ UNCHANGED <<vars, paramVars, part>>
    \/ part = "input" /\ SerializeParams /\ UNCHANGED <<vars, ingressVars, part>>

ExecutionSpec == ExecutionInit /\ [][ExecutionNext]_executionVars
=============================================================================
