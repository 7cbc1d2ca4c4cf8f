------------------------------- MODULE Provider -------------------------------
(***************************************************************************)
(* The world outside the ledger, as internal/execution and                 *)
(* internal/reconcile use it: a provider that applies or rejects the       *)
(* operations it is sent, requests that outlive the executor that sent     *)
(* them, and the faults (crashes, failed or unacknowledged database calls) *)
(* the fabric is built to survive.  Faults are counted to keep the state   *)
(* space finite.                                                           *)
(***************************************************************************)
EXTENDS EffectStore

CONSTANTS ProviderRun,      \* the run identifier the provider gives an operation
          SignerConfigured, \* an evidence signer is installed
          MaxFaults         \* bound: faults per behaviour

ASSUME ProviderConstants ==
    ProviderRun \in Runs /\ SignerConfigured \in BOOLEAN /\ MaxFaults \in Nat

VARIABLES applied,  \* how often the external effect of a key happened
          rejected, \* the provider durably refused the operation of a key
          stray,    \* requests of a key still travelling without a waiting caller
          asked,    \* the requests a handler was ever invoked with, per key
          faults

worldVars == <<applied, rejected, stray, asked>>

WorldTypeOK ==
    /\ applied \in [Keys -> Nat]
    /\ rejected \in [Keys -> BOOLEAN]
    /\ stray \in [Keys -> Nat]
    /\ asked \in [Keys -> SUBSET Requests]
    /\ faults \in Nat

WorldInit ==
    /\ applied = [k \in Keys |-> 0]
    /\ rejected = [k \in Keys |-> FALSE]
    /\ stray = [k \in Keys |-> 0]
    /\ asked = [k \in Keys |-> {}]
    /\ faults = 0

Fault   == faults < MaxFaults /\ faults' = faults + 1
NoFault == UNCHANGED faults

\* One guarded write to the ledger as its caller experiences it: it lands and
\* is acknowledged; it lands and the answer is lost; it matches no row; it
\* never arrives.  ok and err are what the caller does next.
StoreCall(can, write, ok, err) ==
    \/ can /\ write /\ ok /\ NoFault
    \/ can /\ write /\ err /\ Fault
    \/ ~can /\ UNCHANGED storeVars /\ err /\ NoFault
    \/ UNCHANGED storeVars /\ err /\ Fault

Apply(k)  == applied' = [applied EXCEPT ![k] = @ + 1]
Reject(k) == rejected' = [rejected EXCEPT ![k] = TRUE]

\* A request whose sender stopped waiting or died still lands, or never does.
StrayLands(k) ==
    /\ stray[k] > 0
    /\ stray' = [stray EXCEPT ![k] = @ - 1]
    /\ \/ Apply(k) /\ UNCHANGED rejected
       \/ Reject(k) /\ UNCHANGED applied
       \/ UNCHANGED <<applied, rejected>>
    /\ UNCHANGED <<storeVars, asked, faults>>
===============================================================================
