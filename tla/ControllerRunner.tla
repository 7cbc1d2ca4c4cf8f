--------------------------- MODULE ControllerRunner ---------------------------
(***************************************************************************)
(* The commands the adapter runs for a workspace,                          *)
(* internal/cli/controller_subprocess.go and controller_acquire_identity.go,*)
(* and the provider behind them.                                           *)
(*                                                                         *)
(* A command takes effect outside the adapter, at any moment while it      *)
(* runs, and the adapter learns of it when the command returns.  A command *)
(* of a dead adapter still runs until the next start kills it.             *)
(***************************************************************************)
EXTENDS ControllerState

CONSTANTS ProviderLag,  \* ticks an accepted create may take to show up
          MachineLost,  \* TRUE: the provider may drop a machine of itself
          MaxErrors     \* bound: commands and machines that fail of themselves

ASSUME RunnerConstants ==
    ProviderLag \in Nat /\ MachineLost \in BOOLEAN /\ MaxErrors \in Nat

VARIABLES res,     \* the workspace's machine at the provider
          lag,     \* ticks left for an accepted create
          child,   \* the warmup child behind its launch gate
          bridge,  \* a WebVNC daemon of the workspace is running
          errs     \* commands that failed so far

runnerVars == <<res, lag, child, bridge, errs>>

Children == {"none", "gated", "running", "recorded", "acked", "rejected"}

RunnerInit == res = "none" /\ lag = 0 /\ child = "none" /\ bridge = FALSE /\ errs = 0

\* A command may fail of itself, or because it was cancelled.
Fails(who) ==
    IF who \in cancelled THEN UNCHANGED errs ELSE errs < MaxErrors /\ errs' = errs + 1

-------------------------------------------------------------------------------
(* The provider.                                                           *)

\* The lease ID is fixed and acquiring it idempotent: a child that finds the
\* machine asks for no other.
ChildCreates ==
    /\ child = "running" /\ res = "none"
    /\ res' = "creating" /\ lag' = ProviderLag
    /\ UNCHANGED <<child, bridge, errs>>

\* An accepted create shows up in the inventory, or comes to nothing.
CreateSettles ==
    /\ res = "creating" /\ lag' = 0
    /\ \/ res' = "present" /\ UNCHANGED errs
       \/ res' = "none" /\ errs < MaxErrors /\ errs' = errs + 1
    /\ UNCHANGED <<child, bridge>>

\* The provider drops the machine (its own expiry, an operator).
MachineVanishes ==
    /\ MachineLost /\ res = "present" /\ errs < MaxErrors
    /\ res' = "none" /\ errs' = errs + 1
    /\ UNCHANGED <<lag, child, bridge>>

ReleaseTakesEffect ==
    /\ rc = "releaseRun" /\ res = "present"
    /\ res' = "none"
    /\ UNCHANGED <<lag, child, bridge, errs>>

-------------------------------------------------------------------------------
(* The desktop bridge.                                                     *)

LocalStops == {"stopLocal", "readyLocalRun", "readyRevokeRun"}

BridgeStarts ==
    /\ desk = "run" /\ ~bridge
    /\ bridge' = TRUE
    /\ UNCHANGED <<res, lag, child, errs>>

BridgeStops ==
    /\ rc \in LocalStops \/ desk \in {"revokeRun", "expireRun", "expireHandoffRun"}
    /\ bridge
    /\ bridge' = FALSE
    /\ UNCHANGED <<res, lag, child, errs>>

-------------------------------------------------------------------------------
(* What a list or an inspection of the provider may answer.                *)

Answers == {"ready", "pending", "terminal", "mismatch", "notfound", "error"}

Answer(a) ==
    CASE a = "error"    -> Fails("reconcile")
      [] a = "notfound" -> res # "present" /\ UNCHANGED errs
      [] OTHER          -> res = "present" /\ UNCHANGED errs

Outside ==
    /\ \/ ChildCreates \/ CreateSettles \/ MachineVanishes
       \/ ReleaseTakesEffect \/ BridgeStarts \/ BridgeStops
===============================================================================
