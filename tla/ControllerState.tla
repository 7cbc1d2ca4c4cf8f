---------------------------- MODULE ControllerState ----------------------------
(***************************************************************************)
(* The state file of the workspace adapter,                                *)
(* internal/cli/controller_service.go, for one workspace.                  *)
(*                                                                         *)
(* Every change of the record is written under sideEffectGate and mu: a    *)
(* temporary file is flushed, renamed over the state file, and the         *)
(* directory is flushed.  A failure before the rename rolls the change     *)
(* back; a failure after it keeps the change, raises the durability        *)
(* barrier and cancels the commands that may not run behind one.           *)
(*                                                                         *)
(* rec is both the record in memory and the one in the installed file:     *)
(* they only differ inside the gate.  stable is the set of records a power *)
(* loss may leave, more than one while directory flushes are outstanding.  *)
(* Times are ages in ticks, kept up to the longest timeout that is         *)
(* compared with them.                                                     *)
(***************************************************************************)
EXTENDS Naturals

CONSTANTS CreateTimeout,  \* --create-timeout, in ticks
          RetryDelay,     \* RetryDelay, in ticks
          MaxSaveFaults,  \* bound: saves that fail or do not reach the disk
          FaultsForever   \* TRUE: saves may fail, and roll back, without bound

ASSUME ControllerTimes ==
    /\ CreateTimeout \in Nat \ {0} /\ RetryDelay \in 1 .. CreateTimeout
    /\ MaxSaveFaults \in Nat /\ FaultsForever \in BOOLEAN

VARIABLES rec,        \* s.state.Workspaces[id], and the installed file
          stable,     \* what the disk may hold after a power loss
          barrier,    \* s.durabilityPending
          saveFaults, \* saves that went wrong so far
          rc,         \* where the workspace's reconcile goroutine is
          desk,       \* where a desktop connection request is
          cancelled,  \* whose running command has been cancelled
          timer       \* s.reconcileTimers[id]

fileVars == <<rec, stable, barrier, saveFaults, cancelled>>

Active   == {"provisioning", "ready", "stopping"}
Finished == {"failed", "expired", "stopped"}
NoTime   == CreateTimeout + 1

\* CreateObserved, LeaseID and ProviderResourceID are written together, as are
\* StatusAfterCleanup and FailureAfterCleanup.
Records == [status           : {"none"} \cup Active \cup Finished,
            prepared         : BOOLEAN,
            preparedAge      : 0 .. CreateTimeout,
            started          : BOOLEAN,
            observed         : BOOLEAN,
            after            : {"none"} \cup Finished,
            providerStopped  : BOOLEAN,
            releaseRequested : BOOLEAN,
            absentAge        : 0 .. NoTime,
            localStopped     : BOOLEAN,
            localPending     : BOOLEAN]

NoRecord ==
    [status |-> "none", prepared |-> FALSE, preparedAge |-> 0, started |-> FALSE,
     observed |-> FALSE, after |-> "none", providerStopped |-> FALSE,
     releaseRequested |-> FALSE, absentAge |-> NoTime, localStopped |-> FALSE,
     localPending |-> FALSE]

NeedsReconcile(r) == r.status \in Active

\* Updates of the record: a workspace is to stop, and to end as final says; its
\* bridge has been revoked, or is to be; a create attempt is prepared; a
\* machine is still listed after its release; its absence is final.
ToStopping(r, final) == [r EXCEPT !.status = "stopping", !.after = final]

LocallyStopped(r) == [r EXCEPT !.localStopped = TRUE, !.localPending = FALSE]

LocallyPending(r, flag) == [r EXCEPT !.localPending = flag]

CreatePrepared(r) == [r EXCEPT !.prepared = TRUE, !.preparedAge = 0,
                               !.started = FALSE, !.observed = FALSE]

StillListed(r) == [r EXCEPT !.absentAge = NoTime, !.releaseRequested = FALSE]

ProviderGone(r) == [r EXCEPT !.providerStopped = TRUE, !.absentAge = NoTime]

FileInit == rec = NoRecord /\ stable = {NoRecord} /\ barrier = FALSE /\ saveFaults = 0

Saves == {"ok", "installed", "failed"}

SaveFault(o) ==
    IF o = "ok" \/ (FaultsForever /\ o = "failed") THEN UNCHANGED saveFaults
    ELSE saveFaults < MaxSaveFaults /\ saveFaults' = saveFaults + 1

\* saveState, and what its result does to the record and the barrier.
Save(r, o) ==
    /\ SaveFault(o)
    /\ rec' = IF o = "failed" THEN rec ELSE r
    /\ stable' = CASE o = "ok" -> {r} [] o = "installed" -> stable \cup {r} [] OTHER -> stable
    /\ barrier' = (IF o = "failed" THEN barrier ELSE o = "installed")

-------------------------------------------------------------------------------
(* Commands that run outside the gate, and what cancels them.              *)

CreateCommands == {"warmGated", "warmRun"}
InspectCommands == {"provInspect", "readyInspect"}
StopCommands == {"confirmRun", "confirmReleasedRun", "confirmAfterRun",
                 "releaseRun", "cleanupRun", "recoverGated", "recoverRun"}

\* cancelOnBarrier: all but the local revocation of a desktop bridge.
BarrierEffects ==
    {a \in {"reconcile"} : rc \in CreateCommands \cup InspectCommands \cup StopCommands}
        \cup {a \in {"desktop"} : desk = "run"}

\* cancelOnTransition, and the create operation DELETE cancels.
TransitionEffects ==
    {a \in {"reconcile"} : rc \in CreateCommands \cup InspectCommands}
        \cup {a \in {"desktop"} : desk = "run"}

CancelledBy(r, o) ==
    (IF o = "installed" THEN BarrierEffects ELSE {})
        \cup (IF o # "failed" /\ r.status = "stopping" THEN TransitionEffects ELSE {})

\* updateRecord with an update that returns true.  A record that no longer
\* needs reconciliation loses its timer: the callers set timer with NextTimer.
Update(r, o) ==
    /\ Save(r, o)
    /\ cancelled' = cancelled \cup CancelledBy(r, o)

\* ensureDurableState: true when no flush is outstanding or the retry succeeds.
Durable ==
    /\ barrier' = FALSE
    /\ stable' = IF barrier THEN {rec} ELSE stable
    /\ UNCHANGED <<rec, saveFaults>>

NotDurable ==
    /\ barrier
    /\ SaveFault("failed")
    /\ cancelled' = cancelled \cup BarrierEffects
    /\ UNCHANGED <<rec, stable, barrier>>

\* scheduleReconcile and scheduleReadyReconcile: what the timer becomes.
Scheduled(r, kind) ==
    IF NeedsReconcile(r) /\ (kind = "ready" => r.status = "ready") THEN kind ELSE "none"

-------------------------------------------------------------------------------
(* Time.                                                                   *)

UpTo(n, limit) == IF n < limit THEN n + 1 ELSE n

Older(r) ==
    [r EXCEPT !.preparedAge = IF r.prepared THEN UpTo(@, CreateTimeout) ELSE @,
              !.absentAge = IF @ = NoTime THEN @ ELSE UpTo(@, CreateTimeout)]
===============================================================================
