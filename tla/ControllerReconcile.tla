-------------------------- MODULE ControllerReconcile --------------------------
(***************************************************************************)
(* The reconcile goroutine of one workspace,                               *)
(* internal/cli/controller_service.go: enqueue, reconcile and the three    *)
(* machines it drives (provisioning, ready, stopping).  At most one        *)
(* goroutine per workspace is active; rc says where it is.  A step ends    *)
(* where the code leaves the gate or starts a command.  Saves that only    *)
(* change a message save the record as it is.                              *)
(***************************************************************************)
EXTENDS ControllerRunner

CONSTANT TTL   \* the requested lifetime in ticks; 0: none

ASSUME TTLAssumption == TTL \in Nat

VARIABLES pending,     \* s.pending: a wakeup while the goroutine was active
          slot,        \* the workspace's connection slot
          goal,        \* the terminal status a cleanup is for
          localRetry,  \* s.localCleanupRetry
          revocation,  \* s.terminalRevocation, its terminal status
          ttl,         \* ticks until ControllerExpiresAt
          up,          \* the adapter process runs
          crashes,     \* crashes so far
          created,     \* some POST was answered 200 or 202
          deleted      \* some DELETE was answered 200 or 202

schedVars   == <<rc, pending, timer, slot, goal>>
memoryVars  == <<localRetry, revocation>>
processVars == <<ttl, up, crashes, created, deleted>>

Expired == TTL > 0 /\ ttl = 0

\* enqueue: one goroutine per workspace, and a note for it when it is busy.
Enqueue ==
    /\ timer' = "none"
    /\ IF rc = "idle" THEN rc' = "queued" /\ UNCHANGED pending
                      ELSE pending' = TRUE /\ UNCHANGED rc

Step(pc) == up /\ rc = pc /\ UNCHANGED <<desk, processVars>>

Goto(pc) == rc' = pc /\ UNCHANGED <<pending, timer, slot>>

\* reconcile returns; kind says which timer it set last, "keep" none.
End(kind) ==
    /\ rc' = "done"
    /\ timer' = IF kind # "keep" THEN Scheduled(rec', kind)
                ELSE IF NeedsReconcile(rec') THEN timer ELSE "none"
    /\ UNCHANGED <<pending, slot>>

\* beginSideEffect for a command that waits for the durability barrier.
Begin(valid) == Durable /\ valid /\ cancelled' = cancelled \ {"reconcile"}

Obsolete(valid) == Durable /\ ~valid /\ UNCHANGED cancelled

\* updateRecord for a message: the record is saved as it is.
Touch(when) ==
    IF when THEN \E o \in Saves : Update(rec, o) ELSE UNCHANGED fileVars

Idle == UNCHANGED <<runnerVars, memoryVars, goal>>

-------------------------------------------------------------------------------
(* enqueue's goroutine and reconcile.                                      *)

TakeSlot ==
    /\ Step("queued") /\ slot = "free"
    /\ slot' = "reconcile" /\ rc' = "reconcile"
    /\ UNCHANGED <<pending, timer, fileVars>> /\ Idle

DispatchFinished ==
    /\ Step("reconcile") /\ ~NeedsReconcile(rec)
    /\ UNCHANGED fileVars /\ End("keep") /\ Idle

DispatchStopping ==
    /\ Step("reconcile") /\ rec.status = "stopping"
    /\ localRetry' = FALSE
    /\ Goto(IF rec.prepared \/ rec.started THEN "stop" ELSE "neverStarted")
    /\ UNCHANGED <<fileVars, runnerVars, revocation, goal>>

DispatchProvisioning ==
    /\ Step("reconcile") /\ rec.status = "provisioning"
    /\ \/ Durable /\ UNCHANGED cancelled /\ Goto("provisioning")
       \/ NotDurable /\ End("retry")
    /\ Idle

DispatchReady ==
    /\ Step("reconcile") /\ rec.status = "ready"
    /\ goal' = IF revocation # "none" THEN revocation
               ELSE IF Expired THEN "expired" ELSE "none"
    /\ Goto(IF revocation # "none" THEN "leaveRevoked"
            ELSE IF Expired THEN "leaveReady"
            ELSE IF rec.localPending \/ localRetry THEN "readyLocal"
            ELSE "readyBegin")
    /\ UNCHANGED <<fileVars, runnerVars, memoryVars>>

\* Mutant: nothing is scheduled for a workspace that is left stopping.
FinishForgetsRetry ==
    /\ Step("done")
    /\ slot' = "free" /\ pending' = FALSE
    /\ IF pending THEN rc' = "queued" /\ timer' = "none" ELSE rc' = "idle" /\ UNCHANGED timer
    /\ goal' = "none" /\ cancelled' = cancelled \ {"reconcile"}
    /\ UNCHANGED <<rec, stable, barrier, saveFaults, runnerVars, memoryVars>>

\* The deferred function of enqueue's goroutine.
Finish ==
    /\ Step("done")
    /\ slot' = "free" /\ pending' = FALSE
    /\ IF pending THEN rc' = "queued" /\ timer' = "none"
       ELSE rc' = "idle" /\ timer' = IF rec.status = "stopping" THEN "retry" ELSE timer
    /\ goal' = "none" /\ cancelled' = cancelled \ {"reconcile"}
    /\ UNCHANGED <<rec, stable, barrier, saveFaults, runnerVars, memoryVars>>

-------------------------------------------------------------------------------
(* reconcileProvisioning.                                                  *)

\* Mutant: provisioning has no deadline of its own.
ProvisioningNeverExpires == Expired

\* provisioningExpired.
ProvisioningExpired == Expired \/ rec.preparedAge = CreateTimeout

ProvisioningBranch ==
    IF Expired THEN "leaveProvisioning"
    ELSE IF rec.observed THEN "provInspectBegin"
    ELSE IF (rec.prepared \/ rec.started) /\ rec.preparedAge < CreateTimeout THEN "provWait"
    ELSE "prepare"

Provisioning ==
    /\ Step("provisioning")
    /\ goal' = "expired" /\ Goto(ProvisioningBranch)
    /\ UNCHANGED <<fileVars, runnerVars, memoryVars>>

ProvisioningWaits ==
    /\ Step("provWait")
    /\ Touch(rec.status = "provisioning") /\ End("retry") /\ Idle

BeginProvisioningInspection ==
    /\ Step("provInspectBegin")
    /\ LET valid == rec.status = "provisioning" /\ (rec.prepared \/ rec.started)
       IN  \/ Begin(valid) /\ Goto("provInspect")
           \/ Obsolete(valid) /\ End("keep")
           \/ NotDurable /\ End("retry")
    /\ Idle

\* A found machine's expiry is saved whatever the answer is.
InspectProvisioning(a) ==
    /\ Step("provInspect") /\ Answer(a)
    /\ Touch(a \in {"ready", "pending", "terminal"})
    /\ goal' = IF Expired THEN "expired" ELSE "failed"
    /\ Goto(IF a = "mismatch" THEN "failUnidentified"
            ELSE IF a = "notfound" THEN "failProvisioning"
            ELSE IF a = "error" THEN IF ProvisioningExpired THEN "failUnidentified" ELSE "provWait"
            ELSE IF Expired THEN "leaveProvisioning"
            ELSE IF a = "ready" THEN "markReady"
            ELSE IF a = "terminal" \/ ProvisioningExpired THEN "failProvisioning"
            ELSE "provWait")
    /\ UNCHANGED <<res, lag, child, bridge, memoryVars>>

\* markReady: a concurrent DELETE keeps the record stopping.
MarkReady ==
    /\ Step("markReady")
    /\ \E o \in Saves :
          /\ Update([rec EXCEPT !.status = IF @ = "stopping" THEN @ ELSE "ready"], o)
          /\ End(IF o = "failed" THEN "retry"
                 ELSE IF rec'.status = "ready" THEN "ready" ELSE "keep")
    /\ Idle

\* cleanupProvisioningWorkspace.
LeaveProvisioning ==
    /\ Step("leaveProvisioning")
    /\ IF rec.status # "provisioning" THEN UNCHANGED fileVars /\ End("keep")
       ELSE \E o \in Saves :
               /\ Update(ToStopping(rec, goal), o)
               /\ IF o = "failed" THEN End("retry") ELSE Goto("stop")
    /\ Idle

\* finishProvisioningFailure; without a lease ID a stopping record is not saved.
FailProvisioning ==
    /\ \/ Step("failProvisioning") \/ Step("failUnidentified")
    /\ \/ /\ rec.status = "provisioning"
          /\ \E o \in Saves :
                /\ Update(ToStopping(rec, "failed"), o)
                /\ IF o = "failed" THEN End("retry") ELSE Goto("stop")
       \/ /\ rec.status = "stopping" /\ rc = "failProvisioning" /\ rec.observed
          /\ \E o \in Saves :
                /\ Update(rec, o)
                /\ IF o = "failed" THEN End("retry") ELSE Goto("stop")
       \/ /\ rec.status = "stopping" /\ (rc = "failUnidentified" \/ ~rec.observed)
          /\ UNCHANGED fileVars /\ Goto("stop")
    /\ Idle

Prepare ==
    /\ Step("prepare")
    /\ IF rec.status # "provisioning" THEN UNCHANGED fileVars /\ End("keep")
       ELSE \E o \in Saves :
               /\ Update(CreatePrepared(rec), o)
               /\ IF o = "failed" THEN End("retry") ELSE Goto("createBegin")
    /\ Idle

\* ensureDurableState, beginCreateOperation and beginSideEffect.
BeginCreate ==
    /\ Step("createBegin")
    /\ LET valid == rec.status = "provisioning" /\ rec.prepared
       IN  \/ Begin(valid) /\ child' = "gated" /\ Goto("warmGated")
           \/ Obsolete(valid) /\ UNCHANGED child /\ End("keep")
           \/ NotDurable /\ UNCHANGED child /\ End("retry")
    /\ UNCHANGED <<res, lag, bridge, errs, memoryVars, goal>>

-------------------------------------------------------------------------------
(* Warmup: the child waits behind its gate until CreateStarted is durable, *)
(* and reports the raw identity before it goes on.                         *)

\* r is the started record, next where the goroutine goes on failure.
Launch(valid, run, next) ==
    /\ child = "gated"
    /\ \/ /\ valid /\ "reconcile" \notin cancelled
          /\ Update([rec EXCEPT !.started = TRUE], "ok")
          /\ child' = "running" /\ UNCHANGED errs /\ Goto(run)
       \/ /\ valid
          /\ \E o \in Saves :
                /\ o = "ok" => "reconcile" \in cancelled
                /\ Update([rec EXCEPT !.started = TRUE], o)
          /\ child' = "none" /\ UNCHANGED errs /\ Goto(next)
       \/ /\ Fails("reconcile") \/ (~valid /\ UNCHANGED errs)
          /\ UNCHANGED fileVars
          /\ child' = "none" /\ Goto(next)
    /\ UNCHANGED <<res, lag, bridge, memoryVars, goal>>

LaunchCreate == Step("warmGated") /\ Launch(rec.status = "provisioning", "warmRun", "warmFailed")

\* persistAcquiredIdentity, called by the acquire identity gate: the identity
\* is saved, and acknowledged once it is durable.
PersistAcquiredIdentity ==
    /\ up /\ child = "running" /\ res = "present"
    /\ \/ /\ ~rec.observed
          /\ \E o \in Saves :
                /\ Update([rec EXCEPT !.observed = TRUE], o)
                /\ child' = IF o = "failed" THEN "rejected" ELSE "recorded"
       \/ rec.observed /\ child' = "recorded" /\ UNCHANGED fileVars
    /\ UNCHANGED <<schedVars, desk, res, lag, bridge, errs, memoryVars, processVars>>

\* Mutant: the child is let go on although the identity is not durable.
AcknowledgeEarly ==
    /\ up /\ child = "recorded"
    /\ \/ Durable /\ UNCHANGED cancelled
       \/ NotDurable
    /\ child' = "acked"
    /\ UNCHANGED <<schedVars, desk, res, lag, bridge, errs, memoryVars, processVars>>

AcknowledgeIdentity ==
    /\ up /\ child = "recorded"
    /\ \/ Durable /\ UNCHANGED cancelled /\ child' = "acked"
       \/ NotDurable /\ child' = "rejected"
    /\ UNCHANGED <<schedVars, desk, res, lag, bridge, errs, memoryVars, processVars>>

\* The child's tree is terminated and reaped before Warmup returns.
WarmupReturns ==
    /\ Step("warmRun") /\ child = "acked"
    /\ child' = "none"
    /\ Touch(rec.status = "provisioning") /\ End("retry")
    /\ UNCHANGED <<res, lag, bridge, errs, memoryVars, goal>>

WarmupFails ==
    /\ Step("warmRun") /\ child # "recorded"
    /\ IF child = "rejected" THEN UNCHANGED errs ELSE Fails("reconcile")
    /\ child' = "none" /\ Goto("warmFailed")
    /\ UNCHANGED <<fileVars, res, lag, bridge, memoryVars, goal>>

CreateFailed ==
    /\ Step("warmFailed")
    /\ goal' = IF rec.observed /\ Expired THEN "expired" ELSE "failed"
    /\ Goto(IF rec.observed
            THEN IF Expired THEN "leaveProvisioning" ELSE "failProvisioning"
            ELSE IF rec.status = "provisioning" THEN "leaveProvisioning" ELSE "stop")
    /\ UNCHANGED <<fileVars, runnerVars, memoryVars>>
===============================================================================
