--------------------------- MODULE ControllerCleanup ---------------------------
(***************************************************************************)
(* Cleanup by the reconcile goroutine, internal/cli/controller_service.go: *)
(* reconcileReady, which watches a ready workspace and takes it out of     *)
(* service, and stopWorkspace, which revokes the desktop bridge, releases  *)
(* the machine and waits until its absence is stable.                      *)
(***************************************************************************)
EXTENDS ControllerReconcile

-------------------------------------------------------------------------------
(* reconcileReady.                                                         *)

\* ensureDurableState and beginSideEffect.
BeginReadyInspection ==
    /\ Step("readyBegin")
    /\ LET valid == rec.status = "ready"
       IN  \/ Begin(valid) /\ Goto("readyInspect")
           \/ Obsolete(valid) /\ End("keep")
           \/ NotDurable /\ End("retry")
    /\ Idle

InspectReady(a) ==
    /\ Step("readyInspect") /\ Answer(a)
    /\ goal' \in IF a = "mismatch" THEN {"failed"}
                ELSE IF a = "notfound" \/ Expired THEN {"expired"}
                ELSE IF a = "terminal" THEN Finished ELSE {"none"}
    /\ Goto(IF goal' # "none" THEN "leaveReady"
            ELSE IF a = "ready" THEN "markReady" ELSE "inspectionFailed")
    /\ UNCHANGED <<fileVars, res, lag, child, bridge, memoryVars>>

InspectionFailed ==
    /\ Step("inspectionFailed")
    /\ Touch(rec.status = "ready")
    /\ End(IF rec.status = "ready" THEN "ready" ELSE "keep") /\ Idle

\* Mutant: the bridge waits for the transition to be saved.
LeaveReadyWaits ==
    /\ \/ Step("leaveReady") \/ Step("leaveRevoked")
    /\ \/ /\ rec.status = "ready"
          /\ \E o \in Saves :
                /\ Update(ToStopping(rec, goal), o)
                /\ IF o = "failed" THEN End("retry") ELSE Goto("stop")
       \/ rec.status # "ready" /\ UNCHANGED fileVars /\ End("keep")
    /\ UNCHANGED <<runnerVars, memoryVars, goal>>

\* cleanupReadyWorkspace and the terminal revocation's retry: stop once the
\* transition is saved, else revoke the bridge and remember the intent.
LeaveReady ==
    /\ \/ Step("leaveReady") \/ Step("leaveRevoked")
    /\ \/ /\ rec.status = "ready"
          /\ \E o \in Saves :
                /\ Update(ToStopping(rec, goal), o)
                /\ revocation' = IF o = "failed" THEN goal ELSE "none"
                /\ localRetry' = (o = "failed")
                /\ Goto(IF o = "failed" THEN "readyRevoke" ELSE "stop")
       \/ /\ rec.status # "ready"
          /\ IF rc = "leaveRevoked" THEN revocation' = "none" /\ localRetry' = FALSE
                                    ELSE UNCHANGED memoryVars
          /\ UNCHANGED fileVars /\ End("keep")
    /\ UNCHANGED <<runnerVars, goal>>

\* retryReadyLocalCleanup begins, on its own or for a terminal revocation.
\* Whether it was due for the memory flag alone is not kept.
BeginReadyLocal ==
    /\ Step("readyLocal") /\ UNCHANGED fileVars
    /\ \/ rec.status = "ready" /\ Goto("readyLocalRun")
       \/ (rec.status # "ready" \/ ~rec.localPending) /\ End("retry")
    /\ Idle

BeginReadyRevoke ==
    /\ Step("readyRevoke")
    /\ UNCHANGED <<fileVars, runnerVars, revocation, goal>>
    /\ IF rec.status = "ready" THEN Goto("readyRevokeRun") /\ UNCHANGED localRetry
                               ELSE End("retry") /\ localRetry' = FALSE

\* What retryReadyLocalCleanup saves when StopLocal succeeded or failed: the
\* pending flag of a record that is still ready.
SavePending(flag, o) ==
    IF rec.status = "ready" /\ rec.localPending # flag
    THEN Update(LocallyPending(rec, flag), o)
    ELSE o = "ok" /\ UNCHANGED fileVars

ReadyLocalStopped ==
    /\ Step("readyLocalRun") /\ ~bridge
    /\ \E o \in Saves :
          /\ SavePending(FALSE, o)
          /\ localRetry' = (o = "failed" \/ revocation # "none")
          /\ IF localRetry' THEN End("retry")
             ELSE IF rec'.status = "ready" THEN Goto("readyBegin") ELSE End("keep")
    /\ UNCHANGED <<runnerVars, revocation, goal>>

\* A failed StopLocal saves the flag even when it is set.
ReadyLocalFailed ==
    /\ Step("readyLocalRun") /\ Fails("local")
    /\ IF rec.status = "ready"
       THEN \E o \in Saves :
               /\ Update(LocallyPending(rec, TRUE), o)
               /\ localRetry' = (o = "failed")
       ELSE localRetry' = TRUE /\ UNCHANGED fileVars
    /\ End("retry")
    /\ UNCHANGED <<res, lag, child, bridge, revocation, goal>>

\* revokeReadyDesktopAfterTransitionFailure keeps the memory barrier while
\* the record is ready.
ReadyRevokeReturns ==
    /\ Step("readyRevokeRun")
    /\ \/ /\ ~bridge /\ UNCHANGED errs
          /\ \E o \in Saves : SavePending(FALSE, o)
       \/ /\ Fails("local")
          /\ IF rec.status = "ready"
             THEN \E o \in Saves : Update(LocallyPending(rec, TRUE), o)
             ELSE UNCHANGED fileVars
    /\ localRetry' = (rec'.status = "ready")
    /\ End("retry")
    /\ UNCHANGED <<res, lag, child, bridge, revocation, goal>>

-------------------------------------------------------------------------------
(* stopWorkspace: the local bridge first.                                  *)

StopWorkspace ==
    /\ Step("stop")
    /\ Goto(IF rec.localStopped THEN "stopProvider" ELSE "stopLocal")
    /\ UNCHANGED fileVars /\ Idle

LocalStopReturns ==
    /\ Step("stopLocal")
    /\ \/ /\ ~bridge /\ UNCHANGED errs
          /\ \E o \in Saves :
                Update(LocallyStopped(rec), o)
       \/ Fails("local") /\ UNCHANGED fileVars
    /\ Goto("stopProvider")
    /\ UNCHANGED <<res, lag, child, bridge, memoryVars, goal>>

\* Mutant: a release that was asked for is taken to have worked.
StopTrustsRelease ==
    IF rec.providerStopped THEN "stopFinish"
    ELSE IF ~rec.observed THEN "confirm"
    ELSE IF rec.releaseRequested THEN "cleanup"
    ELSE "recordRelease"

\* Without an acknowledged identity only the inventory is read; a release
\* that was asked for before is only repeated for a machine that is there.
StopBranch ==
    IF rec.providerStopped THEN "stopFinish"
    ELSE IF ~rec.observed THEN "confirm"
    ELSE IF rec.releaseRequested THEN "confirmReleased"
    ELSE "recordRelease"

StopProvider ==
    /\ Step("stopProvider")
    /\ \/ Durable /\ UNCHANGED cancelled /\ Goto(StopBranch)
       \/ NotDurable /\ End("retry")
    /\ Idle

-------------------------------------------------------------------------------
(* confirmWorkspaceStopped.                                                *)

BeginConfirm(pc, run) ==
    /\ Step(pc)
    /\ \/ Begin(rec.status = "stopping") /\ Goto(run)
       \/ NotDurable /\ Goto("absenceUnknown")
    /\ Idle

BeginConfirms ==
    \/ BeginConfirm("confirm", "confirmRun")
    \/ BeginConfirm("confirmReleased", "confirmReleasedRun")
    \/ BeginConfirm("confirmAfter", "confirmAfterRun")

\* ConfirmAbsent: the machine is listed, is not, or the list failed.
Confirm(pc, absent, present) ==
    /\ Step(pc)
    /\ \/ res # "present" /\ UNCHANGED errs /\ Goto(absent)
       \/ res = "present" /\ UNCHANGED errs /\ Goto(present)
       \/ Fails("reconcile") /\ Goto("absenceUnknown")
    /\ UNCHANGED <<fileVars, res, lag, child, bridge, memoryVars, goal>>

Confirms ==
    \/ Confirm("confirmRun", "absent", "recover")
    \/ Confirm("confirmReleasedRun", "absent", "releaseBegin")
    \/ Confirm("confirmAfterRun", "absentAnew", "stillPresent")

\* Mutant: the release is not recorded first.
ReleaseUnrecorded ==
    /\ Step("recordRelease")
    /\ UNCHANGED fileVars /\ Goto("releaseBegin") /\ Idle

RecordRelease ==
    /\ Step("recordRelease")
    /\ \E o \in Saves :
          /\ Update([rec EXCEPT !.releaseRequested = TRUE], o)
          /\ Goto(IF o = "failed" THEN "absenceUnknown" ELSE "releaseBegin")
    /\ Idle

BeginRelease ==
    /\ Step("releaseBegin")
    /\ \/ Begin(rec.status = "stopping") /\ Goto("releaseRun")
       \/ NotDurable /\ Goto("confirmAfter")
    /\ Idle

ReleaseReturns ==
    /\ Step("releaseRun")
    /\ \/ res # "present" /\ UNCHANGED errs
       \/ Fails("reconcile")
    /\ Goto("confirmAfter")
    /\ UNCHANGED <<fileVars, res, lag, child, bridge, memoryVars, goal>>

\* recoverStoppingWorkspaceIdentity: acquire the fixed lease again to learn
\* the raw identity of a machine that showed up.
BeginRecover ==
    /\ Step("recover")
    /\ \/ Begin(rec.status = "stopping") /\ child' = "gated" /\ Goto("recoverGated")
       \/ NotDurable /\ UNCHANGED child /\ Goto("absenceUnknown")
    /\ UNCHANGED <<res, lag, bridge, errs, memoryVars, goal>>

LaunchRecover == Step("recoverGated") /\ Launch(rec.status = "stopping", "recoverRun", "absenceUnknown")

RecoverReturns ==
    /\ Step("recoverRun") /\ child # "recorded"
    /\ IF child \in {"acked", "rejected"} THEN UNCHANGED errs ELSE Fails("reconcile")
    /\ child' = "none"
    /\ Goto(IF rec.observed THEN "stop" ELSE "absenceUnknown")
    /\ UNCHANGED <<fileVars, res, lag, bridge, memoryVars, goal>>

-------------------------------------------------------------------------------
(* What stopWorkspace makes of the answer.                                 *)

AbsenceUnknown ==
    /\ Step("absenceUnknown")
    /\ IF rec.absentAge = NoTime THEN UNCHANGED fileVars
       ELSE \E o \in Saves : Update([rec EXCEPT !.absentAge = NoTime], o)
    /\ Goto("stopFinish") /\ Idle

StillPresent ==
    /\ Step("stillPresent")
    /\ IF rec.absentAge = NoTime /\ ~rec.releaseRequested THEN UNCHANGED fileVars
       ELSE \E o \in Saves :
               Update(StillListed(rec), o)
    /\ Goto("stopFinish") /\ Idle

\* Mutant: a create nobody acknowledged is waited for no longer than any other.
AbsentAfterRetry(r) == r.absentAge >= RetryDelay

\* providerAbsenceNotBefore: the later of the retry delay after the first
\* absent answer and, for a create nobody acknowledged, the create timeout
\* after the create was prepared (or after that answer, when it is older).
StableAbsent(r) ==
    /\ r.absentAge >= RetryDelay
    /\ (r.prepared \/ r.started) /\ ~r.observed =>
          r.preparedAge = CreateTimeout \/ r.absentAge = CreateTimeout

\* Mutant: every absent answer starts the wait again.
AbsentRestarts ==
    /\ \/ Step("absent") \/ Step("absentAnew")
    /\ LET r == [rec EXCEPT !.absentAge = 0]
       IN  \E o \in Saves :
              /\ Update(r, o)
              /\ Goto(IF o # "failed" /\ StableAbsent(r) THEN "cleanup" ELSE "stopFinish")
    /\ Idle

Absent ==
    /\ \/ Step("absent") \/ Step("absentAnew")
    /\ LET r == [rec EXCEPT !.absentAge = IF rc = "absentAnew" \/ @ = NoTime THEN 0 ELSE @]
       IN  \E o \in Saves :
              /\ Update(r, o)
              /\ Goto(IF o # "failed" /\ StableAbsent(r) THEN "cleanup" ELSE "stopFinish")
    /\ Idle

\* cleanupStableAbsentWorkspace.
BeginCleanup ==
    /\ Step("cleanup")
    /\ \/ Begin(rec.status = "stopping") /\ Goto("cleanupRun")
       \/ NotDurable /\ Goto("stopFinish")
    /\ Idle

CleanupReturns ==
    /\ Step("cleanupRun")
    /\ \/ /\ UNCHANGED errs
          /\ \E o \in Saves :
                Update(ProviderGone(rec), o)
       \/ Fails("reconcile") /\ UNCHANGED fileVars
    /\ Goto("stopFinish")
    /\ UNCHANGED <<res, lag, child, bridge, memoryVars, goal>>

\* markStopped.
Stopped(r) == [r EXCEPT !.status = IF r.after = "none" THEN "stopped" ELSE r.after,
                        !.after = "none"]

StopFinish ==
    /\ Step("stopFinish")
    /\ \E o \in Saves :
          IF rec.localStopped /\ rec.providerStopped
          THEN Update(Stopped(rec), o) /\ End("keep")
          ELSE Update(rec, o) /\ End("retry")
    /\ Idle

\* reconcile of a stopping workspace whose create was never prepared.
NeverStarted ==
    /\ Step("neverStarted")
    /\ \/ Durable /\ UNCHANGED cancelled /\ Goto("markStopped")
       \/ NotDurable /\ End("retry")
    /\ Idle

MarkStopped ==
    /\ Step("markStopped")
    /\ \E o \in Saves : Update(Stopped(rec), o)
    /\ End("keep") /\ Idle
===============================================================================
