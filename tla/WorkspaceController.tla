-------------------------- MODULE WorkspaceController --------------------------
(***************************************************************************)
(* The workspace adapter for one workspace: the HTTP handlers of           *)
(* internal/cli/controller_service.go, the desktop connection, timers, the *)
(* saves of other workspaces into the same file, crashes, power losses and *)
(* restarts, around the reconcile goroutine of ControllerCleanup.          *)
(***************************************************************************)
EXTENDS ControllerCleanup

CONSTANTS Desktop,     \* the request asked for the desktop capability
          MaxCrashes   \* bound: crashes and power losses

ASSUME ControllerConstants == Desktop \in BOOLEAN /\ MaxCrashes \in Nat

controllerVars == <<fileVars, runnerVars, schedVars, memoryVars, processVars, desk>>

ControllerInit ==
    /\ FileInit /\ RunnerInit
    /\ rc = "idle" /\ pending = FALSE /\ timer = "none" /\ slot = "free" /\ goal = "none"
    /\ desk = "idle" /\ cancelled = {}
    /\ localRetry = FALSE /\ revocation = "none"
    /\ ttl = TTL /\ up = TRUE /\ crashes = 0 /\ created = FALSE /\ deleted = FALSE

-------------------------------------------------------------------------------
(* POST, GET and DELETE.                                                   *)

Handler == up /\ UNCHANGED <<runnerVars, memoryVars, slot, goal, desk, ttl, up, crashes>>

\* createWorkspace of a new ID.
CreateWorkspace ==
    /\ Handler /\ rec = NoRecord
    /\ \E o \in Saves :
          /\ Update([NoRecord EXCEPT !.status = "provisioning"], o)
          /\ created' = (created \/ o = "ok")
          /\ IF o = "failed" THEN UNCHANGED <<rc, pending, timer>> ELSE Enqueue
    /\ UNCHANGED deleted

\* createWorkspace of the same request again.
RepeatCreate ==
    /\ Handler /\ rec # NoRecord /\ ~created
    /\ \/ Durable /\ created' = TRUE /\ UNCHANGED <<cancelled, rc, pending, timer>>
       \/ NotDurable /\ UNCHANGED created /\ Enqueue
    /\ UNCHANGED deleted

GetWorkspace ==
    /\ Handler /\ NeedsReconcile(rec)
    /\ Enqueue
    /\ UNCHANGED <<fileVars, created, deleted>>

\* Mutant: DELETE leaves the running commands alone.
DeleteWithoutCancel ==
    /\ Handler /\ rec.status \in {"provisioning", "ready", "failed", "expired"}
    /\ \E o \in Saves :
          /\ Save(ToStopping(rec, "none"), o)
          /\ UNCHANGED cancelled
          /\ deleted' = (deleted \/ o = "ok")
          /\ IF o = "failed" THEN UNCHANGED <<rc, pending, timer>> ELSE Enqueue
    /\ UNCHANGED created

\* deleteWorkspace.
DeleteWorkspace ==
    /\ Handler /\ rec.status \in {"provisioning", "ready", "failed", "expired"}
    /\ \E o \in Saves :
          /\ Update(ToStopping(rec, "none"), o)
          /\ deleted' = (deleted \/ o = "ok")
          /\ IF o = "failed" THEN UNCHANGED <<rc, pending, timer>> ELSE Enqueue
    /\ UNCHANGED created

RepeatDelete ==
    /\ Handler /\ rec.status = "stopping" /\ ~deleted
    /\ \/ Durable /\ deleted' = TRUE /\ UNCHANGED cancelled
       \/ NotDurable /\ UNCHANGED deleted
    /\ Enqueue
    /\ UNCHANGED created

DeleteStopped ==
    /\ Handler /\ rec.status = "stopped" /\ ~deleted
    /\ \/ Durable /\ deleted' = TRUE /\ UNCHANGED cancelled
       \/ NotDurable /\ UNCHANGED deleted
    /\ timer' = "none"
    /\ UNCHANGED <<rc, pending, created>>

\* A save for another workspace: the file is one, and so is the barrier.
OtherSave ==
    /\ Handler
    /\ \E o \in {"ok", "installed"} :
          /\ o = "ok" => barrier
          /\ Save(rec, o)
          /\ cancelled' = cancelled \cup (IF o = "ok" THEN {} ELSE BarrierEffects)
    /\ UNCHANGED <<rc, pending, timer, created, deleted>>

TimerFires ==
    /\ Handler /\ timer # "none"
    /\ IF Scheduled(rec, timer) # "none" THEN Enqueue
       ELSE timer' = "none" /\ UNCHANGED <<rc, pending>>
    /\ UNCHANGED <<fileVars, created, deleted>>

-------------------------------------------------------------------------------
(* POST .../connections/desktop.  slot is "desktop" while the request holds *)
(* the workspace's connection slot.                                        *)

DeskStep(pc) == up /\ desk = pc /\ UNCHANGED <<processVars, goal, res, lag, child, bridge>>

DeskGoto(pc) == desk' = pc

\* The request ends, and with it its hold on the slot.
DeskEnd == desk' = "idle" /\ slot' = IF slot = "desktop" THEN "free" ELSE slot

Cleaning == rec.localPending \/ localRetry \/ revocation # "none"

\* The checks before the request waits for the slot.
DesktopArrives ==
    /\ DeskStep("idle") /\ Desktop /\ rec.status = "ready"
    /\ \/ /\ Expired /\ DeskGoto("expire")
          /\ UNCHANGED <<fileVars, rc, pending, timer>>
       \/ /\ ~Expired /\ Cleaning /\ Enqueue
          /\ UNCHANGED <<fileVars, desk>>
       \/ /\ ~Expired /\ ~Cleaning
          /\ \/ Durable /\ UNCHANGED <<cancelled, timer>> /\ DeskGoto("wait")
             \/ NotDurable /\ timer' = Scheduled(rec, "retry") /\ UNCHANGED desk
          /\ UNCHANGED <<rc, pending>>
    /\ UNCHANGED <<slot, errs, memoryVars>>

\* Mutant: the record is not looked at again once the slot is held.
DesktopStartsUnchecked ==
    /\ DeskStep("wait") /\ slot = "free"
    /\ Durable /\ cancelled' = cancelled \ {"desktop"}
    /\ DeskGoto("run") /\ slot' = "desktop"
    /\ UNCHANGED <<rc, pending, timer, errs, memoryVars>>

\* With the slot: the same checks again, then beginSideEffect, which finds a
\* deadline that passed meanwhile.
DesktopStarts ==
    /\ DeskStep("wait") /\ slot = "free"
    /\ \/ /\ rec.status # "ready" \/ Cleaning \/ Expired
          /\ DeskGoto("idle") /\ UNCHANGED <<fileVars, slot, timer>>
       \/ /\ rec.status = "ready" /\ ~Cleaning /\ Expired
          /\ DeskGoto("expire") /\ slot' = "desktop" /\ UNCHANGED <<fileVars, timer>>
       \/ /\ rec.status = "ready" /\ ~Cleaning /\ ~Expired
          /\ \/ /\ Durable /\ cancelled' = cancelled \ {"desktop"}
                /\ DeskGoto("run") /\ slot' = "desktop" /\ UNCHANGED timer
             \/ /\ NotDurable /\ timer' = Scheduled(rec, "retry")
                /\ DeskGoto("idle") /\ UNCHANGED slot
    /\ UNCHANGED <<rc, pending, errs, memoryVars>>

\* The request is cancelled, or its time is up, before it has the slot.
DesktopGivesUp ==
    /\ DeskStep("wait")
    /\ DeskGoto("idle")
    /\ UNCHANGED <<fileVars, rc, pending, timer, slot, errs, memoryVars>>

\* DesktopConnection returns; a cancelled setup counts as failed.
DesktopReturns ==
    /\ DeskStep("run")
    /\ \/ bridge /\ "desktop" \notin cancelled /\ UNCHANGED errs /\ DeskGoto("check")
       \/ Fails("desktop") /\ DeskGoto("revokeRun")
    /\ UNCHANGED <<fileVars, rc, pending, timer, slot, memoryVars>>

\* The final checks, under the gate: hand the URL out, or revoke the bridge,
\* as for a request that was cancelled meanwhile.
DesktopHandsOff ==
    /\ DeskStep("check")
    /\ \/ /\ rec.status = "ready" /\ ~Cleaning /\ ~Expired /\ ~barrier
          /\ DeskEnd
       \/ /\ rec.status = "ready" /\ Expired
          /\ DeskGoto("expireHandoff") /\ UNCHANGED slot
       \/ /\ ~(rec.status = "ready" /\ Expired)
          /\ DeskGoto("revokeRun") /\ UNCHANGED slot
    /\ UNCHANGED <<fileVars, rc, pending, timer, errs, memoryVars>>

\* enqueueReadyWorkspaceCleanup; after a handoff the bridge is then revoked.
DesktopExpires ==
    /\ \/ DeskStep("expire") \/ DeskStep("expireHandoff")
    /\ LET after == IF desk = "expire" THEN DeskEnd ELSE DeskGoto("revokeRun") /\ UNCHANGED slot
       IN  \/ /\ rec.status = "ready"
              /\ \E o \in Saves :
                    /\ Update(ToStopping(rec, "expired"), o)
                    /\ revocation' = IF o = "failed" THEN "expired" ELSE "none"
                    /\ localRetry' = (o = "failed")
                    /\ IF o # "failed" THEN after /\ Enqueue
                       ELSE /\ DeskGoto(IF desk = "expire" THEN "expireRun" ELSE "expireHandoffRun")
                            /\ UNCHANGED <<slot, rc, pending, timer>>
           \/ /\ rec.status # "ready" /\ after
              /\ UNCHANGED <<fileVars, memoryVars, rc, pending, timer>>
    /\ UNCHANGED errs

\* revokeReadyDesktopAfterTransitionFailure in the request.
DesktopExpiryRevokes ==
    /\ \/ DeskStep("expireRun") \/ DeskStep("expireHandoffRun")
    /\ \/ /\ ~bridge /\ UNCHANGED errs
          /\ \E o \in Saves : SavePending(FALSE, o)
       \/ /\ Fails("local")
          /\ IF rec.status = "ready"
             THEN \E o \in Saves : Update(LocallyPending(rec, TRUE), o)
             ELSE UNCHANGED fileVars
    /\ localRetry' = (rec'.status = "ready")
    /\ timer' = Scheduled(rec', "retry")
    /\ IF desk = "expireRun" THEN DeskEnd ELSE DeskGoto("revokeRun") /\ UNCHANGED slot
    /\ UNCHANGED <<rc, pending, revocation>>

\* After revokeDesktopBridge, a setup the durability barrier cancelled is
\* scheduled again; which error it was is not kept.
RevokeSchedules(kept) == timer' \in {kept, Scheduled(rec', "retry")}

\* revokeDesktopBridge.
DesktopRevoked ==
    /\ DeskStep("revokeRun") /\ ~bridge
    /\ \E o \in Saves :
          CASE rec.status = "stopping" ->
                 Update(LocallyStopped(rec), o)
            [] rec.status = "ready" -> Update(LocallyPending(rec, FALSE), o)
            [] OTHER -> o = "ok" /\ UNCHANGED fileVars
    /\ RevokeSchedules(timer) /\ DeskEnd
    /\ UNCHANGED <<rc, pending, errs, memoryVars>>

\* persistReadyLocalCleanupPending.
DesktopRevokeFails ==
    /\ DeskStep("revokeRun") /\ Fails("local")
    /\ IF rec.status = "ready"
       THEN \E o \in Saves :
               /\ Update(LocallyPending(rec, TRUE), o)
               /\ localRetry' = (o = "failed" /\ ~rec.localPending)
               /\ timer' = Scheduled(rec', "retry")
       ELSE localRetry' = FALSE /\ UNCHANGED fileVars /\ RevokeSchedules(timer)
    /\ DeskEnd
    /\ UNCHANGED <<rc, pending, revocation>>

-------------------------------------------------------------------------------
(* Time, crashes and restarts.                                             *)

\* An accepted create shows up before its lag is over.  Nothing ties the clock
\* to the goroutine: an inventory answer may be old when it is used.
Tick ==
    /\ res = "creating" => lag > 0
    /\ lag' = IF res = "creating" THEN lag - 1 ELSE lag
    /\ rec' = Older(rec) /\ stable' = {Older(r) : r \in stable}
    /\ ttl' = IF ttl > 0 /\ rec # NoRecord THEN ttl - 1 ELSE ttl
    /\ UNCHANGED <<barrier, saveFaults, cancelled, res, child, bridge, errs, schedVars,
                   memoryVars, up, crashes, created, deleted, desk>>

\* What a dead process leaves behind: the commands it had running.
Commands == CreateCommands \cup InspectCommands \cup StopCommands \cup LocalStops

Dies ==
    /\ crashes < MaxCrashes /\ crashes' = crashes + 1
    /\ up' = FALSE /\ pending' = FALSE /\ timer' = "none" /\ slot' = "free" /\ goal' = "none"
    /\ cancelled' = {} /\ localRetry' = FALSE /\ revocation' = "none"
    /\ UNCHANGED <<saveFaults, res, lag, errs, ttl, created, deleted>>

\* The process is killed, or shut down: the installed file stays.
Crash ==
    /\ up /\ Dies
    /\ rc' = IF rc \in Commands THEN rc ELSE "idle"
    /\ desk' = IF desk = "run" THEN desk ELSE "idle"
    /\ child' = IF child = "running" THEN child ELSE "none"
    /\ UNCHANGED <<rec, stable, barrier, bridge>>

\* The machine goes down: an unflushed rename may be undone.
PowerLoss ==
    /\ Dies
    /\ rec' \in stable /\ stable' = {rec'} /\ barrier' = FALSE
    /\ rc' = "idle" /\ desk' = "idle" /\ child' = "none" /\ bridge' = FALSE

\* Mutant: the loaded snapshot is trusted to be on disk.
RestartTrustsFile ==
    /\ ~up
    /\ up' = TRUE /\ barrier' = FALSE
    /\ child' = "none" /\ desk' = "idle"
    /\ rc' = IF NeedsReconcile(rec) THEN "queued" ELSE "idle"
    /\ UNCHANGED <<rec, stable, saveFaults, cancelled, res, lag, bridge, errs, pending, timer, slot, goal,
                   memoryVars, ttl, crashes, created, deleted>>

\* newControllerService and startReconciliation: the snapshot is saved again
\* and every recorded child killed before anything is reconciled.
Restart ==
    /\ ~up
    /\ up' = TRUE /\ stable' = {rec} /\ barrier' = FALSE
    /\ child' = "none" /\ desk' = "idle"
    /\ rc' = IF NeedsReconcile(rec) THEN "queued" ELSE "idle"
    /\ UNCHANGED <<rec, saveFaults, cancelled, res, lag, bridge, errs, pending, timer, slot, goal,
                   memoryVars, ttl, crashes, created, deleted>>

-------------------------------------------------------------------------------
(* The specification.                                                      *)

Requests ==
    \/ CreateWorkspace \/ RepeatCreate \/ GetWorkspace
    \/ DeleteWorkspace \/ RepeatDelete \/ DeleteStopped

DesktopSteps ==
    \/ DesktopStarts \/ DesktopGivesUp \/ DesktopReturns \/ DesktopHandsOff \/ DesktopExpires
    \/ DesktopExpiryRevokes \/ DesktopRevoked \/ DesktopRevokeFails

ReconcileSteps ==
    \/ TakeSlot \/ DispatchFinished \/ DispatchStopping \/ DispatchProvisioning
    \/ DispatchReady \/ Finish
    \/ Provisioning \/ ProvisioningWaits \/ BeginProvisioningInspection
    \/ \E a \in Answers : InspectProvisioning(a)
    \/ MarkReady \/ LeaveProvisioning \/ FailProvisioning \/ Prepare \/ BeginCreate
    \/ LaunchCreate \/ PersistAcquiredIdentity \/ AcknowledgeIdentity \/ WarmupReturns \/ WarmupFails \/ CreateFailed
    \/ BeginReadyInspection \/ (\E a \in Answers : InspectReady(a)) \/ InspectionFailed
    \/ LeaveReady \/ BeginReadyLocal \/ BeginReadyRevoke
    \/ ReadyLocalStopped \/ ReadyLocalFailed \/ ReadyRevokeReturns
    \/ StopWorkspace \/ LocalStopReturns \/ StopProvider
    \/ BeginConfirms \/ Confirms \/ RecordRelease \/ BeginRelease \/ ReleaseReturns
    \/ BeginRecover \/ LaunchRecover \/ RecoverReturns
    \/ AbsenceUnknown \/ StillPresent \/ Absent \/ BeginCleanup \/ CleanupReturns
    \/ StopFinish \/ NeverStarted \/ MarkStopped

External == Outside /\ UNCHANGED <<fileVars, schedVars, memoryVars, processVars, desk>>

ControllerNext ==
    \/ Requests \/ OtherSave \/ TimerFires \/ DesktopArrives \/ DesktopSteps \/ ReconcileSteps
    \/ External \/ Tick \/ Crash \/ PowerLoss \/ Restart

ControllerSpec == ControllerInit /\ [][ControllerNext]_controllerVars

\* The goroutine and the requests are scheduled, commands take effect and
\* return, timers fire, time passes and a dead adapter is started again.  The
\* slot is a channel, which serves who waits in order.  No client is assumed
\* to send a request.
ControllerFairness ==
    /\ WF_controllerVars(ReconcileSteps) /\ SF_controllerVars(TakeSlot)
    /\ WF_controllerVars(DesktopSteps) /\ WF_controllerVars(TimerFires)
    /\ WF_controllerVars(External) /\ WF_controllerVars(Tick) /\ WF_controllerVars(Restart)

FairController == ControllerSpec /\ ControllerFairness

-------------------------------------------------------------------------------
(* Properties.  What must hold of the record must hold of every record a   *)
(* crash or a power loss may leave.                                        *)

OnRecord == stable \cup {rec}

ControllerTypeOK ==
    /\ rec \in Records /\ stable \subseteq Records /\ stable # {}
    /\ barrier \in BOOLEAN /\ saveFaults \in 0 .. MaxSaveFaults
    /\ cancelled \subseteq {"reconcile", "desktop"}
    /\ timer \in {"none", "retry", "ready"}
    /\ res \in {"none", "creating", "present"} /\ lag \in 0 .. ProviderLag
    /\ child \in Children /\ bridge \in BOOLEAN /\ errs \in 0 .. MaxErrors
    /\ pending \in BOOLEAN /\ slot \in {"free", "reconcile", "desktop"}
    /\ goal \in {"none"} \cup Finished /\ revocation \in {"none"} \cup Finished
    /\ localRetry \in BOOLEAN /\ ttl \in 0 .. TTL /\ up \in BOOLEAN
    /\ crashes \in 0 .. MaxCrashes /\ created \in BOOLEAN /\ deleted \in BOOLEAN

\* What the adapter's documentation promises: no record that ends or never
\* began a workspace leaves a machine, or a command that may still ask for one.
NoOrphan ==
    \A r \in OnRecord : r.status \in {"none"} \cup Finished => res = "none" /\ child # "running"

\* The part of it that is the code's alone: it holds of a workspace whose
\* machine was acknowledged, or for which none was ever asked, however late the
\* provider is, whatever it loses and however old an inventory answer is.
NoKnownOrphan ==
    \A r \in OnRecord :
        r.status \in {"none"} \cup Finished /\ (r.observed \/ ~r.prepared) =>
            res = "none" /\ child # "running"

\* A create nobody acknowledged is not given up, in any record a power loss may
\* leave, before the create timeout since it was prepared is over.
LateCreateAwaited ==
    \A r \in OnRecord :
        r.prepared /\ ~r.observed /\ (r.providerStopped \/ r.status \in Finished) =>
            r.preparedAge = CreateTimeout

\* Once a record says that the local bridge is stopped, or that the workspace
\* is finished, no WebVNC daemon holds its credentials: nobody would stop it.
BridgeRevoked ==
    \A r \in OnRecord : r.localStopped \/ r.status \in Finished => ~bridge

\* A warmup child only goes on once its raw identity would survive a power
\* loss: stop can name the machine whatever happens next.
IdentityIsDurable == child = "acked" => \A r \in stable : r.observed

\* A destructive release only runs while every record a restart may find says
\* that it was asked for, so it is not repeated blindly.
ReleaseIsRecorded ==
    up /\ rc = "releaseRun" => \A r \in stable : r.status = "stopping" /\ r.releaseRequested

\* What a client was told survives a power loss: an accepted workspace is not
\* forgotten, an accepted DELETE is not undone.
AcknowledgedIsDurable ==
    /\ created => NoRecord \notin OnRecord
    /\ deleted => \A r \in OnRecord : r.status \in {"stopping"} \cup Finished

\* A running adapter that still has work for a workspace has a goroutine or a
\* timer for it.
NoLostWakeup == up /\ NeedsReconcile(rec) => rc # "idle" \/ timer # "none"

\* A command that runs although a flush is outstanding, or although the
\* workspace it serves is to stop, has been cancelled; only the local
\* revocation and the stop itself go on.
CommandsAreCurrent ==
    up => /\ barrier => BarrierEffects \subseteq cancelled
          /\ rec.status = "stopping" => TransitionEffects \subseteq cancelled

\* A workspace whose stop is durable is stopped in the end.
StoppingSettles == rec.status = "stopping" /\ ~barrier ~> rec.status \in Finished

\* A workspace that is being provisioned becomes ready or is given up.
ProvisioningSettles == rec.status = "provisioning" ~> rec.status # "provisioning"

\* An expired workspace loses its bridge even if no save ever works again.
ExpiredBridgeRevoked == Expired /\ bridge ~> ~bridge
===============================================================================
