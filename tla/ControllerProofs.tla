--------------------------- MODULE ControllerProofs ---------------------------
(***************************************************************************)
(* Theorems about the workspace adapter of WorkspaceController, for every  *)
(* timeout, lag and number of failing saves, failing commands, crashes and *)
(* power losses.                                                           *)
(*                                                                         *)
(* The inductive invariant has one part per concern: the file, where the   *)
(* goroutine may be with which record, the connection slot, the child, what*)
(* clients were told, the bridge, the wakeups, the running commands and    *)
(* (MachineInv) the machine.  Nothing is assumed of the provider: it may   *)
(* list a machine however late, lose it, and answer before time passes.    *)
(***************************************************************************)
EXTENDS WorkspaceController, TLAPS

-------------------------------------------------------------------------------
(* The invariant.                                                          *)

\* A provisioning or ready workspace has nothing of a cleanup on record, and a
\* machine is only heard of after its create was prepared.
RecordOK(r) ==
    /\ r.status = "none" => r = NoRecord
    /\ r.status \in {"provisioning", "ready"} =>
          ~r.localStopped /\ ~r.providerStopped /\ r.absentAge = NoTime
    /\ r.status = "ready" \/ r.started \/ r.observed => r.prepared

\* The installed record is one a power loss may leave, and the only one unless
\* a flush is outstanding.
FileInv ==
    /\ rec \in stable /\ (~barrier => stable = {rec})
    /\ \A r \in stable : RecordOK(r)

ProvisionPcs ==
    {"provisioning", "provWait", "provInspectBegin", "provInspect", "leaveProvisioning",
     "failProvisioning", "failUnidentified", "prepare", "createBegin", "warmGated",
     "warmRun", "warmFailed"}

ReadyPcs ==
    {"readyBegin", "readyInspect", "inspectionFailed", "leaveReady", "leaveRevoked",
     "readyLocal", "readyLocalRun", "readyRevoke", "readyRevokeRun"}

NeverPcs   == {"neverStarted", "markStopped"}
ReleasePcs == {"confirmReleased", "confirmReleasedRun", "releaseBegin", "releaseRun"}
RecoverPcs == {"confirm", "confirmRun", "recover", "recoverGated", "recoverRun"}

StopPcs ==
    {"stop", "stopLocal", "stopProvider", "confirmAfter", "confirmAfterRun", "recordRelease",
     "absenceUnknown", "stillPresent", "absent", "absentAnew", "cleanup", "cleanupRun",
     "stopFinish"} \cup NeverPcs \cup ReleasePcs \cup RecoverPcs

PreparedPcs ==
    ReadyPcs \cup {"markReady", "provInspectBegin", "provInspect", "createBegin", "warmGated",
                   "warmRun", "recover", "recoverGated", "recoverRun"}

\* What the goroutine at pc may rely on, whatever DELETE and desktop requests
\* do to the record meanwhile: they only stop a workspace, and only the
\* goroutine finishes one.
PcOK(pc, r) ==
    /\ pc \in ProvisionPcs => r.status \in {"provisioning", "stopping"}
    /\ pc \in ReadyPcs => r.status \in {"ready", "stopping"}
    /\ pc = "markReady" => r.status \in Active
    /\ pc \in StopPcs => r.status = "stopping"
    /\ pc \in PreparedPcs => r.prepared
    /\ pc = "prepare" => ~r.observed
    /\ pc \in NeverPcs => ~r.prepared
    /\ pc \in ReleasePcs => r.releaseRequested
    /\ pc \in RecoverPcs => ~r.providerStopped

PcInv == up => PcOK(rc, rec)

\* The goroutine and a desktop setup never run together.
SlotInv == up =>
    /\ rc \notin {"idle", "queued"} => slot = "reconcile"
    /\ desk = "run" => slot = "desktop"

\* A child belongs to the command the goroutine waits for, and goes on only
\* under an identity that is on record.
ChildInv ==
    /\ child = "gated" => rc \in {"warmGated", "recoverGated"}
    /\ child \in {"running", "recorded", "acked", "rejected"} => rc \in {"warmRun", "recoverRun"}
    /\ child \in {"recorded", "acked"} => rec.observed
    /\ ~up => child \in {"none", "running"}

Ended == {"stopping"} \cup Finished

\* What clients were told is in every record a power loss may leave.
AckInv ==
    /\ created => \A r \in stable : r.status # "none"
    /\ deleted => \A r \in stable : r.status \in Ended

\* A machine, or a child that may ask for one, is on record as prepared.
PreparedInv == res # "none" \/ child \notin {"none", "gated"} => \A r \in stable : r.prepared

\* While a bridge runs or may come up, the bridge is still to be revoked on
\* every record.
BridgeInv ==
    bridge \/ desk = "run" =>
        \A r \in stable : r.prepared /\ ~r.localStopped /\ r.status \in {"ready", "stopping"}

\* Between the end of a reconciliation and the deferred function the timer may
\* fire, which leaves a note; a stopping workspace gets its timer there.
WakeInv ==
    /\ ~up => timer = "none"
    /\ timer = "ready" => rec.status = "ready" /\ rc \in {"idle", "done"}
    /\ up /\ NeedsReconcile(rec) =>
          \/ rc \notin {"idle", "done"} \/ timer # "none"
          \/ rc = "done" /\ (pending \/ rec.status = "stopping")

ControllerInv ==
    /\ ControllerTypeOK /\ FileInv /\ PcInv /\ SlotInv /\ ChildInv
    /\ AckInv /\ PreparedInv /\ BridgeInv /\ WakeInv
    /\ CommandsAreCurrent /\ IdentityIsDurable /\ ReleaseIsRecorded

-------------------------------------------------------------------------------
(* The updates of the record, as values.                                   *)

SameWork(s, r) ==
    /\ r.prepared = s.prepared /\ r.started = s.started /\ r.observed = s.observed
    /\ r.providerStopped = s.providerStopped /\ r.releaseRequested = s.releaseRequested
    /\ r.absentAge = s.absentAge /\ r.preparedAge = s.preparedAge

\* The ages a record may be given.
LEMMA Times ==
    0 \in 0 .. CreateTimeout /\ 0 \in 0 .. NoTime /\ NoTime \in 0 .. NoTime /\ NoTime # 0
  BY ControllerTimes DEF NoTime

\* A workspace that is to stop keeps what is known of its machine and bridge.
LEMMA ToStoppingIs ==
    ASSUME NEW r \in Records, NEW f \in {"none"} \cup Finished
    PROVE  /\ ToStopping(r, f) \in Records /\ ToStopping(r, f).status = "stopping"
           /\ SameWork(r, ToStopping(r, f)) /\ ToStopping(r, f).localStopped = r.localStopped
  BY DEF ToStopping, Records, SameWork, Active

\* A finished workspace keeps them too.
LEMMA StoppedIs ==
    ASSUME NEW r \in Records
    PROVE  /\ Stopped(r) \in Records /\ Stopped(r).status \in Finished
           /\ SameWork(r, Stopped(r)) /\ Stopped(r).localStopped = r.localStopped
  BY DEF Stopped, Records, SameWork, Finished

\* What is recorded of the bridge alone.
LEMMA LocalUpdates ==
    ASSUME NEW r \in Records, NEW f \in BOOLEAN
    PROVE  /\ LocallyStopped(r) \in Records /\ LocallyStopped(r).status = r.status
           /\ SameWork(r, LocallyStopped(r)) /\ LocallyStopped(r).localStopped
           /\ LocallyPending(r, f) \in Records /\ LocallyPending(r, f).status = r.status
           /\ SameWork(r, LocallyPending(r, f))
           /\ LocallyPending(r, f).localStopped = r.localStopped
  BY DEF LocallyStopped, LocallyPending, Records, SameWork

\* A create attempt is prepared.
LEMMA CreatePreparedIs ==
    ASSUME NEW r \in Records
    PROVE  /\ CreatePrepared(r) \in Records /\ CreatePrepared(r).status = r.status
           /\ CreatePrepared(r).prepared /\ ~CreatePrepared(r).started /\ ~CreatePrepared(r).observed
           /\ CreatePrepared(r).localStopped = r.localStopped
           /\ CreatePrepared(r).providerStopped = r.providerStopped
           /\ CreatePrepared(r).absentAge = r.absentAge
  BY Times DEF CreatePrepared, Records

\* What is recorded of a release and of an absence.
LEMMA AbsenceUpdates ==
    ASSUME NEW r \in Records
    PROVE  /\ StillListed(r) \in Records /\ StillListed(r).status = r.status
           /\ StillListed(r).prepared = r.prepared /\ StillListed(r).started = r.started
           /\ StillListed(r).observed = r.observed /\ StillListed(r).absentAge = NoTime
           /\ StillListed(r).localStopped = r.localStopped
           /\ StillListed(r).providerStopped = r.providerStopped
           /\ StillListed(r).preparedAge = r.preparedAge
           /\ ProviderGone(r) \in Records /\ ProviderGone(r).status = r.status
           /\ ProviderGone(r).prepared = r.prepared /\ ProviderGone(r).started = r.started
           /\ ProviderGone(r).observed = r.observed /\ ProviderGone(r).absentAge = NoTime
           /\ ProviderGone(r).localStopped = r.localStopped /\ ProviderGone(r).providerStopped
           /\ ProviderGone(r).preparedAge = r.preparedAge
  <1>1. StillListed(r) \in Records /\ ProviderGone(r) \in Records
    BY Times DEF StillListed, ProviderGone, Records
  <1> QED BY <1>1 DEF StillListed, ProviderGone, Records

-------------------------------------------------------------------------------
(* What a step may do to the file.                                         *)

\* Nothing that was learnt is forgotten: a workspace does not vanish or leave
\* its stop, a create stays prepared, a machine known and a cleanup done.
Grows(s, r) ==
    /\ s.status # "none" => r.status # "none"
    /\ s.status \in Ended => r.status \in Ended
    /\ s.prepared => r.prepared
    /\ s.observed => r.observed
    /\ s.localStopped => r.localStopped
    /\ s.providerStopped => r.providerStopped

GoodMove(s, r) == r \in Records /\ RecordOK(r) /\ Grows(s, r)

FileMove ==
    /\ rec' \in stable' /\ (~barrier' => stable' = {rec'})
    /\ stable' \subseteq stable \cup {rec'}
    /\ GoodMove(rec, rec')

\* The saves the adapter makes are good moves of the record they start from.
LEMMA GoodUpdates ==
    ASSUME rec \in Records, RecordOK(rec)
    PROVE  /\ GoodMove(rec, rec)
           /\ \A f \in {"none"} \cup Finished : rec.status # "none" => GoodMove(rec, ToStopping(rec, f))
           /\ rec.status = "stopping" =>
                 /\ GoodMove(rec, Stopped(rec)) /\ GoodMove(rec, LocallyStopped(rec))
                 /\ GoodMove(rec, StillListed(rec)) /\ GoodMove(rec, ProviderGone(rec))
           /\ \A f \in BOOLEAN : rec.status # "none" => GoodMove(rec, LocallyPending(rec, f))
           /\ rec.status = "provisioning" /\ ~rec.observed => GoodMove(rec, CreatePrepared(rec))
  <1> USE DEF GoodMove, RecordOK, Grows, Ended, SameWork, Finished
  <1>1. GoodMove(rec, rec)
    OBVIOUS
  <1>2. ASSUME NEW f \in {"none"} \cup Finished, rec.status # "none"
        PROVE  GoodMove(rec, ToStopping(rec, f))
    BY <1>2, ToStoppingIs
  <1>3. ASSUME rec.status = "stopping" PROVE GoodMove(rec, Stopped(rec))
    BY <1>3, StoppedIs
  <1>4. ASSUME rec.status = "stopping" PROVE GoodMove(rec, LocallyStopped(rec))
    BY <1>4, LocalUpdates
  <1>5. ASSUME rec.status = "stopping"
        PROVE  GoodMove(rec, StillListed(rec)) /\ GoodMove(rec, ProviderGone(rec))
    BY <1>5, AbsenceUpdates
  <1>6. ASSUME NEW f \in BOOLEAN, rec.status # "none" PROVE GoodMove(rec, LocallyPending(rec, f))
    BY <1>6, LocalUpdates
  <1>7. ASSUME rec.status = "provisioning", ~rec.observed PROVE GoodMove(rec, CreatePrepared(rec))
    BY <1>7, CreatePreparedIs
  <1> HIDE DEF GoodMove
  <1> QED BY <1>1, <1>2, <1>3, <1>4, <1>5, <1>6, <1>7

\* Those that are written in one field only.
LEMMA GoodFields ==
    ASSUME rec \in Records, RecordOK(rec)
    PROVE  /\ rec.status \in Active /\ rec.prepared =>
                 GoodMove(rec, [rec EXCEPT !.status = IF @ = "stopping" THEN @ ELSE "ready"])
           /\ rec.status # "none" /\ rec.prepared =>
                 /\ GoodMove(rec, [rec EXCEPT !.started = TRUE])
                 /\ GoodMove(rec, [rec EXCEPT !.observed = TRUE])
           /\ rec.status = "stopping" =>
                 /\ GoodMove(rec, [rec EXCEPT !.releaseRequested = TRUE])
                 /\ \A a \in 0 .. NoTime : GoodMove(rec, [rec EXCEPT !.absentAge = a])
  <1> USE DEF GoodMove, RecordOK, Grows, Ended, Finished, Active, Records
  <1>1. ASSUME rec.status \in Active, rec.prepared
        PROVE  GoodMove(rec, [rec EXCEPT !.status = IF @ = "stopping" THEN @ ELSE "ready"])
    BY <1>1
  <1>2. ASSUME rec.status # "none", rec.prepared PROVE GoodMove(rec, [rec EXCEPT !.started = TRUE])
    BY <1>2
  <1>3. ASSUME rec.status # "none", rec.prepared PROVE GoodMove(rec, [rec EXCEPT !.observed = TRUE])
    BY <1>3
  <1>4. ASSUME rec.status = "stopping"
        PROVE  GoodMove(rec, [rec EXCEPT !.releaseRequested = TRUE])
    BY <1>4
  <1>5. ASSUME rec.status = "stopping", NEW a \in 0 .. NoTime
        PROVE  GoodMove(rec, [rec EXCEPT !.absentAge = a])
    BY <1>5
  <1> HIDE DEF GoodMove, Records
  <1> QED BY <1>1, <1>2, <1>3, <1>4, <1>5

\* A save of a good move is a move of the file, however it ends.
LEMMA SaveMoves ==
    ASSUME FileInv, rec \in Records, NEW r, GoodMove(rec, r), NEW o \in Saves,
           Save(r, o) \/ Update(r, o)
    PROVE  FileMove
  BY GoodUpdates DEF Update, Save, Saves, FileInv, FileMove

\* So is a flush, and a step that leaves the file alone.
LEMMA StillMoves ==
    ASSUME FileInv, rec \in Records,
           Durable \/ NotDurable \/ UNCHANGED fileVars \/ UNCHANGED <<rec, stable, barrier>>
    PROVE  FileMove
  BY GoodUpdates DEF Durable, NotDurable, fileVars, FileInv, FileMove

\* Every step but the passing of time and a power loss moves the file so.
LEMMA FileMoves ==
    ASSUME ControllerInv, ControllerNext
    PROVE  FileMove \/ Tick \/ PowerLoss
  <1>0. /\ FileInv /\ PcInv /\ ChildInv /\ rec \in Records /\ RecordOK(rec)
        /\ goal \in {"none"} \cup Finished
    BY DEF ControllerInv, FileInv, ControllerTypeOK
  <1> USE <1>0, SaveMoves, StillMoves, GoodUpdates, GoodFields
      DEF PcInv, PcOK, ProvisionPcs, StopPcs, PreparedPcs, ReadyPcs, NeverPcs, ReleasePcs,
          RecoverPcs, Step, DeskStep, Handler
  <1>1. ASSUME \/ TakeSlot \/ DispatchFinished \/ DispatchStopping \/ DispatchProvisioning
               \/ DispatchReady \/ Finish \/ Provisioning \/ CreateFailed
               \/ BeginReadyLocal \/ BeginReadyRevoke \/ StopWorkspace \/ StopProvider
               \/ (\E a \in Answers : InspectReady(a))
               \/ Confirms \/ ReleaseReturns \/ RecoverReturns \/ WarmupFails \/ NeverStarted
               \/ AcknowledgeIdentity
        PROVE  FileMove
    BY <1>1 DEF TakeSlot, DispatchFinished, DispatchStopping, DispatchProvisioning, DispatchReady,
                Finish, Provisioning, CreateFailed, BeginReadyLocal, BeginReadyRevoke,
                StopWorkspace, StopProvider, InspectReady, Confirms, Confirm, ReleaseReturns,
                RecoverReturns, WarmupFails, NeverStarted, AcknowledgeIdentity
  <1>2. ASSUME \/ BeginProvisioningInspection \/ BeginCreate \/ BeginReadyInspection
               \/ BeginConfirms \/ BeginRelease \/ BeginRecover \/ BeginCleanup
        PROVE  FileMove
    BY <1>2 DEF BeginProvisioningInspection, BeginCreate, BeginReadyInspection, BeginConfirms,
                BeginConfirm, BeginRelease, BeginRecover, BeginCleanup, Begin, Obsolete
  <1>3. ASSUME \/ ProvisioningWaits \/ (\E a \in Answers : InspectProvisioning(a)) \/ MarkReady
               \/ LeaveProvisioning \/ FailProvisioning \/ Prepare \/ WarmupReturns
        PROVE  FileMove
    BY <1>3 DEF ProvisioningWaits, InspectProvisioning, MarkReady, LeaveProvisioning,
                FailProvisioning, Prepare, WarmupReturns, Touch, Active, Finished
  <1>4. ASSUME LaunchCreate \/ LaunchRecover \/ PersistAcquiredIdentity
        PROVE  FileMove
    <2>1. rec.prepared /\ rec.status # "none"
      BY <1>4 DEF LaunchCreate, LaunchRecover, PersistAcquiredIdentity, ChildInv
    <2> QED BY <1>4, <2>1 DEF LaunchCreate, LaunchRecover, Launch, PersistAcquiredIdentity, Saves
  <1>5. ASSUME \/ InspectionFailed \/ LeaveReady \/ ReadyLocalStopped \/ ReadyLocalFailed
               \/ ReadyRevokeReturns
        PROVE  FileMove
    BY <1>5 DEF InspectionFailed, LeaveReady, ReadyLocalStopped, ReadyLocalFailed,
                ReadyRevokeReturns, Touch, SavePending
  <1>6. ASSUME \/ LocalStopReturns \/ RecordRelease \/ StillPresent \/ CleanupReturns
               \/ StopFinish \/ MarkStopped
        PROVE  FileMove
    BY <1>6 DEF LocalStopReturns, RecordRelease, StillPresent, CleanupReturns, StopFinish, MarkStopped
  <1>7. ASSUME AbsenceUnknown PROVE FileMove
    <2>1. GoodMove(rec, [rec EXCEPT !.absentAge = NoTime])
      BY <1>7, Times DEF AbsenceUnknown
    <2> QED BY <1>7, <2>1 DEF AbsenceUnknown
  <1>8. ASSUME Absent PROVE FileMove
    <2> DEFINE age == IF rc = "absentAnew" \/ rec.absentAge = NoTime THEN 0 ELSE rec.absentAge
    <2>1. age \in 0 .. NoTime
      BY Times DEF Records
    <2>2. GoodMove(rec, [rec EXCEPT !.absentAge = age])
      BY <1>8, <2>1 DEF Absent
    <2> QED BY <1>8, <2>2 DEF Absent
  <1>9. ASSUME CreateWorkspace PROVE FileMove
    <2> DEFINE r == [NoRecord EXCEPT !.status = "provisioning"]
    <2>1. r \in Records
      BY Times DEF NoRecord, Records, Active
    <2>2. /\ r.status = "provisioning" /\ ~r.localStopped /\ ~r.providerStopped
          /\ r.absentAge = NoTime /\ ~r.started /\ ~r.observed
      BY DEF NoRecord
    <2>3. rec.status = "none" /\ ~rec.prepared /\ ~rec.observed /\ ~rec.localStopped /\ ~rec.providerStopped
      BY <1>9 DEF CreateWorkspace, NoRecord
    <2> HIDE DEF r
    <2>4. GoodMove(rec, r)
      BY <2>1, <2>2, <2>3 DEF GoodMove, RecordOK, Grows, Ended, Finished
    <2> QED BY <1>9, <2>4 DEF CreateWorkspace, r
  <1>10. ASSUME \/ RepeatCreate \/ GetWorkspace \/ DeleteWorkspace \/ RepeatDelete \/ DeleteStopped
                \/ OtherSave \/ TimerFires
         PROVE  FileMove
    BY <1>10 DEF RepeatCreate, GetWorkspace, DeleteWorkspace, RepeatDelete, DeleteStopped,
                 OtherSave, TimerFires, Saves
  <1>11. ASSUME \/ DesktopArrives \/ DesktopStarts \/ DesktopGivesUp \/ DesktopReturns \/ DesktopHandsOff
                \/ DesktopExpires \/ DesktopExpiryRevokes \/ DesktopRevoked \/ DesktopRevokeFails
         PROVE  FileMove
    BY <1>11 DEF DesktopArrives, DesktopStarts, DesktopGivesUp, DesktopReturns, DesktopHandsOff,
                 DesktopExpires, DesktopExpiryRevokes, DesktopRevoked, DesktopRevokeFails,
                 SavePending, Finished
  <1>12. ASSUME External \/ Crash \/ Restart
         PROVE  FileMove
    BY <1>12 DEF External, Crash, Restart, FileInv, FileMove
  <1> QED
    BY <1>1, <1>2, <1>3, <1>4, <1>5, <1>6, <1>7, <1>8, <1>9, <1>10, <1>11, <1>12
       DEF ControllerNext, Requests, DesktopSteps, ReconcileSteps

\* A record that ages changes nothing but its ages, and an absence that is not
\* on record stays so.
LEMMA OlderIs ==
    ASSUME NEW r \in Records
    PROVE  /\ Older(r) \in Records /\ Older(r).status = r.status
           /\ Older(r).prepared = r.prepared /\ Older(r).started = r.started
           /\ Older(r).observed = r.observed /\ Older(r).localStopped = r.localStopped
           /\ Older(r).providerStopped = r.providerStopped
           /\ Older(r).releaseRequested = r.releaseRequested
           /\ r.absentAge = NoTime => Older(r).absentAge = NoTime
           /\ r.absentAge # NoTime => Older(r).absentAge # NoTime /\ Older(r).absentAge <= r.absentAge + 1
           /\ r = NoRecord => Older(r) = NoRecord
  <1> DEFINE a == IF r.absentAge = NoTime THEN r.absentAge ELSE UpTo(r.absentAge, CreateTimeout)
             p == IF r.prepared THEN UpTo(r.preparedAge, CreateTimeout) ELSE r.preparedAge
  <1>1. r.absentAge \in 0 .. NoTime /\ r.preparedAge \in 0 .. CreateTimeout
    BY DEF Records
  <1>2. /\ a \in 0 .. NoTime /\ (r.absentAge = NoTime => a = NoTime)
        /\ r.absentAge # NoTime => a # NoTime /\ a <= r.absentAge + 1
    BY <1>1, ControllerTimes DEF NoTime, UpTo
  <1>3. p \in 0 .. CreateTimeout
    BY <1>1, ControllerTimes DEF UpTo
  <1>4. Older(r) = [r EXCEPT !.preparedAge = p, !.absentAge = a]
    BY DEF Older, Records
  <1>5. r = NoRecord => p = r.preparedAge /\ a = r.absentAge
    BY DEF NoRecord
  <1> HIDE DEF a, p
  <1>6. r = NoRecord => Older(r) = NoRecord
    BY <1>4, <1>5 DEF Records
  <1> QED BY <1>2, <1>3, <1>4, <1>6 DEF Records

\* The file stays one that a restart can trust.
LEMMA FileKept ==
    ASSUME ControllerInv, ControllerNext
    PROVE  FileInv' /\ rec' \in Records /\ stable' \subseteq Records /\ stable' # {}
  <1>0. FileInv /\ rec \in Records /\ stable \subseteq Records
    BY DEF ControllerInv, ControllerTypeOK
  <1>1. CASE FileMove
    BY <1>0, <1>1 DEF FileMove, FileInv, GoodMove
  <1>2. CASE Tick
    <2>1. rec' = Older(rec) /\ stable' = {Older(r) : r \in stable} /\ barrier' = barrier
      BY <1>2 DEF Tick
    <2>2. ASSUME NEW r \in stable PROVE Older(r) \in Records /\ RecordOK(Older(r))
      BY <1>0, <2>2, OlderIs DEF FileInv, RecordOK
    <2> QED BY <1>0, <2>1, <2>2 DEF FileInv
  <1>3. CASE PowerLoss
    BY <1>0, <1>3 DEF PowerLoss, FileInv
  <1> QED BY <1>1, <1>2, <1>3, FileMoves

\* What clients were told stays on every record.
LEMMA AckKept ==
    ASSUME ControllerInv, ControllerNext
    PROVE  AckInv'
  <1>0. FileInv /\ AckInv /\ rec \in Records /\ stable \subseteq Records
    BY DEF ControllerInv, ControllerTypeOK
  <1>1. CASE Tick
    <2>1. rec' = Older(rec) /\ stable' = {Older(r) : r \in stable}
      BY <1>1 DEF Tick
    <2>2. UNCHANGED <<created, deleted>>
      BY <1>1 DEF Tick
    <2> QED BY <1>0, <2>1, <2>2, OlderIs DEF AckInv
  <1>2. CASE PowerLoss
    BY <1>0, <1>2 DEF PowerLoss, Dies, AckInv
  <1>3. CASE FileMove /\ UNCHANGED <<created, deleted>>
    BY <1>0, <1>3 DEF FileMove, GoodMove, Grows, FileInv, AckInv
  <1>4. CASE FileMove /\ Requests
    <2>1. /\ created' => created \/ (stable' = {rec'} /\ rec'.status # "none")
          /\ deleted' => deleted \/ (stable' = {rec'} /\ rec'.status \in Ended)
      <3>1. CASE CreateWorkspace
        <4>1. PICK o \in Saves : /\ Update([NoRecord EXCEPT !.status = "provisioning"], o)
                                 /\ created' = (created \/ o = "ok")
          BY <3>1 DEF CreateWorkspace
        <4>2. deleted' = deleted
          BY <3>1 DEF CreateWorkspace
        <4> QED BY <4>1, <4>2 DEF Update, Save, NoRecord
      <3>2. CASE DeleteWorkspace
        <4>1. PICK o \in Saves : Update(ToStopping(rec, "none"), o) /\ deleted' = (deleted \/ o = "ok")
          BY <3>2 DEF DeleteWorkspace
        <4>2. created' = created
          BY <3>2 DEF DeleteWorkspace
        <4> QED BY <1>0, <4>1, <4>2, ToStoppingIs DEF Update, Save, Ended
      <3>3. CASE RepeatCreate \/ GetWorkspace \/ RepeatDelete \/ DeleteStopped
        BY <1>0, <3>3 DEF RepeatCreate, GetWorkspace, RepeatDelete, DeleteStopped, Durable, FileInv,
              RecordOK, Ended, Finished
      <3> QED BY <1>4, <3>1, <3>2, <3>3 DEF Requests
    <2> QED BY <1>0, <1>4, <2>1 DEF FileMove, GoodMove, Grows, FileInv, AckInv
  <1>5. Requests \/ PowerLoss \/ UNCHANGED <<created, deleted>>
    <2> USE DEF processVars, Step, DeskStep
    <2>1. CASE ReconcileSteps
      BY <2>1 DEF ReconcileSteps, TakeSlot, DispatchFinished, DispatchStopping, DispatchProvisioning,
        DispatchReady, Finish, Provisioning, ProvisioningWaits, BeginProvisioningInspection,
        InspectProvisioning, MarkReady, LeaveProvisioning, FailProvisioning, Prepare, BeginCreate,
        LaunchCreate, PersistAcquiredIdentity, AcknowledgeIdentity, WarmupReturns, WarmupFails,
        CreateFailed, BeginReadyInspection, InspectReady, InspectionFailed, LeaveReady,
        BeginReadyLocal, BeginReadyRevoke, ReadyLocalStopped, ReadyLocalFailed, ReadyRevokeReturns,
        StopWorkspace, LocalStopReturns, StopProvider, BeginConfirms, BeginConfirm, Confirms, Confirm,
        RecordRelease, BeginRelease, ReleaseReturns, BeginRecover, LaunchRecover, RecoverReturns,
        AbsenceUnknown, StillPresent, Absent, BeginCleanup, CleanupReturns, StopFinish, NeverStarted,
        MarkStopped
    <2>2. CASE DesktopArrives \/ DesktopSteps
      BY <2>2 DEF DesktopArrives, DesktopSteps, DesktopStarts, DesktopGivesUp, DesktopReturns,
        DesktopHandsOff, DesktopExpires, DesktopExpiryRevokes, DesktopRevoked, DesktopRevokeFails
    <2>3. CASE OtherSave \/ TimerFires \/ External \/ Tick \/ Crash \/ Restart
      BY <2>3 DEF OtherSave, TimerFires, External, Tick, Crash, Dies, Restart
    <2> QED BY <2>1, <2>2, <2>3 DEF ControllerNext
  <1> QED BY <1>1, <1>2, <1>3, <1>4, <1>5, FileMoves

-------------------------------------------------------------------------------
(* The steps by what drives them.                                          *)

Scheduling ==
    \/ TakeSlot \/ DispatchFinished \/ DispatchStopping \/ DispatchProvisioning
    \/ DispatchReady \/ Finish

ProvisionSteps ==
    \/ Provisioning \/ ProvisioningWaits \/ BeginProvisioningInspection
    \/ (\E a \in Answers : InspectProvisioning(a)) \/ MarkReady \/ LeaveProvisioning
    \/ FailProvisioning \/ Prepare \/ BeginCreate

WarmupSteps ==
    \/ LaunchCreate \/ PersistAcquiredIdentity \/ AcknowledgeIdentity \/ WarmupReturns
    \/ WarmupFails \/ CreateFailed

ReadySteps ==
    \/ BeginReadyInspection \/ (\E a \in Answers : InspectReady(a)) \/ InspectionFailed
    \/ LeaveReady \/ BeginReadyLocal \/ BeginReadyRevoke \/ ReadyLocalStopped
    \/ ReadyLocalFailed \/ ReadyRevokeReturns

StopSteps ==
    \/ StopWorkspace \/ LocalStopReturns \/ StopProvider \/ BeginConfirms \/ Confirms
    \/ RecordRelease \/ BeginRelease \/ ReleaseReturns \/ BeginRecover \/ LaunchRecover
    \/ RecoverReturns

AbsenceSteps ==
    \/ AbsenceUnknown \/ StillPresent \/ Absent \/ BeginCleanup \/ CleanupReturns
    \/ StopFinish \/ NeverStarted \/ MarkStopped

Handlers ==
    \/ CreateWorkspace \/ RepeatCreate \/ GetWorkspace \/ DeleteWorkspace
    \/ RepeatDelete \/ DeleteStopped \/ OtherSave \/ TimerFires

DeskSteps ==
    \/ DesktopArrives \/ DesktopStarts \/ DesktopGivesUp \/ DesktopReturns
    \/ DesktopHandsOff \/ DesktopExpires \/ DesktopExpiryRevokes \/ DesktopRevoked
    \/ DesktopRevokeFails

Environment == External \/ Tick \/ Crash \/ PowerLoss \/ Restart

\* Nothing else happens.
LEMMA AllSteps ==
    ASSUME ControllerNext
    PROVE  \/ Scheduling \/ ProvisionSteps \/ WarmupSteps \/ ReadySteps \/ StopSteps \/ AbsenceSteps
           \/ Handlers \/ DeskSteps \/ Environment
  BY DEF ControllerNext, Requests, DesktopSteps, ReconcileSteps, Scheduling, ProvisionSteps,
         WarmupSteps, ReadySteps, StopSteps, AbsenceSteps, Handlers, DeskSteps, Environment

\* The goroutine and a desktop setup take the connection slot one after the
\* other.
LEMMA SlotKept ==
    ASSUME ControllerInv, ControllerNext
    PROVE  SlotInv'
  <1>0. SlotInv
    BY DEF ControllerInv
  <1> USE <1>0 DEF SlotInv, Step, Goto, End, Idle, Handler, DeskStep, schedVars, processVars
  <1>1. CASE Scheduling
    BY <1>1 DEF Scheduling, TakeSlot, DispatchFinished, DispatchStopping,
      DispatchProvisioning, DispatchReady, Finish
  <1>2. CASE ProvisionSteps
    BY <1>2 DEF ProvisionSteps, Provisioning, ProvisioningWaits,
      BeginProvisioningInspection, InspectProvisioning, MarkReady, LeaveProvisioning,
      FailProvisioning, Prepare, BeginCreate, Begin, Obsolete, Touch
  <1>3. CASE WarmupSteps
    BY <1>3 DEF WarmupSteps, LaunchCreate, PersistAcquiredIdentity, AcknowledgeIdentity,
      WarmupReturns, WarmupFails, CreateFailed, Launch, Touch
  <1>4. CASE ReadySteps
    BY <1>4 DEF ReadySteps, BeginReadyInspection, InspectReady, InspectionFailed,
      LeaveReady, BeginReadyLocal, BeginReadyRevoke, ReadyLocalStopped, ReadyLocalFailed,
      ReadyRevokeReturns, Begin, Obsolete, Touch, SavePending
  <1>5. CASE StopSteps
    BY <1>5 DEF StopSteps, StopWorkspace, LocalStopReturns, StopProvider, BeginConfirms,
      Confirms, RecordRelease, BeginRelease, ReleaseReturns, BeginRecover, LaunchRecover,
      RecoverReturns, BeginConfirm, Confirm, Begin, Launch
  <1>6. CASE AbsenceSteps
    BY <1>6 DEF AbsenceSteps, AbsenceUnknown, StillPresent, Absent, BeginCleanup,
      CleanupReturns, StopFinish, NeverStarted, MarkStopped, Begin
  <1>7. CASE Handlers
    BY <1>7 DEF Handlers, CreateWorkspace, RepeatCreate, GetWorkspace, DeleteWorkspace,
      RepeatDelete, DeleteStopped, OtherSave, TimerFires, Enqueue
  <1>8. CASE DeskSteps
    BY <1>8 DEF DeskSteps, DesktopArrives, DesktopStarts, DesktopGivesUp, DesktopReturns,
      DesktopHandsOff, DesktopExpires, DesktopExpiryRevokes, DesktopRevoked,
      DesktopRevokeFails, Enqueue, DeskGoto, DeskEnd, SavePending
  <1>9. CASE Environment
    BY <1>9 DEF Environment, External, Tick, Crash, PowerLoss, Restart, Dies, Outside,
      ChildCreates, CreateSettles, MachineVanishes, ReleaseTakesEffect, BridgeStarts,
      BridgeStops, Commands, CreateCommands, InspectCommands, StopCommands, LocalStops
  <1> QED BY <1>1, <1>2, <1>3, <1>4, <1>5, <1>6, <1>7, <1>8, <1>9, AllSteps

\* A child stays with its command, and what it was told about its identity
\* stays true of every record.
LEMMA ChildKept ==
    ASSUME ControllerInv, ControllerNext
    PROVE  ChildInv' /\ IdentityIsDurable'
  <1>0. ChildInv /\ FileInv /\ IdentityIsDurable /\ rec \in Records /\ stable \subseteq Records
    BY DEF ControllerInv, ControllerTypeOK
  <1> SUFFICES /\ child' = "gated" => rc' \in {"warmGated", "recoverGated"}
               /\ child' \in {"running", "recorded", "acked", "rejected"} =>
                     rc' \in {"warmRun", "recoverRun"}
               /\ ~up' => child' \in {"none", "running"}
               /\ child' = "recorded" => child = "recorded" \/ rec'.observed
               /\ child' = "acked" => child = "acked" \/ (child = "recorded" /\ stable' = {rec'})
    <2>1. CASE FileMove
      BY <1>0, <2>1 DEF ChildInv, IdentityIsDurable, FileMove, GoodMove, Grows
    <2>2. CASE Tick
      <3>1. rec' = Older(rec) /\ stable' = {Older(r) : r \in stable} /\ child' = child
        BY <2>2 DEF Tick
      <3> QED BY <1>0, <3>1, OlderIs DEF ChildInv, IdentityIsDurable
    <2>3. CASE PowerLoss
      BY <2>3 DEF PowerLoss, ChildInv, IdentityIsDurable
    <2> QED BY <2>1, <2>2, <2>3, FileMoves
  <1> USE <1>0 DEF ChildInv, Step, Goto, End, Idle, Handler, DeskStep, schedVars,
      runnerVars, processVars
  <1>1. CASE Scheduling
    BY <1>1 DEF Scheduling, TakeSlot, DispatchFinished, DispatchStopping,
      DispatchProvisioning, DispatchReady, Finish
  <1>2. CASE ProvisionSteps
    BY <1>2 DEF ProvisionSteps, Provisioning, ProvisioningWaits,
      BeginProvisioningInspection, InspectProvisioning, MarkReady, LeaveProvisioning,
      FailProvisioning, Prepare, BeginCreate, Begin, Obsolete, Touch
  <1>3. CASE WarmupSteps
    BY <1>3 DEF WarmupSteps, LaunchCreate, PersistAcquiredIdentity, AcknowledgeIdentity,
      WarmupReturns, WarmupFails, CreateFailed, Launch, Touch, Records, Update, Save,
      Durable, FileInv, fileVars
  <1>4. CASE ReadySteps
    BY <1>4 DEF ReadySteps, BeginReadyInspection, InspectReady, InspectionFailed,
      LeaveReady, BeginReadyLocal, BeginReadyRevoke, ReadyLocalStopped, ReadyLocalFailed,
      ReadyRevokeReturns, Begin, Obsolete, Touch, SavePending
  <1>5. CASE StopSteps
    BY <1>5 DEF StopSteps, StopWorkspace, LocalStopReturns, StopProvider, BeginConfirms,
      Confirms, RecordRelease, BeginRelease, ReleaseReturns, BeginRecover, LaunchRecover,
      RecoverReturns, BeginConfirm, Confirm, Begin, Launch
  <1>6. CASE AbsenceSteps
    BY <1>6 DEF AbsenceSteps, AbsenceUnknown, StillPresent, Absent, BeginCleanup,
      CleanupReturns, StopFinish, NeverStarted, MarkStopped, Begin
  <1>7. CASE Handlers
    BY <1>7 DEF Handlers, CreateWorkspace, RepeatCreate, GetWorkspace, DeleteWorkspace,
      RepeatDelete, DeleteStopped, OtherSave, TimerFires, Enqueue
  <1>8. CASE DeskSteps
    BY <1>8 DEF DeskSteps, DesktopArrives, DesktopStarts, DesktopGivesUp, DesktopReturns,
      DesktopHandsOff, DesktopExpires, DesktopExpiryRevokes, DesktopRevoked,
      DesktopRevokeFails, Enqueue, DeskGoto, DeskEnd, SavePending
  <1>9. CASE Environment
    BY <1>9 DEF Environment, External, Tick, Crash, PowerLoss, Restart, Dies, Outside,
      ChildCreates, CreateSettles, MachineVanishes, ReleaseTakesEffect, BridgeStarts,
      BridgeStops, Commands, CreateCommands, InspectCommands, StopCommands, LocalStops
  <1> QED BY <1>1, <1>2, <1>3, <1>4, <1>5, <1>6, <1>7, <1>8, <1>9, AllSteps

\* What others than the goroutine may do to a record: they stop a workspace or
\* note what they did to the bridge.
OthersMove(s, r) ==
    /\ SameWork(s, r)
    /\ r.status = s.status \/ (s.status # "none" /\ r.status = "stopping")

\* Requests, other workspaces and desktop connections do no more, and move the
\* goroutine only by queueing it.
LEMMA OthersOnly ==
    ASSUME ControllerInv, Handlers \/ DeskSteps, ~CreateWorkspace
    PROVE  OthersMove(rec, rec') /\ rc' \in {rc, "queued"} /\ UNCHANGED <<child, up>>
  <1>0. rec \in Records
    BY DEF ControllerInv, ControllerTypeOK
  <1>a. /\ OthersMove(rec, rec)
        /\ OthersMove(rec, LocallyPending(rec, TRUE)) /\ OthersMove(rec, LocallyPending(rec, FALSE))
        /\ OthersMove(rec, LocallyStopped(rec))
    BY <1>0, LocalUpdates DEF OthersMove, SameWork
  <1>b. rec.status # "none" => /\ OthersMove(rec, ToStopping(rec, "none"))
                               /\ OthersMove(rec, ToStopping(rec, "expired"))
    BY <1>0, ToStoppingIs DEF OthersMove, Finished
  <1> USE <1>a, <1>b DEF Update, Save, Durable, NotDurable, fileVars
  <1>1. CASE Handlers
    BY <1>1 DEF Handlers, RepeatCreate, GetWorkspace, DeleteWorkspace, RepeatDelete, DeleteStopped,
      OtherSave, TimerFires, Enqueue, Handler, runnerVars
  <1>2. CASE \/ DesktopArrives \/ DesktopStarts \/ DesktopGivesUp \/ DesktopReturns
             \/ DesktopHandsOff
    BY <1>2 DEF DesktopArrives, DesktopStarts, DesktopGivesUp, DesktopReturns, DesktopHandsOff,
      Enqueue, DeskStep, processVars
  <1>3. CASE DesktopExpires
    BY <1>3 DEF DesktopExpires, Enqueue, DeskStep, processVars
  <1>4. CASE DesktopExpiryRevokes
    BY <1>4 DEF DesktopExpiryRevokes, SavePending, DeskStep, processVars
  <1>5. CASE DesktopRevoked \/ DesktopRevokeFails
    BY <1>5 DEF DesktopRevoked, DesktopRevokeFails, DeskStep, processVars
  <1> QED BY <1>1, <1>2, <1>3, <1>4, <1>5 DEF DeskSteps

\* What the goroutine relies on survives what others do to the record.
LEMMA PcStays ==
    ASSUME NEW pc, NEW s, NEW r, PcOK(pc, s), OthersMove(s, r)
    PROVE  PcOK(pc, r)
  BY DEF PcOK, OthersMove, SameWork, Active, PreparedPcs, StopPcs, ProvisionPcs, ReadyPcs,
         NeverPcs, ReleasePcs, RecoverPcs

\* A goroutine that is waiting or over relies on nothing, and there is no other
\* for a workspace that is not there or finished.
LEMMA PcFree ==
    ASSUME NEW pc, NEW r,
           \/ pc \in {"idle", "queued", "reconcile", "done"}
           \/ \E s : PcOK(pc, s) /\ s.status \notin Active
    PROVE  PcOK(pc, r)
  BY DEF PcOK, ProvisionPcs, ReadyPcs, NeverPcs, ReleasePcs, RecoverPcs, StopPcs, PreparedPcs,
         Active

\* Provisioning leads to where it can rely on the record.
LEMMA ProvisionPc ==
    ASSUME ControllerInv, ProvisionSteps
    PROVE  PcOK(rc', rec')
  <1>0. /\ up /\ PcOK(rc, rec) /\ rec \in Records /\ RecordOK(rec)
        /\ goal \in {"none"} \cup Finished
    BY DEF ControllerInv, ControllerTypeOK, FileInv, PcInv, ProvisionSteps, Provisioning,
      ProvisioningWaits, BeginProvisioningInspection, InspectProvisioning, MarkReady,
      LeaveProvisioning, FailProvisioning, Prepare, BeginCreate, Step
  <1>1. CASE rc' = "done"
    BY <1>1, PcFree
  <1> USE <1>0 DEF Step, Goto, End, PcOK, ProvisionPcs, ReadyPcs, NeverPcs, ReleasePcs, RecoverPcs,
      StopPcs, PreparedPcs
  <1>2. CASE Provisioning
    BY <1>2 DEF Provisioning, ProvisioningBranch, RecordOK, fileVars
  <1>3. CASE BeginProvisioningInspection \/ BeginCreate
    BY <1>1, <1>3 DEF BeginProvisioningInspection, BeginCreate, Begin, Durable
  <1>4. CASE \E a \in Answers : InspectProvisioning(a)
    BY <1>4 DEF InspectProvisioning, Touch, Update, Save, fileVars, Active
  <1>5. CASE LeaveProvisioning \/ FailProvisioning
    BY <1>1, <1>5, ToStoppingIs DEF LeaveProvisioning, FailProvisioning, Update, Save, Finished, fileVars
  <1>6. CASE Prepare
    BY <1>1, <1>6, CreatePreparedIs DEF Prepare, Update, Save
  <1>7. CASE MarkReady \/ ProvisioningWaits
    BY <1>1, <1>7 DEF MarkReady, ProvisioningWaits
  <1> QED BY <1>2, <1>3, <1>4, <1>5, <1>6, <1>7 DEF ProvisionSteps

\* So does warmup.
LEMMA WarmupPc ==
    ASSUME ControllerInv, WarmupSteps
    PROVE  PcOK(rc', rec')
  <1>0. up /\ PcOK(rc, rec) /\ rec \in Records /\ ChildInv
    BY DEF ControllerInv, ControllerTypeOK, PcInv, WarmupSteps, LaunchCreate,
      PersistAcquiredIdentity, AcknowledgeIdentity, WarmupReturns, WarmupFails, CreateFailed, Step
  <1>1. CASE rc' = "done"
    BY <1>1, PcFree
  <1>2. CASE PersistAcquiredIdentity \/ AcknowledgeIdentity
    <2>1. /\ rc' = rc /\ rc \in {"warmRun", "recoverRun"}
          /\ rec'.status = rec.status /\ rec'.prepared = rec.prepared
          /\ rec'.providerStopped = rec.providerStopped
      BY <1>0, <1>2 DEF PersistAcquiredIdentity, AcknowledgeIdentity, schedVars, ChildInv, Update,
        Save, Durable, NotDurable, fileVars, Records
    <2> QED BY <1>0, <2>1 DEF PcOK, ProvisionPcs, ReadyPcs, NeverPcs, ReleasePcs, RecoverPcs,
              StopPcs, PreparedPcs
  <1> USE <1>0 DEF Step, Goto, End, PcOK, ProvisionPcs, ReadyPcs, NeverPcs, ReleasePcs, RecoverPcs,
      StopPcs, PreparedPcs
  <1>3. CASE LaunchCreate
    <2>1. /\ rc' \in {"warmRun", "warmFailed"} /\ rc = "warmGated"
          /\ rec'.status = rec.status /\ rec'.prepared = rec.prepared
      BY <1>3 DEF LaunchCreate, Launch, Update, Save, fileVars, Records
    <2> QED BY <2>1
  <1>4. CASE WarmupFails \/ CreateFailed
    BY <1>4 DEF WarmupFails, CreateFailed, fileVars
  <1>5. CASE WarmupReturns
    BY <1>1, <1>5 DEF WarmupReturns
  <1> QED BY <1>2, <1>3, <1>4, <1>5 DEF WarmupSteps

\* So does watching a ready workspace.
LEMMA ReadyPc ==
    ASSUME ControllerInv, ReadySteps
    PROVE  PcOK(rc', rec')
  <1>0. /\ up /\ PcOK(rc, rec) /\ rec \in Records /\ goal \in {"none"} \cup Finished
    BY DEF ControllerInv, ControllerTypeOK, PcInv, ReadySteps, BeginReadyInspection, InspectReady,
      InspectionFailed, LeaveReady, BeginReadyLocal, BeginReadyRevoke, ReadyLocalStopped,
      ReadyLocalFailed, ReadyRevokeReturns, Step
  <1>1. CASE rc' = "done"
    BY <1>1, PcFree
  <1> USE <1>0, <1>1 DEF Step, Goto, End, PcOK, ProvisionPcs, ReadyPcs, NeverPcs, ReleasePcs,
      RecoverPcs, StopPcs, PreparedPcs
  <1>2. CASE BeginReadyInspection
    BY <1>2 DEF BeginReadyInspection, Begin, Durable
  <1>3. CASE \/ (\E a \in Answers : InspectReady(a)) \/ InspectionFailed
             \/ BeginReadyLocal \/ BeginReadyRevoke
    BY <1>3 DEF InspectReady, InspectionFailed, BeginReadyLocal, BeginReadyRevoke, fileVars, Active
  <1>4. CASE LeaveReady
    BY <1>4, ToStoppingIs DEF LeaveReady, Update, Save, Finished
  <1>5. CASE ReadyLocalStopped
    <2>0. OthersMove(rec, rec) /\ OthersMove(rec, LocallyPending(rec, FALSE))
      BY LocalUpdates DEF OthersMove, SameWork
    <2>1. OthersMove(rec, rec')
      BY <1>5, <2>0 DEF ReadyLocalStopped, SavePending, Update, Save, fileVars
    <2>2. rc' = "readyBegin" \/ rc' = "done"
      BY <1>5 DEF ReadyLocalStopped
    <2>3. rc = "readyLocalRun"
      BY <1>5 DEF ReadyLocalStopped
    <2> QED BY <2>1, <2>2, <2>3 DEF OthersMove, SameWork
  <1>6. CASE ReadyLocalFailed \/ ReadyRevokeReturns
    BY <1>6 DEF ReadyLocalFailed, ReadyRevokeReturns
  <1> QED BY <1>2, <1>3, <1>4, <1>5, <1>6 DEF ReadySteps

\* So does the stop.
LEMMA StopPc ==
    ASSUME ControllerInv, StopSteps
    PROVE  PcOK(rc', rec')
  <1>0. /\ up /\ PcOK(rc, rec) /\ rec \in Records /\ FileInv /\ PreparedInv
    BY DEF ControllerInv, ControllerTypeOK, PcInv, StopSteps, StopWorkspace, LocalStopReturns,
      StopProvider, BeginConfirms, BeginConfirm, Confirms, Confirm, RecordRelease, BeginRelease,
      ReleaseReturns, BeginRecover, LaunchRecover, RecoverReturns, Step
  <1>1. CASE rc' = "done"
    BY <1>1, PcFree
  <1> USE <1>0, <1>1 DEF Step, Goto, End, PcOK, ProvisionPcs, ReadyPcs, NeverPcs, ReleasePcs,
      RecoverPcs, StopPcs, PreparedPcs
  <1>2. CASE StopWorkspace \/ ReleaseReturns \/ RecoverReturns
    BY <1>2 DEF StopWorkspace, ReleaseReturns, RecoverReturns, fileVars
  <1>3. CASE LocalStopReturns
    BY <1>3, LocalUpdates DEF LocalStopReturns, Update, Save, fileVars
  <1>4. CASE StopProvider
    BY <1>4 DEF StopProvider, StopBranch, Durable
  <1>5. CASE BeginConfirms
    BY <1>5 DEF BeginConfirms, BeginConfirm, Begin, Durable, NotDurable
  <1>6. CASE BeginRelease \/ BeginRecover
    BY <1>6 DEF BeginRelease, BeginRecover, Begin, Durable, NotDurable
  <1>7. CASE Confirms
    BY <1>7 DEF Confirms, Confirm, fileVars, PreparedInv, FileInv
  <1>8. CASE RecordRelease
    <2>1. /\ rec'.status = rec.status
          /\ rc' = "absenceUnknown" \/ (rc' = "releaseBegin" /\ rec'.releaseRequested)
      BY <1>8 DEF RecordRelease, Update, Save, Records
    <2>2. rc = "recordRelease"
      BY <1>8 DEF RecordRelease
    <2> QED BY <2>1, <2>2
  <1>9. CASE LaunchRecover
    <2>1. /\ rc' \in {"recoverRun", "absenceUnknown"} /\ rc = "recoverGated"
          /\ rec'.status = rec.status /\ rec'.prepared = rec.prepared
          /\ rec'.providerStopped = rec.providerStopped
      BY <1>9 DEF LaunchRecover, Launch, Update, Save, fileVars, Records
    <2> QED BY <2>1
  <1> QED BY <1>2, <1>3, <1>4, <1>5, <1>6, <1>7, <1>8, <1>9 DEF StopSteps

\* So does the watch for a stable absence.
LEMMA AbsencePc ==
    ASSUME ControllerInv, AbsenceSteps
    PROVE  PcOK(rc', rec')
  <1>0. /\ up /\ PcOK(rc, rec) /\ rec \in Records
    BY DEF ControllerInv, ControllerTypeOK, PcInv, AbsenceSteps, AbsenceUnknown, StillPresent,
      Absent, BeginCleanup, CleanupReturns, StopFinish, NeverStarted, MarkStopped, Step
  <1>1. CASE rc' = "done"
    BY <1>1, PcFree
  <1>2. CASE AbsenceUnknown \/ StillPresent \/ Absent \/ CleanupReturns
    <2>1. rc \in StopPcs /\ rc' \in {"stopFinish", "cleanup"}
      BY <1>2 DEF AbsenceUnknown, StillPresent, Absent, CleanupReturns, Step, Goto, StopPcs
    <2>2. rec'.status = rec.status
      BY <1>0, <1>2, AbsenceUpdates DEF AbsenceUnknown, StillPresent, Absent, CleanupReturns,
        Update, Save, fileVars, Records
    <2> QED BY <1>0, <2>1, <2>2 DEF PcOK, ProvisionPcs, ReadyPcs, NeverPcs, ReleasePcs,
              RecoverPcs, StopPcs, PreparedPcs
  <1> USE <1>0, <1>1 DEF Step, Goto, End, PcOK, ProvisionPcs, ReadyPcs, NeverPcs, ReleasePcs,
      RecoverPcs, StopPcs, PreparedPcs
  <1>3. CASE BeginCleanup \/ NeverStarted
    BY <1>3 DEF BeginCleanup, NeverStarted, Begin, Durable, NotDurable
  <1>4. CASE StopFinish \/ MarkStopped
    BY <1>4 DEF StopFinish, MarkStopped
  <1> QED BY <1>2, <1>3, <1>4 DEF AbsenceSteps

\* Wherever the goroutine is, it can rely on the record.
LEMMA PcKept ==
    ASSUME ControllerInv, ControllerNext
    PROVE  PcInv'
  <1>0. PcInv /\ rec \in Records /\ RecordOK(rec)
    BY DEF ControllerInv, ControllerTypeOK, FileInv
  <1>1. CASE Scheduling
    BY <1>0, <1>1, PcFree
       DEF Scheduling, TakeSlot, DispatchFinished, DispatchStopping, DispatchProvisioning,
         DispatchReady, Finish, Step, Goto, End, fileVars, Durable, PcInv, RecordOK, PcOK,
         ProvisionPcs, ReadyPcs, NeverPcs, ReleasePcs, RecoverPcs, StopPcs, PreparedPcs
  <1>2. CASE Handlers \/ DeskSteps
    <2>1. CASE CreateWorkspace
      <3>1. rec.status = "none" /\ rc' \in {rc, "queued"} /\ up
        BY <2>1 DEF CreateWorkspace, Handler, Enqueue, NoRecord
      <3> QED BY <1>0, <3>1, PcFree DEF PcInv, Active
    <2>2. CASE ~CreateWorkspace
      BY <1>0, <1>2, <2>2, OthersOnly, PcStays, PcFree DEF PcInv
    <2> QED BY <2>1, <2>2
  <1>3. CASE Environment
    <2>1. CASE External \/ Crash \/ PowerLoss \/ Restart
      BY <1>0, <2>1, PcFree DEF External, fileVars, schedVars, processVars, Crash, PowerLoss, Dies,
        Restart, PcInv
    <2>2. CASE Tick
      <3>1. rec' = Older(rec) /\ rc' = rc /\ up' = up
        BY <2>2 DEF Tick, schedVars
      <3>2. up => PcOK(rc, Older(rec))
        BY <1>0, OlderIs DEF PcInv, PcOK
      <3> QED BY <3>1, <3>2 DEF PcInv
    <2> QED BY <1>3, <2>1, <2>2 DEF Environment
  <1> QED BY <1>1, <1>2, <1>3, ProvisionPc, WarmupPc, ReadyPc, StopPc, AbsencePc, AllSteps DEF PcInv

-------------------------------------------------------------------------------
(* Types.                                                                  *)

FileTyped ==
    barrier' \in BOOLEAN /\ saveFaults' \in 0 .. MaxSaveFaults /\ cancelled' \subseteq {"reconcile", "desktop"}

\* A save leaves the barrier, the count of faults and the cancelled commands
\* of their types.
LEMMA SavesTyped ==
    ASSUME ControllerTypeOK
    PROVE  /\ \A r : \A o \in Saves : Update(r, o) => FileTyped
           /\ \A r : \A o \in Saves : Save(r, o) => barrier' \in BOOLEAN /\ saveFaults' \in 0 .. MaxSaveFaults
           /\ Durable => barrier' \in BOOLEAN /\ saveFaults' \in 0 .. MaxSaveFaults
           /\ NotDurable => FileTyped
           /\ UNCHANGED fileVars => FileTyped
  <1>1. \A o : SaveFault(o) => saveFaults' \in 0 .. MaxSaveFaults
    BY ControllerTimes DEF SaveFault, ControllerTypeOK
  <1>2. /\ BarrierEffects \subseteq {"reconcile", "desktop"}
        /\ TransitionEffects \subseteq {"reconcile", "desktop"}
    BY DEF BarrierEffects, TransitionEffects
  <1>3. ASSUME NEW r, NEW o \in Saves, Save(r, o)
        PROVE  barrier' \in BOOLEAN /\ saveFaults' \in 0 .. MaxSaveFaults
    BY <1>1, <1>3 DEF Save, ControllerTypeOK
  <1>4. ASSUME NEW r, NEW o \in Saves, Update(r, o) PROVE FileTyped
    <2>1. CancelledBy(r, o) \subseteq {"reconcile", "desktop"}
      BY <1>2 DEF CancelledBy
    <2> QED BY <1>3, <1>4, <2>1 DEF Update, ControllerTypeOK, FileTyped
  <1> QED BY <1>1, <1>2, <1>3, <1>4 DEF Durable, NotDurable, ControllerTypeOK, FileTyped, fileVars

\* A timer is a retry or a watch, and a failed command is counted once.
LEMMA HelpersTyped ==
    ASSUME ControllerTypeOK
    PROVE  /\ \A r : \A k \in {"none", "retry", "ready"} : Scheduled(r, k) \in {"none", "retry", "ready"}
           /\ \A k \in {"keep", "retry", "ready"} : End(k) => timer' \in {"none", "retry", "ready"}
           /\ \A who : Fails(who) => errs' \in 0 .. MaxErrors
           /\ Enqueue => timer' \in {"none", "retry", "ready"} /\ pending' \in BOOLEAN
  <1>1. \A r : \A k \in {"none", "retry", "ready"} : Scheduled(r, k) \in {"none", "retry", "ready"}
    BY DEF Scheduled
  <1>2. \A who : Fails(who) => errs' \in 0 .. MaxErrors
    BY RunnerConstants DEF ControllerTypeOK, Fails
  <1>3. ASSUME NEW k \in {"keep", "retry", "ready"}, End(k) PROVE timer' \in {"none", "retry", "ready"}
    BY <1>1, <1>3 DEF ControllerTypeOK, End
  <1> QED BY <1>1, <1>2, <1>3 DEF ControllerTypeOK, Enqueue

\* The count of faults, the barrier and the cancelled commands keep their
\* types.
LEMMA FileTypes ==
    ASSUME ControllerInv, ControllerNext
    PROVE  FileTyped
  <1>0. ControllerTypeOK
    BY DEF ControllerInv
  <1> USE <1>0, SavesTyped DEF ControllerTypeOK
  <1>1. CASE Scheduling
    BY <1>1 DEF Scheduling, TakeSlot, DispatchFinished, DispatchStopping,
      DispatchProvisioning, DispatchReady, Finish, FileTyped, Begin
  <1>2. CASE ProvisionSteps
    BY <1>2 DEF ProvisionSteps, Provisioning, ProvisioningWaits,
      BeginProvisioningInspection, InspectProvisioning, MarkReady, LeaveProvisioning,
      FailProvisioning, Prepare, BeginCreate, Begin, Obsolete, Touch, FileTyped
  <1>3. CASE WarmupSteps
    BY <1>3 DEF WarmupSteps, LaunchCreate, PersistAcquiredIdentity, AcknowledgeIdentity,
      WarmupReturns, WarmupFails, CreateFailed, Launch, Touch, FileTyped, Saves
  <1>4. CASE ReadySteps
    BY <1>4 DEF ReadySteps, BeginReadyInspection, InspectReady, InspectionFailed,
      LeaveReady, BeginReadyLocal, BeginReadyRevoke, ReadyLocalStopped, ReadyLocalFailed,
      ReadyRevokeReturns, Begin, Obsolete, Touch, SavePending, FileTyped
  <1>5. CASE StopSteps
    BY <1>5 DEF StopSteps, StopWorkspace, LocalStopReturns, StopProvider, BeginConfirms,
      Confirms, RecordRelease, BeginRelease, ReleaseReturns, BeginRecover, LaunchRecover,
      RecoverReturns, BeginConfirm, Confirm, Begin, Launch, FileTyped, Saves
  <1>6. CASE AbsenceSteps
    BY <1>6 DEF AbsenceSteps, AbsenceUnknown, StillPresent, Absent, BeginCleanup,
      CleanupReturns, StopFinish, NeverStarted, MarkStopped, Begin, FileTyped
  <1>7. CASE Handlers
    BY <1>7 DEF Handlers, CreateWorkspace, RepeatCreate, GetWorkspace, DeleteWorkspace,
      RepeatDelete, DeleteStopped, OtherSave, TimerFires, FileTyped, Saves, BarrierEffects
  <1>8. CASE DeskSteps
    BY <1>8 DEF DeskSteps, DesktopArrives, DesktopStarts, DesktopGivesUp, DesktopReturns,
      DesktopHandsOff, DesktopExpires, DesktopExpiryRevokes, DesktopRevoked,
      DesktopRevokeFails, SavePending, FileTyped
  <1>9. CASE Environment
    BY <1>9 DEF Environment, External, Tick, Crash, PowerLoss, Restart, Dies, fileVars,
      FileTyped
  <1> QED BY <1>1, <1>2, <1>3, <1>4, <1>5, <1>6, <1>7, <1>8, <1>9, AllSteps

\* So do the schedule and what is kept in memory.
LEMMA SchedTypes ==
    ASSUME ControllerInv, ControllerNext
    PROVE  /\ timer' \in {"none", "retry", "ready"} /\ pending' \in BOOLEAN
           /\ slot' \in {"free", "reconcile", "desktop"}
           /\ goal' \in {"none"} \cup Finished /\ revocation' \in {"none"} \cup Finished
           /\ localRetry' \in BOOLEAN
  <1>0. ControllerTypeOK
    BY DEF ControllerInv
  <1> USE <1>0, HelpersTyped DEF ControllerTypeOK, Step, Goto, Idle, Handler, DeskStep,
      schedVars, processVars, memoryVars, End, Finished
  <1>1. CASE Scheduling
    BY <1>1 DEF Scheduling, TakeSlot, DispatchFinished, DispatchStopping,
      DispatchProvisioning, DispatchReady, Finish
  <1>2. CASE ProvisionSteps
    BY <1>2 DEF ProvisionSteps, Provisioning, ProvisioningWaits,
      BeginProvisioningInspection, InspectProvisioning, MarkReady, LeaveProvisioning,
      FailProvisioning, Prepare, BeginCreate, Begin, Obsolete, Touch
  <1>3. CASE WarmupSteps
    BY <1>3 DEF WarmupSteps, LaunchCreate, PersistAcquiredIdentity, AcknowledgeIdentity,
      WarmupReturns, WarmupFails, CreateFailed, Launch, Touch
  <1>4. CASE ReadySteps
    <2>1. CASE BeginReadyInspection \/ (\E a \in Answers : InspectReady(a)) \/ InspectionFailed
      BY <2>1 DEF BeginReadyInspection, InspectReady, InspectionFailed, Begin, Obsolete
    <2>2. CASE LeaveReady \/ BeginReadyLocal \/ BeginReadyRevoke
      BY <2>2 DEF LeaveReady, BeginReadyLocal, BeginReadyRevoke, Begin, Obsolete
    <2>3. CASE ReadyLocalStopped
      BY <2>3 DEF ReadyLocalStopped, Begin, Obsolete
    <2>4. CASE ReadyLocalFailed \/ ReadyRevokeReturns
      BY <2>4 DEF ReadyLocalFailed, ReadyRevokeReturns, Begin, Obsolete
    <2> QED BY <1>4, <2>1, <2>2, <2>3, <2>4 DEF ReadySteps
  <1>5. CASE StopSteps
    BY <1>5 DEF StopSteps, StopWorkspace, LocalStopReturns, StopProvider, BeginConfirms,
      Confirms, RecordRelease, BeginRelease, ReleaseReturns, BeginRecover, LaunchRecover,
      RecoverReturns, BeginConfirm, Confirm, Begin, Launch
  <1>6. CASE AbsenceSteps
    BY <1>6 DEF AbsenceSteps, AbsenceUnknown, StillPresent, Absent, BeginCleanup,
      CleanupReturns, StopFinish, NeverStarted, MarkStopped, Begin
  <1>7. CASE Handlers
    <2>1. CASE CreateWorkspace \/ RepeatCreate \/ GetWorkspace
      BY <2>1 DEF CreateWorkspace, RepeatCreate, GetWorkspace, Enqueue
    <2>2. CASE DeleteWorkspace \/ RepeatDelete \/ DeleteStopped
      BY <2>2 DEF DeleteWorkspace, RepeatDelete, DeleteStopped, Enqueue
    <2>3. CASE OtherSave \/ TimerFires
      BY <2>3 DEF OtherSave, TimerFires, Enqueue
    <2> QED BY <1>7, <2>1, <2>2, <2>3 DEF Handlers
  <1>8. CASE DeskSteps
    <2>1. CASE DesktopArrives
      BY <2>1 DEF DesktopArrives, Enqueue, DeskGoto, DeskEnd, RevokeSchedules
    <2>2. CASE DesktopStarts
      BY <2>2 DEF DesktopStarts, Enqueue, DeskGoto, DeskEnd, RevokeSchedules
    <2>3. CASE DesktopGivesUp \/ DesktopReturns \/ DesktopHandsOff
      BY <2>3 DEF DesktopGivesUp, DesktopReturns, DesktopHandsOff, Enqueue, DeskGoto,
        DeskEnd, RevokeSchedules
    <2>4. CASE DesktopExpires
      BY <2>4 DEF DesktopExpires, Enqueue, DeskGoto, DeskEnd, RevokeSchedules
    <2>5. CASE DesktopExpiryRevokes
      BY <2>5 DEF DesktopExpiryRevokes, Enqueue, DeskGoto, DeskEnd, RevokeSchedules
    <2>6. CASE DesktopRevoked \/ DesktopRevokeFails
      BY <2>6 DEF DesktopRevoked, DesktopRevokeFails, Enqueue, DeskGoto, DeskEnd,
        RevokeSchedules
    <2> QED BY <1>8, <2>1, <2>2, <2>3, <2>4, <2>5, <2>6 DEF DeskSteps
  <1>9. CASE Environment
    BY <1>9 DEF Environment, External, Tick, Crash, PowerLoss, Restart, Dies
  <1> QED BY <1>1, <1>2, <1>3, <1>4, <1>5, <1>6, <1>7, <1>8, <1>9, AllSteps

\* So do the machine, the child, the bridge and the process.
LEMMA RestTypes ==
    ASSUME ControllerInv, ControllerNext
    PROVE  /\ res' \in {"none", "creating", "present"} /\ lag' \in 0 .. ProviderLag
           /\ child' \in Children /\ bridge' \in BOOLEAN /\ errs' \in 0 .. MaxErrors
           /\ ttl' \in 0 .. TTL /\ up' \in BOOLEAN /\ crashes' \in 0 .. MaxCrashes
           /\ created' \in BOOLEAN /\ deleted' \in BOOLEAN
  <1>0. ControllerTypeOK
    BY DEF ControllerInv
  <1> USE <1>0, HelpersTyped DEF ControllerTypeOK, Step, Idle, Handler, DeskStep,
      processVars, runnerVars, Children
  <1>1. CASE Scheduling
    BY <1>1 DEF Scheduling, TakeSlot, DispatchFinished, DispatchStopping,
      DispatchProvisioning, DispatchReady, Finish
  <1>2. CASE ProvisionSteps
    BY <1>2 DEF ProvisionSteps, Provisioning, ProvisioningWaits,
      BeginProvisioningInspection, InspectProvisioning, MarkReady, LeaveProvisioning,
      FailProvisioning, Prepare, BeginCreate, Answer
  <1>3. CASE WarmupSteps
    BY <1>3 DEF WarmupSteps, LaunchCreate, PersistAcquiredIdentity, AcknowledgeIdentity,
      WarmupReturns, WarmupFails, CreateFailed, Launch
  <1>4. CASE ReadySteps
    BY <1>4 DEF ReadySteps, BeginReadyInspection, InspectReady, InspectionFailed,
      LeaveReady, BeginReadyLocal, BeginReadyRevoke, ReadyLocalStopped, ReadyLocalFailed,
      ReadyRevokeReturns, SavePending, Answer
  <1>5. CASE StopSteps
    BY <1>5 DEF StopSteps, StopWorkspace, LocalStopReturns, StopProvider, BeginConfirms,
      Confirms, RecordRelease, BeginRelease, ReleaseReturns, BeginRecover, LaunchRecover,
      RecoverReturns, BeginConfirm, Confirm, Launch
  <1>6. CASE AbsenceSteps
    BY <1>6 DEF AbsenceSteps, AbsenceUnknown, StillPresent, Absent, BeginCleanup,
      CleanupReturns, StopFinish, NeverStarted, MarkStopped
  <1>7. CASE Handlers
    BY <1>7 DEF Handlers, CreateWorkspace, RepeatCreate, GetWorkspace, DeleteWorkspace,
      RepeatDelete, DeleteStopped, OtherSave, TimerFires
  <1>8. CASE DeskSteps
    BY <1>8 DEF DeskSteps, DesktopArrives, DesktopStarts, DesktopGivesUp, DesktopReturns,
      DesktopHandsOff, DesktopExpires, DesktopExpiryRevokes, DesktopRevoked,
      DesktopRevokeFails, SavePending
  <1>9. CASE Environment
    <2>1. CASE External
      <3>1. CASE ChildCreates \/ CreateSettles \/ MachineVanishes
        BY <2>1, <3>1, RunnerConstants DEF External, ChildCreates, CreateSettles, MachineVanishes
      <3>2. CASE ReleaseTakesEffect \/ BridgeStarts \/ BridgeStops
        BY <2>1, <3>2 DEF External, ReleaseTakesEffect, BridgeStarts, BridgeStops
      <3> QED BY <2>1, <3>1, <3>2 DEF External, Outside
    <2>2. CASE Tick
      BY <2>2, RunnerConstants, TTLAssumption DEF Tick
    <2>3. CASE Crash \/ PowerLoss
      <3>1. crashes' \in 0 .. MaxCrashes
        BY <2>3, ControllerConstants DEF Crash, PowerLoss, Dies
      <3> QED BY <2>3, <3>1 DEF Crash, PowerLoss, Dies
    <2>4. CASE Restart
      BY <2>4 DEF Restart
    <2> QED BY <1>9, <2>1, <2>2, <2>3, <2>4 DEF Environment
  <1> QED BY <1>1, <1>2, <1>3, <1>4, <1>5, <1>6, <1>7, <1>8, <1>9, AllSteps

\* Every variable keeps its type.
LEMMA TypeKept ==
    ASSUME ControllerInv, ControllerNext
    PROVE  ControllerTypeOK'
  BY FileKept, FileTypes, SchedTypes, RestTypes DEF ControllerTypeOK, FileTyped

\* A machine is asked for only once its create is prepared on every record.
LEMMA PreparedKept ==
    ASSUME ControllerInv, ControllerNext
    PROVE  PreparedInv'
  <1>0. PreparedInv /\ PcInv /\ FileInv /\ ChildInv /\ rec \in Records /\ stable \subseteq Records
    BY DEF ControllerInv, ControllerTypeOK
  <1> SUFFICES res' # "none" \/ child' \notin {"none", "gated"} =>
                  \/ res # "none" \/ child \notin {"none", "gated"}
                  \/ stable' = {rec'} /\ rec'.prepared
    <2>1. CASE FileMove
      BY <1>0, <2>1 DEF PreparedInv, FileInv, FileMove, GoodMove, Grows
    <2>2. CASE Tick
      <3>1. stable' = {Older(r) : r \in stable} /\ child' = child /\ res' = res
        BY <2>2 DEF Tick
      <3> QED BY <1>0, <3>1, OlderIs DEF PreparedInv
    <2>3. CASE PowerLoss
      BY <1>0, <2>3 DEF PowerLoss, Dies, PreparedInv
    <2> QED BY <2>1, <2>2, <2>3, FileMoves
  <1> USE <1>0 DEF Step, Goto, End, Idle, Handler, DeskStep, schedVars, runnerVars,
      processVars
  <1>1. CASE Scheduling
    BY <1>1 DEF Scheduling, TakeSlot, DispatchFinished, DispatchStopping,
      DispatchProvisioning, DispatchReady, Finish
  <1>2. CASE ProvisionSteps
    BY <1>2 DEF ProvisionSteps, Provisioning, ProvisioningWaits,
      BeginProvisioningInspection, InspectProvisioning, MarkReady, LeaveProvisioning,
      FailProvisioning, Prepare, BeginCreate
  <1>3. CASE WarmupSteps
    <2>1. CASE LaunchCreate
      <3>1. rec.prepared
        BY <2>1 DEF LaunchCreate, PcInv, PcOK, PreparedPcs
      <3> QED BY <2>1, <3>1 DEF LaunchCreate, Launch, Update, Save, Records
    <2>2. CASE \/ PersistAcquiredIdentity \/ AcknowledgeIdentity \/ WarmupReturns \/ WarmupFails
               \/ CreateFailed
      BY <2>2 DEF PersistAcquiredIdentity, AcknowledgeIdentity, WarmupReturns, WarmupFails, CreateFailed
    <2> QED BY <1>3, <2>1, <2>2 DEF WarmupSteps
  <1>4. CASE ReadySteps
    BY <1>4 DEF ReadySteps, BeginReadyInspection, InspectReady, InspectionFailed,
      LeaveReady, BeginReadyLocal, BeginReadyRevoke, ReadyLocalStopped, ReadyLocalFailed,
      ReadyRevokeReturns
  <1>5. CASE StopSteps
    <2>1. CASE LaunchRecover
      <3>1. rec.prepared
        BY <2>1 DEF LaunchRecover, PcInv, PcOK, PreparedPcs
      <3> QED BY <2>1, <3>1 DEF LaunchRecover, Launch, Update, Save, Records
    <2>2. CASE ~LaunchRecover
      BY <1>5, <2>2 DEF StopSteps, StopWorkspace, LocalStopReturns, StopProvider, BeginConfirms, Confirms,
        RecordRelease, BeginRelease, ReleaseReturns, BeginRecover, RecoverReturns, BeginConfirm, Confirm
    <2> QED BY <2>1, <2>2
  <1>6. CASE AbsenceSteps
    BY <1>6 DEF AbsenceSteps, AbsenceUnknown, StillPresent, Absent, BeginCleanup,
      CleanupReturns, StopFinish, NeverStarted, MarkStopped
  <1>7. CASE Handlers
    BY <1>7 DEF Handlers, CreateWorkspace, RepeatCreate, GetWorkspace, DeleteWorkspace,
      RepeatDelete, DeleteStopped, OtherSave, TimerFires
  <1>8. CASE DeskSteps
    BY <1>8 DEF DeskSteps, DesktopArrives, DesktopStarts, DesktopGivesUp, DesktopReturns,
      DesktopHandsOff, DesktopExpires, DesktopExpiryRevokes, DesktopRevoked,
      DesktopRevokeFails
  <1>9. CASE Environment
    BY <1>9 DEF Environment, External, Tick, Crash, PowerLoss, Restart, Dies, Outside,
      ChildCreates, CreateSettles, MachineVanishes, ReleaseTakesEffect, BridgeStarts,
      BridgeStops
  <1> QED BY <1>1, <1>2, <1>3, <1>4, <1>5, <1>6, <1>7, <1>8, <1>9, AllSteps

\* A release runs only while every record says it was asked for.
LEMMA ReleaseKept ==
    ASSUME ControllerInv, ControllerNext
    PROVE  ReleaseIsRecorded'
  <1>0. ReleaseIsRecorded /\ FileInv /\ rec \in Records /\ stable \subseteq Records
    BY DEF ControllerInv, ControllerTypeOK
  <1>p. PcInv'
    BY PcKept
  <1> SUFFICES up' /\ rc' = "releaseRun" => \/ up /\ rc = "releaseRun"
                                            \/ stable' = {rec'}
    <2> USE DEF ReleaseIsRecorded, PcInv, PcOK, StopPcs, ReleasePcs
    <2>1. CASE FileMove
      BY <1>0, <1>p, <2>1 DEF FileMove
    <2>2. CASE Tick
      <3>1. stable' = {Older(r) : r \in stable} /\ rc' = rc /\ up' = up
        BY <2>2 DEF Tick, schedVars
      <3> QED BY <1>0, <3>1, OlderIs
    <2>3. CASE PowerLoss
      BY <2>3 DEF PowerLoss, Dies
    <2> QED BY <2>1, <2>2, <2>3, FileMoves
  <1> USE <1>0 DEF Step, Goto, End, Idle, Handler, DeskStep, schedVars, runnerVars,
      processVars, FileInv
  <1>1. CASE Scheduling
    BY <1>1 DEF Scheduling, TakeSlot, DispatchFinished, DispatchStopping,
      DispatchProvisioning, DispatchReady, Finish, Durable
  <1>2. CASE ProvisionSteps
    BY <1>2 DEF ProvisionSteps, Provisioning, ProvisioningWaits,
      BeginProvisioningInspection, InspectProvisioning, MarkReady, LeaveProvisioning,
      FailProvisioning, Prepare, BeginCreate, Begin, Obsolete, Touch, ProvisioningBranch
  <1>3. CASE WarmupSteps
    BY <1>3 DEF WarmupSteps, LaunchCreate, PersistAcquiredIdentity, AcknowledgeIdentity,
      WarmupReturns, WarmupFails, CreateFailed, Launch, Touch
  <1>4. CASE ReadySteps
    BY <1>4 DEF ReadySteps, BeginReadyInspection, InspectReady, InspectionFailed,
      LeaveReady, BeginReadyLocal, BeginReadyRevoke, ReadyLocalStopped, ReadyLocalFailed,
      ReadyRevokeReturns, Begin, Obsolete, Touch, SavePending
  <1>5. CASE StopSteps
    BY <1>5 DEF StopSteps, StopWorkspace, LocalStopReturns, StopProvider, BeginConfirms,
      Confirms, RecordRelease, BeginRelease, ReleaseReturns, BeginRecover, LaunchRecover,
      RecoverReturns, BeginConfirm, Confirm, Begin, Launch, Durable, StopBranch
  <1>6. CASE AbsenceSteps
    BY <1>6 DEF AbsenceSteps, AbsenceUnknown, StillPresent, Absent, BeginCleanup,
      CleanupReturns, StopFinish, NeverStarted, MarkStopped, Begin
  <1>7. CASE Handlers
    BY <1>7 DEF Handlers, CreateWorkspace, RepeatCreate, GetWorkspace, DeleteWorkspace,
      RepeatDelete, DeleteStopped, OtherSave, TimerFires, Enqueue
  <1>8. CASE DeskSteps
    BY <1>8 DEF DeskSteps, DesktopArrives, DesktopStarts, DesktopGivesUp, DesktopReturns,
      DesktopHandsOff, DesktopExpires, DesktopExpiryRevokes, DesktopRevoked,
      DesktopRevokeFails, Enqueue, DeskGoto, DeskEnd, SavePending
  <1>9. CASE Environment
    BY <1>9 DEF Environment, External, Tick, Crash, PowerLoss, Restart, Dies, Outside,
      ChildCreates, CreateSettles, MachineVanishes, ReleaseTakesEffect, BridgeStarts,
      BridgeStops
  <1> QED BY <1>1, <1>2, <1>3, <1>4, <1>5, <1>6, <1>7, <1>8, <1>9, AllSteps

-------------------------------------------------------------------------------
(* Wakeups.                                                                *)

\* How a step may leave the schedule.
LEMMA Wakes ==
    ASSUME ControllerInv
    PROVE  /\ Enqueue /\ up /\ up' => WakeInv'
           /\ up' /\ timer' = Scheduled(rec', "retry") => WakeInv'
           /\ UNCHANGED <<timer, rc, pending, up>> /\ rec'.status = rec.status => WakeInv'
           /\ up' /\ timer # "ready" =>
                 /\ \A pc : Goto(pc) /\ pc \notin {"idle", "done"} => WakeInv'
                 /\ End("retry") => WakeInv'
                 /\ End("ready") /\ rec'.status = "ready" => WakeInv'
                 /\ End("keep") /\ rec'.status \notin {"provisioning", "ready"} => WakeInv'
  BY DEF ControllerInv, WakeInv, Enqueue, Goto, End, Scheduled, NeedsReconcile, Active

\* Whoever leaves work behind leaves a goroutine, a note or a timer.
LEMMA WakeKept ==
    ASSUME ControllerInv, ControllerNext
    PROVE  WakeInv'
  <1>0. PcInv /\ rec \in Records /\ goal \in {"none"} \cup Finished
    BY DEF ControllerInv, ControllerTypeOK
  <1>t. up /\ rc \notin {"idle", "done"} => timer # "ready"
    BY DEF ControllerInv, WakeInv
  <1>s. /\ LocallyPending(rec, TRUE).status = rec.status /\ LocallyPending(rec, FALSE).status = rec.status
        /\ LocallyStopped(rec).status = rec.status
    BY <1>0, LocalUpdates
  <1> USE <1>0, <1>t, <1>s, Wakes DEF Step, processVars
  <1>1. CASE Scheduling
    <2>1. CASE Finish
      BY <2>1 DEF Finish, WakeInv, ControllerInv, NeedsReconcile, Active
    <2>2. CASE ~Finish
      BY <1>1, <2>2 DEF Scheduling, TakeSlot, DispatchFinished, DispatchStopping, DispatchProvisioning,
        DispatchReady, NeedsReconcile, Active, fileVars, WakeInv
    <2> QED BY <2>1, <2>2
  <1>2. CASE ProvisionSteps
    <2>1. CASE Provisioning \/ ProvisioningWaits \/ (\E a \in Answers : InspectProvisioning(a))
      BY <2>1 DEF Provisioning, ProvisioningWaits, InspectProvisioning, Begin, Obsolete,
        ProvisioningBranch, PcInv, PcOK, PreparedPcs, ProvisionPcs, ReadyPcs, StopPcs,
        NeverPcs, Update, Save, fileVars, Durable
    <2>2. CASE BeginProvisioningInspection \/ BeginCreate
      BY <2>2 DEF BeginProvisioningInspection, BeginCreate, Begin, Obsolete,
        ProvisioningBranch, PcInv, PcOK, PreparedPcs, ProvisionPcs, ReadyPcs, StopPcs,
        NeverPcs, Update, Save, fileVars, Durable
    <2>3. CASE MarkReady
      BY <2>3 DEF MarkReady, Begin, Obsolete, ProvisioningBranch, PcInv, PcOK, PreparedPcs,
        ProvisionPcs, ReadyPcs, StopPcs, NeverPcs, Update, Save, fileVars, Durable
    <2>4. CASE LeaveProvisioning \/ FailProvisioning \/ Prepare
      BY <2>4 DEF LeaveProvisioning, FailProvisioning, Prepare, Begin, Obsolete,
        ProvisioningBranch, PcInv, PcOK, PreparedPcs, ProvisionPcs, ReadyPcs, StopPcs,
        NeverPcs, Update, Save, fileVars, Durable
    <2> QED BY <1>2, <2>1, <2>2, <2>3, <2>4 DEF ProvisionSteps
  <1>3. CASE WarmupSteps
    <2>1. CASE LaunchCreate \/ WarmupReturns \/ WarmupFails \/ CreateFailed
      BY <2>1 DEF LaunchCreate, WarmupReturns, WarmupFails, CreateFailed, Launch, Update,
        Save, fileVars, Durable, NotDurable, schedVars, Records
    <2>2. CASE PersistAcquiredIdentity \/ AcknowledgeIdentity
      BY <2>2 DEF PersistAcquiredIdentity, AcknowledgeIdentity, Launch, Update, Save,
        fileVars, Durable, NotDurable, schedVars, Records
    <2> QED BY <1>3, <2>1, <2>2 DEF WarmupSteps
  <1>4. CASE ReadySteps
    <2>1. CASE BeginReadyInspection \/ BeginReadyLocal \/ BeginReadyRevoke
      BY <2>1 DEF BeginReadyInspection, BeginReadyLocal, BeginReadyRevoke, Begin, Obsolete,
        Touch, SavePending, PcInv, PcOK, PreparedPcs, ProvisionPcs, ReadyPcs, StopPcs,
        NeverPcs, Update, Save, fileVars, Durable
    <2>2. CASE (\E a \in Answers : InspectReady(a)) \/ InspectionFailed
      BY <2>2 DEF InspectReady, InspectionFailed, Begin, Obsolete, Touch, SavePending,
        PcInv, PcOK, PreparedPcs, ProvisionPcs, ReadyPcs, StopPcs, NeverPcs, Update, Save,
        fileVars, Durable
    <2>3. CASE LeaveReady
      BY <2>3 DEF LeaveReady, Begin, Obsolete, Touch, SavePending, PcInv, PcOK, PreparedPcs,
        ProvisionPcs, ReadyPcs, StopPcs, NeverPcs, Update, Save, fileVars, Durable
    <2>4. CASE ReadyLocalStopped
      BY <2>4 DEF ReadyLocalStopped, Begin, Obsolete, Touch, SavePending, PcInv, PcOK,
        PreparedPcs, ProvisionPcs, ReadyPcs, StopPcs, NeverPcs, Update, Save, fileVars,
        Durable
    <2>5. CASE ReadyLocalFailed \/ ReadyRevokeReturns
      <3>1. up /\ up' = up /\ rc \in {"readyLocalRun", "readyRevokeRun"} /\ End("retry")
        BY <2>5 DEF ReadyLocalFailed, ReadyRevokeReturns
      <3> QED BY <3>1
    <2> QED BY <1>4, <2>1, <2>2, <2>3, <2>4, <2>5 DEF ReadySteps
  <1>5. CASE StopSteps
    <2>1. CASE StopWorkspace \/ LocalStopReturns \/ StopProvider \/ BeginConfirms \/ Confirms
      BY <2>1 DEF StopWorkspace, LocalStopReturns, StopProvider, BeginConfirms, Confirms,
        BeginConfirm, Confirm, Begin, Launch, StopBranch
    <2>2. CASE RecordRelease \/ BeginRelease \/ ReleaseReturns \/ BeginRecover \/ LaunchRecover \/ RecoverReturns
      BY <2>2 DEF RecordRelease, BeginRelease, ReleaseReturns, BeginRecover, LaunchRecover,
        RecoverReturns, BeginConfirm, Confirm, Begin, Launch, StopBranch
    <2> QED BY <1>5, <2>1, <2>2 DEF StopSteps
  <1>6. CASE AbsenceSteps
    <2>1. CASE AbsenceUnknown \/ StillPresent \/ Absent
      BY <2>1, StoppedIs DEF AbsenceUnknown, StillPresent, Absent, Begin, Finished, PcInv,
        PcOK, PreparedPcs, ProvisionPcs, ReadyPcs, StopPcs, NeverPcs, Update, Save, fileVars
    <2>2. CASE BeginCleanup \/ CleanupReturns \/ NeverStarted
      BY <2>2, StoppedIs DEF BeginCleanup, CleanupReturns, NeverStarted, Begin, Finished,
        PcInv, PcOK, PreparedPcs, ProvisionPcs, ReadyPcs, StopPcs, NeverPcs, Update, Save,
        fileVars
    <2>3. CASE StopFinish \/ MarkStopped
      BY <2>3, StoppedIs DEF StopFinish, MarkStopped, Begin, Finished, PcInv, PcOK,
        PreparedPcs, ProvisionPcs, ReadyPcs, StopPcs, NeverPcs, Update, Save, fileVars
    <2> QED BY <1>6, <2>1, <2>2, <2>3 DEF AbsenceSteps
  <1>7. CASE Handlers
    <2>1. CASE CreateWorkspace \/ DeleteWorkspace
      BY <2>1 DEF CreateWorkspace, DeleteWorkspace, ControllerInv, Scheduled, Handler,
        Update, Save, Durable, NotDurable, fileVars, WakeInv, NeedsReconcile, Active
    <2>2. CASE RepeatCreate \/ GetWorkspace \/ RepeatDelete
      BY <2>2 DEF RepeatCreate, GetWorkspace, RepeatDelete, ControllerInv, Scheduled,
        Handler, Update, Save, Durable, NotDurable, fileVars, WakeInv, NeedsReconcile,
        Active
    <2>3. CASE DeleteStopped
      BY <2>3 DEF DeleteStopped, ControllerInv, Scheduled, Handler, Update, Save, Durable,
        NotDurable, fileVars, WakeInv, NeedsReconcile, Active
    <2>4. CASE OtherSave
      BY <2>4 DEF OtherSave, ControllerInv, Scheduled, Handler, Update, Save, Durable,
        NotDurable, fileVars, WakeInv, NeedsReconcile, Active
    <2>5. CASE TimerFires
      BY <2>5 DEF TimerFires, ControllerInv, Scheduled, Handler, Update, Save, Durable,
        NotDurable, fileVars, WakeInv, NeedsReconcile, Active
    <2> QED BY <1>7, <2>1, <2>2, <2>3, <2>4, <2>5 DEF Handlers
  <1>8. CASE DeskSteps
    <2>1. CASE DesktopArrives
      BY <2>1 DEF DesktopArrives, DeskStep, RevokeSchedules, Update, Save, fileVars,
        Durable, NotDurable
    <2>2. CASE DesktopStarts
      BY <2>2 DEF DesktopStarts, DeskStep, RevokeSchedules, Update, Save, fileVars, Durable,
        NotDurable
    <2>3. CASE DesktopGivesUp \/ DesktopReturns \/ DesktopHandsOff
      BY <2>3 DEF DesktopGivesUp, DesktopReturns, DesktopHandsOff, DeskStep,
        RevokeSchedules, Update, Save, fileVars, Durable, NotDurable
    <2>4. CASE DesktopExpires
      BY <2>4 DEF DesktopExpires, DeskStep, RevokeSchedules, Update, Save, fileVars,
        Durable, NotDurable
    <2>5. CASE DesktopExpiryRevokes
      BY <2>5 DEF DesktopExpiryRevokes, DeskStep, RevokeSchedules, Update, Save, fileVars,
        Durable, NotDurable
    <2>6. CASE DesktopRevoked
      BY <2>6 DEF DesktopRevoked, DeskStep, RevokeSchedules, Update, Save, fileVars,
        Durable, NotDurable
    <2>7. CASE DesktopRevokeFails
      BY <2>7 DEF DesktopRevokeFails, DeskStep, RevokeSchedules, Update, Save, fileVars,
        Durable, NotDurable
    <2> QED BY <1>8, <2>1, <2>2, <2>3, <2>4, <2>5, <2>6, <2>7 DEF DeskSteps
  <1>9. CASE Environment
    <2>1. CASE Tick
      <3>1. rec'.status = rec.status
        BY <2>1, OlderIs DEF Tick
      <3> QED BY <2>1, <3>1 DEF Tick, schedVars
    <2>2. CASE External
      BY <2>2 DEF External, fileVars, schedVars
    <2>3. CASE Crash \/ PowerLoss \/ Restart
      BY <2>3 DEF Crash, PowerLoss, Restart, Dies, WakeInv, ControllerInv, NeedsReconcile
    <2> QED BY <1>9, <2>1, <2>2, <2>3 DEF Environment
  <1> QED BY <1>1, <1>2, <1>3, <1>4, <1>5, <1>6, <1>7, <1>8, <1>9, AllSteps

-------------------------------------------------------------------------------
(* Cancelled commands.                                                     *)

Inspecting == CreateCommands \cup InspectCommands

\* A save or a failed flush cancels what may not run behind it.
FileCurrent ==
    /\ barrier' => BarrierEffects \subseteq cancelled'
    /\ rec'.status = "stopping" => TransitionEffects \subseteq cancelled'

\* So it is after every kind of save and flush.
LEMMA SavesCancel ==
    ASSUME ControllerInv, up
    PROVE  /\ \A r : \A o \in Saves : Update(r, o) => FileCurrent
           /\ Durable /\ UNCHANGED cancelled => FileCurrent
           /\ NotDurable => FileCurrent
           /\ UNCHANGED fileVars => FileCurrent
  <1>1. CommandsAreCurrent
    BY DEF ControllerInv
  <1>2. ASSUME NEW r, NEW o \in Saves, Update(r, o) PROVE FileCurrent
    BY <1>1, <1>2 DEF CommandsAreCurrent, Update, Save, Saves, CancelledBy, FileCurrent
  <1> QED BY <1>1, <1>2 DEF CommandsAreCurrent, Durable, NotDurable, fileVars, FileCurrent

\* No step of others, and of the goroutine only one that begins a command,
\* adds to what must be cancelled.
LEMMA NothingBegins ==
    ASSUME FileCurrent,
           rc' \in Inspecting \cup StopCommands => rc \in Inspecting \cup StopCommands,
           rc' \in Inspecting => rc \in Inspecting,
           desk' = "run" => desk = "run"
    PROVE  CommandsAreCurrent'
  <1>1. BarrierEffects' \subseteq BarrierEffects /\ TransitionEffects' \subseteq TransitionEffects
    BY DEF BarrierEffects, TransitionEffects, Inspecting
  <1> QED BY <1>1 DEF FileCurrent, CommandsAreCurrent

\* A command begins when everything is durable and the workspace is one it
\* may serve.
LEMMA BeginsCurrent ==
    ASSUME ControllerInv, up, barrier' = FALSE, rec' = rec, UNCHANGED desk,
           cancelled' = cancelled \ {"reconcile"},
           rec.status = "stopping" => rc' \notin Inspecting
    PROVE  CommandsAreCurrent'
  <1>1. CommandsAreCurrent
    BY DEF ControllerInv
  <1>2. TransitionEffects' \subseteq TransitionEffects \ {"reconcile"} \/ rec.status # "stopping"
    BY DEF TransitionEffects, Inspecting
  <1> QED BY <1>1, <1>2 DEF CommandsAreCurrent

\* A command that may not run any more has been cancelled.
LEMMA CommandsKept ==
    ASSUME ControllerInv, ControllerNext
    PROVE  CommandsAreCurrent'
  <1> USE DEF Step, Goto, End, Handler, DeskStep, processVars
  <1>1. CASE Scheduling
    <2>1. CASE Finish
      <3>1. /\ BarrierEffects' \subseteq BarrierEffects \ {"reconcile"}
            /\ TransitionEffects' \subseteq TransitionEffects \ {"reconcile"}
        BY <2>1 DEF Finish, BarrierEffects, TransitionEffects, CreateCommands, InspectCommands,
          StopCommands
      <3> QED BY <2>1, <3>1 DEF Finish, CommandsAreCurrent, ControllerInv
    <2>2. CASE ~Finish
      <3>1. FileCurrent
        BY <1>1, <2>2, SavesCancel DEF Scheduling, TakeSlot, DispatchFinished, DispatchStopping,
          DispatchProvisioning, DispatchReady
      <3> QED
        BY <1>1, <2>2, <3>1, NothingBegins DEF Scheduling, TakeSlot, DispatchFinished, DispatchStopping,
          DispatchProvisioning, DispatchReady, Inspecting, CreateCommands, InspectCommands,
          StopCommands
    <2> QED BY <2>1, <2>2
  <1>2. CASE ProvisionSteps
    <2>1. CASE BeginProvisioningInspection
      <3>1. CASE FileCurrent /\ rc' \notin Inspecting \cup StopCommands
        BY <2>1, <3>1, NothingBegins DEF BeginProvisioningInspection, Begin, Obsolete,
          Inspecting, CreateCommands, InspectCommands, StopCommands
      <3>2. CASE barrier' = FALSE /\ rec' = rec /\ cancelled' = cancelled \ {"reconcile"}
        BY <2>1, <3>2, BeginsCurrent DEF BeginProvisioningInspection, Begin, Obsolete,
          Inspecting, CreateCommands, InspectCommands, StopCommands
      <3> QED
        BY <2>1, <3>1, <3>2, SavesCancel DEF BeginProvisioningInspection, Begin, Obsolete,
          Durable, Inspecting, CreateCommands, InspectCommands, StopCommands
    <2>2. CASE BeginCreate
      <3>1. CASE FileCurrent /\ rc' \notin Inspecting \cup StopCommands
        BY <2>2, <3>1, NothingBegins DEF BeginCreate, Begin, Obsolete, Inspecting,
          CreateCommands, InspectCommands, StopCommands
      <3>2. CASE barrier' = FALSE /\ rec' = rec /\ cancelled' = cancelled \ {"reconcile"}
        BY <2>2, <3>2, BeginsCurrent DEF BeginCreate, Begin, Obsolete, Inspecting,
          CreateCommands, InspectCommands, StopCommands
      <3> QED
        BY <2>2, <3>1, <3>2, SavesCancel DEF BeginCreate, Begin, Obsolete, Durable,
          Inspecting, CreateCommands, InspectCommands, StopCommands
    <2>3. CASE Provisioning \/ ProvisioningWaits \/ (\E a \in Answers : InspectProvisioning(a))
      <3>1. FileCurrent
        BY <2>3, SavesCancel DEF Provisioning, ProvisioningWaits, InspectProvisioning,
          Touch, Saves
      <3> QED
        BY <2>3, <3>1, NothingBegins DEF Provisioning, ProvisioningWaits,
          InspectProvisioning, ProvisioningBranch, Inspecting, CreateCommands,
          InspectCommands, StopCommands
    <2>4. CASE MarkReady \/ LeaveProvisioning \/ FailProvisioning \/ Prepare
      <3>1. FileCurrent
        BY <2>4, SavesCancel DEF MarkReady, LeaveProvisioning, FailProvisioning, Prepare,
          Touch, Saves
      <3> QED
        BY <2>4, <3>1, NothingBegins DEF MarkReady, LeaveProvisioning, FailProvisioning,
          Prepare, ProvisioningBranch, Inspecting, CreateCommands, InspectCommands,
          StopCommands
    <2> QED BY <1>2, <2>1, <2>2, <2>3, <2>4 DEF ProvisionSteps
  <1>3. CASE WarmupSteps
    <2>1. CASE LaunchCreate
      <3>1. FileCurrent
        BY <2>1, SavesCancel DEF LaunchCreate, Launch, Touch, Saves
      <3> QED
        BY <2>1, <3>1, NothingBegins DEF LaunchCreate, Launch, schedVars, Inspecting,
          CreateCommands, InspectCommands, StopCommands
    <2>2. CASE PersistAcquiredIdentity \/ AcknowledgeIdentity
      <3>1. FileCurrent
        BY <2>2, SavesCancel DEF PersistAcquiredIdentity, AcknowledgeIdentity, Launch,
          Touch, Saves
      <3> QED
        BY <2>2, <3>1, NothingBegins DEF PersistAcquiredIdentity, AcknowledgeIdentity,
          Launch, schedVars, Inspecting, CreateCommands, InspectCommands, StopCommands
    <2>3. CASE WarmupReturns \/ WarmupFails \/ CreateFailed
      <3>1. FileCurrent
        BY <2>3, SavesCancel DEF WarmupReturns, WarmupFails, CreateFailed, Launch, Touch,
          Saves
      <3> QED
        BY <2>3, <3>1, NothingBegins DEF WarmupReturns, WarmupFails, CreateFailed, Launch,
          schedVars, Inspecting, CreateCommands, InspectCommands, StopCommands
    <2> QED BY <1>3, <2>1, <2>2, <2>3 DEF WarmupSteps
  <1>4. CASE ReadySteps
    <2>1. CASE BeginReadyInspection
      <3>1. CASE FileCurrent /\ rc' \notin Inspecting \cup StopCommands
        BY <2>1, <3>1, NothingBegins DEF BeginReadyInspection, Begin, Obsolete, Inspecting,
          CreateCommands, InspectCommands, StopCommands
      <3>2. CASE barrier' = FALSE /\ rec' = rec /\ cancelled' = cancelled \ {"reconcile"}
        BY <2>1, <3>2, BeginsCurrent DEF BeginReadyInspection, Begin, Obsolete, Inspecting,
          CreateCommands, InspectCommands, StopCommands
      <3> QED
        BY <2>1, <3>1, <3>2, SavesCancel DEF BeginReadyInspection, Begin, Obsolete, Durable,
          Inspecting, CreateCommands, InspectCommands, StopCommands
    <2>2. CASE (\E a \in Answers : InspectReady(a)) \/ InspectionFailed
      <3>1. FileCurrent
        BY <2>2, SavesCancel DEF InspectReady, InspectionFailed, Touch, SavePending, Saves
      <3> QED
        BY <2>2, <3>1, NothingBegins DEF InspectReady, InspectionFailed, Inspecting,
          CreateCommands, InspectCommands, StopCommands
    <2>3. CASE LeaveReady \/ BeginReadyLocal \/ BeginReadyRevoke
      <3>1. FileCurrent
        BY <2>3, SavesCancel DEF LeaveReady, BeginReadyLocal, BeginReadyRevoke, Touch,
          SavePending, Saves
      <3> QED
        BY <2>3, <3>1, NothingBegins DEF LeaveReady, BeginReadyLocal, BeginReadyRevoke,
          Inspecting, CreateCommands, InspectCommands, StopCommands
    <2>4. CASE ReadyLocalStopped
      <3>1. FileCurrent
        BY <2>4, SavesCancel DEF ReadyLocalStopped, Touch, SavePending, Saves
      <3> QED
        BY <2>4, <3>1, NothingBegins DEF ReadyLocalStopped, Inspecting, CreateCommands,
          InspectCommands, StopCommands
    <2>5. CASE ReadyLocalFailed \/ ReadyRevokeReturns
      <3>1. FileCurrent
        BY <2>5, SavesCancel DEF ReadyLocalFailed, ReadyRevokeReturns, Touch, SavePending,
          Saves
      <3> QED
        BY <2>5, <3>1, NothingBegins DEF ReadyLocalFailed, ReadyRevokeReturns, Inspecting,
          CreateCommands, InspectCommands, StopCommands
    <2> QED BY <1>4, <2>1, <2>2, <2>3, <2>4, <2>5 DEF ReadySteps
  <1>5. CASE StopSteps
    <2>1. CASE BeginConfirms
      <3>1. CASE FileCurrent /\ rc' \notin Inspecting \cup StopCommands
        BY <2>1, <3>1, NothingBegins DEF BeginConfirms, BeginConfirm, Begin, Obsolete,
          Inspecting, CreateCommands, InspectCommands, StopCommands
      <3>2. CASE barrier' = FALSE /\ rec' = rec /\ cancelled' = cancelled \ {"reconcile"}
        BY <2>1, <3>2, BeginsCurrent DEF BeginConfirms, BeginConfirm, Begin, Obsolete,
          Inspecting, CreateCommands, InspectCommands, StopCommands
      <3> QED
        BY <2>1, <3>1, <3>2, SavesCancel DEF BeginConfirms, BeginConfirm, Begin, Obsolete,
          Durable, Inspecting, CreateCommands, InspectCommands, StopCommands
    <2>2. CASE BeginRelease \/ BeginRecover
      <3>1. CASE FileCurrent /\ rc' \notin Inspecting \cup StopCommands
        BY <2>2, <3>1, NothingBegins DEF BeginRelease, BeginRecover, BeginConfirm, Begin,
          Obsolete, Inspecting, CreateCommands, InspectCommands, StopCommands
      <3>2. CASE barrier' = FALSE /\ rec' = rec /\ cancelled' = cancelled \ {"reconcile"}
        BY <2>2, <3>2, BeginsCurrent DEF BeginRelease, BeginRecover, BeginConfirm, Begin,
          Obsolete, Inspecting, CreateCommands, InspectCommands, StopCommands
      <3> QED
        BY <2>2, <3>1, <3>2, SavesCancel DEF BeginRelease, BeginRecover, BeginConfirm,
          Begin, Obsolete, Durable, Inspecting, CreateCommands, InspectCommands,
          StopCommands
    <2>3. CASE StopWorkspace \/ LocalStopReturns \/ StopProvider
      <3>1. FileCurrent
        BY <2>3, SavesCancel DEF StopWorkspace, LocalStopReturns, StopProvider, Confirm,
          Launch, Saves
      <3> QED
        BY <2>3, <3>1, NothingBegins DEF StopWorkspace, LocalStopReturns, StopProvider,
          Confirm, Launch, StopBranch, Inspecting, CreateCommands, InspectCommands,
          StopCommands
    <2>4. CASE Confirms
      <3>1. FileCurrent
        BY <2>4, SavesCancel DEF Confirms, Confirm, Launch, Saves
      <3> QED
        BY <2>4, <3>1, NothingBegins DEF Confirms, Confirm, Launch, StopBranch, Inspecting,
          CreateCommands, InspectCommands, StopCommands
    <2>5. CASE RecordRelease \/ ReleaseReturns
      <3>1. FileCurrent
        BY <2>5, SavesCancel DEF RecordRelease, ReleaseReturns, Confirm, Launch, Saves
      <3> QED
        BY <2>5, <3>1, NothingBegins DEF RecordRelease, ReleaseReturns, Confirm, Launch,
          StopBranch, Inspecting, CreateCommands, InspectCommands, StopCommands
    <2>6. CASE LaunchRecover
      <3>1. FileCurrent
        BY <2>6, SavesCancel DEF LaunchRecover, Confirm, Launch, Saves
      <3> QED
        BY <2>6, <3>1, NothingBegins DEF LaunchRecover, Confirm, Launch, StopBranch,
          Inspecting, CreateCommands, InspectCommands, StopCommands
    <2>7. CASE RecoverReturns
      <3>1. FileCurrent
        BY <2>7, SavesCancel DEF RecoverReturns, Confirm, Launch, Saves
      <3> QED
        BY <2>7, <3>1, NothingBegins DEF RecoverReturns, Confirm, Launch, StopBranch,
          Inspecting, CreateCommands, InspectCommands, StopCommands
    <2> QED BY <1>5, <2>1, <2>2, <2>3, <2>4, <2>5, <2>6, <2>7 DEF StopSteps
  <1>6. CASE AbsenceSteps
    <2>1. CASE BeginCleanup
      <3>1. CASE FileCurrent /\ rc' \notin Inspecting \cup StopCommands
        BY <2>1, <3>1, NothingBegins DEF BeginCleanup, Begin, Obsolete, Inspecting,
          CreateCommands, InspectCommands, StopCommands
      <3>2. CASE barrier' = FALSE /\ rec' = rec /\ cancelled' = cancelled \ {"reconcile"}
        BY <2>1, <3>2, BeginsCurrent DEF BeginCleanup, Begin, Obsolete, Inspecting,
          CreateCommands, InspectCommands, StopCommands
      <3> QED
        BY <2>1, <3>1, <3>2, SavesCancel DEF BeginCleanup, Begin, Obsolete, Durable,
          Inspecting, CreateCommands, InspectCommands, StopCommands
    <2>2. CASE AbsenceUnknown \/ StillPresent
      <3>1. FileCurrent
        BY <2>2, SavesCancel DEF AbsenceUnknown, StillPresent, Saves
      <3> QED
        BY <2>2, <3>1, NothingBegins DEF AbsenceUnknown, StillPresent, Inspecting,
          CreateCommands, InspectCommands, StopCommands
    <2>3. CASE Absent \/ CleanupReturns
      <3>1. FileCurrent
        BY <2>3, SavesCancel DEF Absent, CleanupReturns, Saves
      <3> QED
        BY <2>3, <3>1, NothingBegins DEF Absent, CleanupReturns, Inspecting, CreateCommands,
          InspectCommands, StopCommands
    <2>4. CASE StopFinish \/ NeverStarted \/ MarkStopped
      <3>1. FileCurrent
        BY <2>4, SavesCancel DEF StopFinish, NeverStarted, MarkStopped, Saves
      <3> QED
        BY <2>4, <3>1, NothingBegins DEF StopFinish, NeverStarted, MarkStopped, Inspecting,
          CreateCommands, InspectCommands, StopCommands
    <2> QED BY <1>6, <2>1, <2>2, <2>3, <2>4 DEF AbsenceSteps
  <1>7. CASE Handlers
    <2>1. CASE CreateWorkspace \/ RepeatCreate \/ GetWorkspace
      <3>1. FileCurrent
        BY <2>1, SavesCancel DEF CreateWorkspace, RepeatCreate, GetWorkspace, Saves
      <3> QED
        BY <2>1, <3>1, NothingBegins DEF CreateWorkspace, RepeatCreate, GetWorkspace,
          Enqueue, Inspecting, CreateCommands, InspectCommands, StopCommands
    <2>2. CASE DeleteWorkspace \/ RepeatDelete \/ DeleteStopped
      <3>1. FileCurrent
        BY <2>2, SavesCancel DEF DeleteWorkspace, RepeatDelete, DeleteStopped, Saves
      <3> QED
        BY <2>2, <3>1, NothingBegins DEF DeleteWorkspace, RepeatDelete, DeleteStopped,
          Enqueue, Inspecting, CreateCommands, InspectCommands, StopCommands
    <2>3. CASE TimerFires
      <3>1. FileCurrent
        BY <2>3, SavesCancel DEF TimerFires, Saves
      <3> QED
        BY <2>3, <3>1, NothingBegins DEF TimerFires, Enqueue, Inspecting, CreateCommands,
          InspectCommands, StopCommands
    <2>4. CASE OtherSave
      <3>1. FileCurrent
        BY <2>4 DEF OtherSave, Save, FileCurrent, ControllerInv, CommandsAreCurrent
      <3> QED
        BY <2>4, <3>1, NothingBegins DEF OtherSave, Enqueue, Inspecting, CreateCommands,
          InspectCommands, StopCommands
    <2> QED BY <1>7, <2>1, <2>2, <2>3, <2>4 DEF Handlers
  <1>8. CASE DeskSteps
    <2>1. CASE DesktopArrives
      <3>1. FileCurrent
        BY <2>1, SavesCancel DEF DesktopArrives, SavePending, Saves
      <3> QED
        BY <2>1, <3>1, NothingBegins DEF DesktopArrives, Enqueue, DeskGoto, DeskEnd,
          Inspecting, CreateCommands, InspectCommands, StopCommands
    <2>2. CASE DesktopGivesUp \/ DesktopReturns \/ DesktopHandsOff
      <3>1. FileCurrent
        BY <2>2, SavesCancel DEF DesktopGivesUp, DesktopReturns, DesktopHandsOff,
          SavePending, Saves
      <3> QED
        BY <2>2, <3>1, NothingBegins DEF DesktopGivesUp, DesktopReturns, DesktopHandsOff,
          Enqueue, DeskGoto, DeskEnd, Inspecting, CreateCommands, InspectCommands,
          StopCommands
    <2>3. CASE DesktopExpires
      <3>1. FileCurrent
        BY <2>3, SavesCancel DEF DesktopExpires, SavePending, Saves
      <3> QED
        BY <2>3, <3>1, NothingBegins DEF DesktopExpires, Enqueue, DeskGoto, DeskEnd,
          Inspecting, CreateCommands, InspectCommands, StopCommands
    <2>4. CASE DesktopExpiryRevokes
      <3>1. FileCurrent
        BY <2>4, SavesCancel DEF DesktopExpiryRevokes, SavePending, Saves
      <3> QED
        BY <2>4, <3>1, NothingBegins DEF DesktopExpiryRevokes, Enqueue, DeskGoto, DeskEnd,
          Inspecting, CreateCommands, InspectCommands, StopCommands
    <2>5. CASE DesktopRevoked \/ DesktopRevokeFails
      <3>1. FileCurrent
        BY <2>5, SavesCancel DEF DesktopRevoked, DesktopRevokeFails, SavePending, Saves
      <3> QED
        BY <2>5, <3>1, NothingBegins DEF DesktopRevoked, DesktopRevokeFails, Enqueue,
          DeskGoto, DeskEnd, Inspecting, CreateCommands, InspectCommands, StopCommands
    <2>6. CASE DesktopStarts
      <3>1. CASE FileCurrent /\ desk' # "run"
        BY <2>6, <3>1, NothingBegins DEF DesktopStarts
      <3>2. CASE /\ barrier' = FALSE /\ rec' = rec /\ rec.status = "ready" /\ UNCHANGED rc
                 /\ cancelled' = cancelled \ {"desktop"}
        BY <3>2 DEF CommandsAreCurrent, TransitionEffects
      <3> QED
        BY <2>6, <3>1, <3>2, SavesCancel DEF DesktopStarts, DeskGoto, Durable
    <2> QED BY <1>8, <2>1, <2>2, <2>3, <2>4, <2>5, <2>6 DEF DeskSteps
  <1>9. CASE Environment
    <2>1. CASE Tick
      <3>1. rec'.status = rec.status
        BY <2>1, OlderIs DEF Tick, ControllerInv, ControllerTypeOK
      <3>2. CommandsAreCurrent
        BY DEF ControllerInv
      <3> QED BY <2>1, <3>1, <3>2 DEF Tick, schedVars, CommandsAreCurrent, BarrierEffects, TransitionEffects
    <2>2. CASE External
      BY <2>2 DEF External, fileVars, schedVars, ControllerInv, CommandsAreCurrent, BarrierEffects,
        TransitionEffects
    <2>3. CASE Crash \/ PowerLoss
      BY <2>3 DEF Crash, PowerLoss, Dies, CommandsAreCurrent
    <2>4. CASE Restart
      BY <2>4 DEF Restart, CommandsAreCurrent, BarrierEffects, TransitionEffects, CreateCommands,
        InspectCommands, StopCommands
    <2> QED BY <1>9, <2>1, <2>2, <2>3, <2>4 DEF Environment
  <1> QED BY <1>1, <1>2, <1>3, <1>4, <1>5, <1>6, <1>7, <1>8, <1>9, AllSteps

-------------------------------------------------------------------------------
(* The desktop bridge.                                                     *)

\* The bridge of such a workspace is still to be revoked.
ToRevoke(r) == r.prepared /\ ~r.localStopped /\ r.status \in {"ready", "stopping"}

\* A change of the record that leaves it so.
KeepsBridge(s, r) ==
    r.localStopped = s.localStopped /\ r.status \in {s.status, "ready", "stopping"}

\* The saves that do.
LEMMA BridgeUpdates ==
    ASSUME rec \in Records
    PROVE  /\ KeepsBridge(rec, rec)
           /\ \A f \in {"none"} \cup Finished : KeepsBridge(rec, ToStopping(rec, f))
           /\ KeepsBridge(rec, LocallyPending(rec, TRUE)) /\ KeepsBridge(rec, LocallyPending(rec, FALSE))
           /\ KeepsBridge(rec, CreatePrepared(rec)) /\ KeepsBridge(rec, StillListed(rec))
           /\ KeepsBridge(rec, ProviderGone(rec))
           /\ KeepsBridge(rec, [rec EXCEPT !.status = IF @ = "stopping" THEN @ ELSE "ready"])
           /\ KeepsBridge(rec, [rec EXCEPT !.started = TRUE])
           /\ KeepsBridge(rec, [rec EXCEPT !.observed = TRUE])
           /\ KeepsBridge(rec, [rec EXCEPT !.releaseRequested = TRUE])
           /\ \A a : KeepsBridge(rec, [rec EXCEPT !.absentAge = a])
  <1> USE DEF KeepsBridge
  <1>1. \A f \in {"none"} \cup Finished : KeepsBridge(rec, ToStopping(rec, f))
    BY ToStoppingIs
  <1>2. KeepsBridge(rec, LocallyPending(rec, TRUE)) /\ KeepsBridge(rec, LocallyPending(rec, FALSE))
    BY LocalUpdates
  <1>3. /\ KeepsBridge(rec, CreatePrepared(rec)) /\ KeepsBridge(rec, StillListed(rec))
        /\ KeepsBridge(rec, ProviderGone(rec))
    BY CreatePreparedIs, AbsenceUpdates
  <1>4. /\ KeepsBridge(rec, [rec EXCEPT !.status = IF @ = "stopping" THEN @ ELSE "ready"])
        /\ KeepsBridge(rec, [rec EXCEPT !.started = TRUE])
        /\ KeepsBridge(rec, [rec EXCEPT !.observed = TRUE])
        /\ KeepsBridge(rec, [rec EXCEPT !.releaseRequested = TRUE])
    BY DEF Records
  <1>5. \A a : KeepsBridge(rec, [rec EXCEPT !.absentAge = a])
    BY DEF Records
  <1>6. KeepsBridge(rec, rec)
    OBVIOUS
  <1> HIDE DEF KeepsBridge
  <1> QED BY <1>1, <1>2, <1>3, <1>4, <1>5, <1>6

\* A bridge is recorded as revoked only once it is gone.
LEMMA BridgeKept ==
    ASSUME ControllerInv, ControllerNext
    PROVE  BridgeInv'
  <1>0. /\ BridgeInv /\ FileInv /\ PcInv /\ SlotInv /\ rec \in Records /\ stable \subseteq Records
        /\ goal \in {"none"} \cup Finished
    BY DEF ControllerInv, ControllerTypeOK
  <1> SUFFICES bridge' \/ desk' = "run" =>
                  \/ (bridge \/ desk = "run") /\ KeepsBridge(rec, rec')
                  \/ stable' = {rec'} /\ ToRevoke(rec')
    <2>1. CASE FileMove
      <3>1. /\ rec' \in stable' /\ stable' \subseteq stable \cup {rec'} /\ (rec.prepared => rec'.prepared)
        BY <2>1 DEF FileMove, GoodMove, Grows
      <3> QED BY <1>0, <3>1 DEF BridgeInv, FileInv, KeepsBridge, ToRevoke
    <2>2. CASE Tick
      <3>1. stable' = {Older(r) : r \in stable} /\ bridge' = bridge /\ desk' = desk
        BY <2>2 DEF Tick
      <3> QED BY <1>0, <3>1, OlderIs DEF BridgeInv
    <2>3. CASE PowerLoss
      BY <2>3 DEF PowerLoss, BridgeInv
    <2> QED BY <2>1, <2>2, <2>3, FileMoves
  <1>a. bridge \/ desk = "run" => rec.prepared /\ ~rec.localStopped
    BY <1>0 DEF BridgeInv, FileInv
  <1> USE <1>0, <1>a, BridgeUpdates DEF Step, Idle, runnerVars
  <1>1. CASE Scheduling
    <2>1. CASE TakeSlot \/ DispatchFinished \/ DispatchStopping \/ DispatchReady
      BY <2>1 DEF TakeSlot, DispatchFinished, DispatchStopping, DispatchReady, Durable,
        NotDurable, fileVars
    <2>2. CASE DispatchProvisioning \/ Finish
      BY <2>2 DEF DispatchProvisioning, Finish, Durable, NotDurable, fileVars
    <2> QED BY <1>1, <2>1, <2>2 DEF Scheduling
  <1>2. CASE ProvisionSteps
    <2>1. CASE Provisioning \/ ProvisioningWaits \/ (\E a \in Answers : InspectProvisioning(a))
      BY <2>1 DEF Provisioning, ProvisioningWaits, InspectProvisioning, Begin, Obsolete,
        Touch, Update, Save, fileVars, Durable, NotDurable, Finished
    <2>2. CASE BeginProvisioningInspection \/ BeginCreate
      BY <2>2 DEF BeginProvisioningInspection, BeginCreate, Begin, Obsolete, Touch, Update,
        Save, fileVars, Durable, NotDurable, Finished
    <2>3. CASE MarkReady
      BY <2>3 DEF MarkReady, Begin, Obsolete, Touch, Update, Save, fileVars, Durable,
        NotDurable, Finished
    <2>4. CASE LeaveProvisioning \/ FailProvisioning \/ Prepare
      BY <2>4 DEF LeaveProvisioning, FailProvisioning, Prepare, Begin, Obsolete, Touch,
        Update, Save, fileVars, Durable, NotDurable, Finished
    <2> QED BY <1>2, <2>1, <2>2, <2>3, <2>4 DEF ProvisionSteps
  <1>3. CASE WarmupSteps
    <2>1. CASE LaunchCreate
      BY <2>1 DEF LaunchCreate, Launch, Touch, Update, Save, fileVars, Durable, NotDurable
    <2>2. CASE PersistAcquiredIdentity \/ AcknowledgeIdentity
      BY <2>2 DEF PersistAcquiredIdentity, AcknowledgeIdentity, Launch, Touch, Update, Save,
        fileVars, Durable, NotDurable
    <2>3. CASE WarmupReturns \/ WarmupFails \/ CreateFailed
      BY <2>3 DEF WarmupReturns, WarmupFails, CreateFailed, Launch, Touch, Update, Save,
        fileVars, Durable, NotDurable
    <2> QED BY <1>3, <2>1, <2>2, <2>3 DEF WarmupSteps
  <1>4. CASE ReadySteps
    <2>1. CASE BeginReadyInspection \/ BeginReadyLocal \/ BeginReadyRevoke
      BY <2>1 DEF BeginReadyInspection, BeginReadyLocal, BeginReadyRevoke, Begin, Obsolete,
        Touch, SavePending, Update, Save, fileVars, Durable, NotDurable
    <2>2. CASE (\E a \in Answers : InspectReady(a)) \/ InspectionFailed
      BY <2>2 DEF InspectReady, InspectionFailed, Begin, Obsolete, Touch, SavePending,
        Update, Save, fileVars, Durable, NotDurable
    <2>3. CASE LeaveReady
      BY <2>3 DEF LeaveReady, Begin, Obsolete, Touch, SavePending, Update, Save, fileVars,
        Durable, NotDurable
    <2>4. CASE ReadyLocalStopped
      BY <2>4 DEF ReadyLocalStopped, Begin, Obsolete, Touch, SavePending, Update, Save,
        fileVars, Durable, NotDurable
    <2>5. CASE ReadyLocalFailed
      BY <2>5 DEF ReadyLocalFailed, Begin, Obsolete, Touch, SavePending, Update, Save,
        fileVars, Durable, NotDurable
    <2>6. CASE ReadyRevokeReturns
      BY <2>6 DEF ReadyRevokeReturns, Begin, Obsolete, Touch, SavePending, Update, Save,
        fileVars, Durable, NotDurable
    <2> QED BY <1>4, <2>1, <2>2, <2>3, <2>4, <2>5, <2>6 DEF ReadySteps
  <1>5. CASE StopSteps
    <2>1. CASE StopWorkspace \/ StopProvider \/ BeginConfirms \/ Confirms
      BY <2>1 DEF StopWorkspace, StopProvider, BeginConfirms, Confirms, BeginConfirm,
        Confirm, Begin, Launch, Update, Save, fileVars, Durable, NotDurable, SlotInv
    <2>2. CASE RecordRelease \/ BeginRelease \/ ReleaseReturns
      BY <2>2 DEF RecordRelease, BeginRelease, ReleaseReturns, BeginConfirm, Confirm, Begin,
        Launch, Update, Save, fileVars, Durable, NotDurable, SlotInv
    <2>3. CASE BeginRecover \/ LaunchRecover \/ RecoverReturns
      BY <2>3 DEF BeginRecover, LaunchRecover, RecoverReturns, BeginConfirm, Confirm, Begin,
        Launch, Update, Save, fileVars, Durable, NotDurable, SlotInv
    <2>4. CASE LocalStopReturns
      BY <2>4 DEF LocalStopReturns, BeginConfirm, Confirm, Begin, Launch, Update, Save,
        fileVars, Durable, NotDurable, SlotInv
    <2> QED BY <1>5, <2>1, <2>2, <2>3, <2>4 DEF StopSteps
  <1>6. CASE AbsenceSteps
    <2>1. CASE AbsenceUnknown \/ StillPresent \/ CleanupReturns
      BY <2>1 DEF AbsenceUnknown, StillPresent, CleanupReturns, Begin, Update, Save,
        fileVars, Durable, NotDurable, PcInv, PcOK, NeverPcs
    <2>2. CASE BeginCleanup \/ NeverStarted
      BY <2>2 DEF BeginCleanup, NeverStarted, Begin, Update, Save, fileVars, Durable,
        NotDurable, PcInv, PcOK, NeverPcs
    <2>3. CASE Absent
      BY <2>3 DEF Absent, Begin, Update, Save, fileVars, Durable, NotDurable, PcInv, PcOK,
        NeverPcs
    <2>4. CASE StopFinish
      BY <2>4 DEF StopFinish, Begin, Update, Save, fileVars, Durable, NotDurable, PcInv,
        PcOK, NeverPcs
    <2>5. CASE MarkStopped
      BY <2>5 DEF MarkStopped, Begin, Update, Save, fileVars, Durable, NotDurable, PcInv,
        PcOK, NeverPcs
    <2> QED BY <1>6, <2>1, <2>2, <2>3, <2>4, <2>5 DEF AbsenceSteps
  <1>7. CASE Handlers
    <2>1. CASE CreateWorkspace
      BY <2>1 DEF CreateWorkspace, Handler, NoRecord, Update, Save, fileVars, Durable,
        NotDurable
    <2>2. CASE RepeatCreate \/ GetWorkspace
      BY <2>2 DEF RepeatCreate, GetWorkspace, Handler, NoRecord, Update, Save, fileVars,
        Durable, NotDurable
    <2>3. CASE DeleteWorkspace \/ RepeatDelete \/ DeleteStopped
      BY <2>3 DEF DeleteWorkspace, RepeatDelete, DeleteStopped, Handler, NoRecord, Update,
        Save, fileVars, Durable, NotDurable
    <2>4. CASE OtherSave \/ TimerFires
      BY <2>4 DEF OtherSave, TimerFires, Handler, NoRecord, Update, Save, fileVars, Durable,
        NotDurable
    <2> QED BY <1>7, <2>1, <2>2, <2>3, <2>4 DEF Handlers
  <1>8. CASE DeskSteps
    <2>1. CASE DesktopArrives
      BY <2>1 DEF DesktopArrives, DeskGoto, DeskEnd, SavePending, DeskStep, Finished,
        Update, Save, fileVars, Durable, NotDurable, FileInv, RecordOK, ToRevoke
    <2>2. CASE DesktopGivesUp \/ DesktopReturns \/ DesktopHandsOff
      BY <2>2 DEF DesktopGivesUp, DesktopReturns, DesktopHandsOff, DeskGoto, DeskEnd,
        SavePending, DeskStep, Finished, Update, Save, fileVars, Durable, NotDurable,
        FileInv, RecordOK, ToRevoke
    <2>3. CASE DesktopExpires
      BY <2>3 DEF DesktopExpires, DeskGoto, DeskEnd, SavePending, DeskStep, Finished,
        Update, Save, fileVars, Durable, NotDurable, FileInv, RecordOK, ToRevoke
    <2>4. CASE DesktopExpiryRevokes
      BY <2>4 DEF DesktopExpiryRevokes, DeskGoto, DeskEnd, SavePending, DeskStep, Finished,
        Update, Save, fileVars, Durable, NotDurable, FileInv, RecordOK, ToRevoke
    <2>5. CASE DesktopRevoked
      BY <2>5 DEF DesktopRevoked, DeskGoto, DeskEnd, SavePending, DeskStep, Finished,
        Update, Save, fileVars, Durable, NotDurable, FileInv, RecordOK, ToRevoke
    <2>6. CASE DesktopRevokeFails
      BY <2>6 DEF DesktopRevokeFails, DeskGoto, DeskEnd, SavePending, DeskStep, Finished,
        Update, Save, fileVars, Durable, NotDurable, FileInv, RecordOK, ToRevoke
    <2>7. CASE DesktopStarts
      BY <2>7 DEF DesktopStarts, DeskGoto, DeskEnd, SavePending, DeskStep, Finished, Update,
        Save, fileVars, Durable, NotDurable, FileInv, RecordOK, ToRevoke
    <2> QED BY <1>8, <2>1, <2>2, <2>3, <2>4, <2>5, <2>6, <2>7 DEF DeskSteps
  <1>9. CASE Environment
    <2>1. CASE External
      BY <2>1 DEF External, Outside, ChildCreates, CreateSettles, MachineVanishes, ReleaseTakesEffect,
        BridgeStarts, BridgeStops, fileVars
    <2>2. CASE Tick
      <3>1. KeepsBridge(rec, rec')
        BY <2>2, OlderIs DEF Tick, KeepsBridge
      <3> QED BY <2>2, <3>1 DEF Tick
    <2>3. CASE Crash \/ PowerLoss \/ Restart
      BY <2>3 DEF Crash, PowerLoss, Dies, Restart
    <2> QED BY <1>9, <2>1, <2>2, <2>3 DEF Environment
  <1> QED BY <1>1, <1>2, <1>3, <1>4, <1>5, <1>6, <1>7, <1>8, <1>9, AllSteps

-------------------------------------------------------------------------------
(* The invariant holds.                                                    *)

\* Before the first request there is no record, no machine and no goroutine.
LEMMA ControllerStarts == ControllerInit => ControllerInv
  <1> SUFFICES ASSUME ControllerInit PROVE ControllerInv
    OBVIOUS
  <1>1. NoRecord \in Records
    BY Times DEF NoRecord, Records
  <1>2. /\ NoRecord.status = "none" /\ ~NoRecord.prepared /\ ~NoRecord.started /\ ~NoRecord.observed
    BY DEF NoRecord
  <1> USE DEF ControllerInit, FileInit, RunnerInit
  <1>3. ControllerTypeOK
    <2>1. saveFaults \in 0 .. MaxSaveFaults /\ lag \in 0 .. ProviderLag /\ errs \in 0 .. MaxErrors
      BY ControllerTimes, RunnerConstants
    <2>2. ttl \in 0 .. TTL /\ crashes \in 0 .. MaxCrashes
      BY TTLAssumption, ControllerConstants
    <2> QED BY <1>1, <2>1, <2>2 DEF ControllerTypeOK, Children
  <1>4. FileInv /\ PcInv
    BY <1>2, PcFree DEF FileInv, RecordOK, PcInv
  <1>5. SlotInv /\ ChildInv /\ AckInv /\ PreparedInv /\ BridgeInv
    BY DEF SlotInv, ChildInv, AckInv, PreparedInv, BridgeInv
  <1>6. WakeInv /\ CommandsAreCurrent /\ IdentityIsDurable /\ ReleaseIsRecorded
    BY <1>2 DEF WakeInv, NeedsReconcile, Active, CommandsAreCurrent, IdentityIsDurable, ReleaseIsRecorded
  <1> QED BY <1>3, <1>4, <1>5, <1>6 DEF ControllerInv

\* Every step keeps it.
LEMMA ControllerKept ==
    ASSUME ControllerInv, [ControllerNext]_controllerVars
    PROVE  ControllerInv'
  <1>1. CASE ControllerNext
    BY <1>1, TypeKept, FileKept, PcKept, SlotKept, ChildKept, AckKept, PreparedKept, BridgeKept,
       WakeKept, CommandsKept, ReleaseKept DEF ControllerInv
  <1>2. CASE UNCHANGED controllerVars
    <2> USE <1>2 DEF controllerVars, fileVars, runnerVars, schedVars, memoryVars, processVars,
        ControllerInv
    <2>1. ControllerTypeOK' /\ FileInv'
      BY DEF ControllerTypeOK, FileInv
    <2>2. PcInv' /\ SlotInv' /\ ChildInv' /\ AckInv'
      BY DEF PcInv, SlotInv, ChildInv, AckInv
    <2>3. PreparedInv' /\ BridgeInv' /\ WakeInv' /\ IdentityIsDurable' /\ ReleaseIsRecorded'
      BY DEF PreparedInv, BridgeInv, WakeInv, IdentityIsDurable, ReleaseIsRecorded
    <2>4. CommandsAreCurrent'
      BY DEF CommandsAreCurrent, BarrierEffects, TransitionEffects
    <2> QED BY <2>1, <2>2, <2>3, <2>4
  <1> QED BY <1>1, <1>2

\* The record, the file, the goroutine, the child, the bridge, the timer and
\* the commands agree in every reachable state of the adapter, whatever saves
\* and commands fail and whenever it is killed or loses power.
THEOREM ControllerAgrees == ControllerSpec => []ControllerInv
  <1>1. ControllerInv /\ [ControllerNext]_controllerVars => ControllerInv'
    BY ControllerKept
  <1> QED BY <1>1, ControllerStarts, PTL DEF ControllerSpec

\* A warmup child goes on only under an identity that survives a power loss
\* (persistAcquiredIdentity).
THEOREM IdentityStaysDurable == ControllerSpec => []IdentityIsDurable
  <1>1. ControllerInv => IdentityIsDurable
    BY DEF ControllerInv
  <1> QED BY <1>1, ControllerAgrees, PTL

\* A destructive release runs only while every record says it was asked for
\* (stopWorkspace).
THEOREM ReleaseStaysRecorded == ControllerSpec => []ReleaseIsRecorded
  <1>1. ControllerInv => ReleaseIsRecorded
    BY DEF ControllerInv
  <1> QED BY <1>1, ControllerAgrees, PTL

\* What clients were told survives a crash and a power loss (createWorkspace,
\* deleteWorkspace).
THEOREM AcknowledgedStays == ControllerSpec => []AcknowledgedIsDurable
  <1>1. ControllerInv => AcknowledgedIsDurable
    BY DEF ControllerInv, FileInv, AckInv, AcknowledgedIsDurable, OnRecord, Ended, NoRecord
  <1> QED BY <1>1, ControllerAgrees, PTL

\* A command that runs behind an outstanding flush or for a workspace that is
\* to stop has been cancelled (updateRecord, beginSideEffect).
THEOREM CommandsStayCurrent == ControllerSpec => []CommandsAreCurrent
  <1>1. ControllerInv => CommandsAreCurrent
    BY DEF ControllerInv
  <1> QED BY <1>1, ControllerAgrees, PTL

\* No WebVNC daemon outlives the record of its revocation or of the end of its
\* workspace (revokeDesktopBridge, stopWorkspace).
THEOREM BridgeStaysRevoked == ControllerSpec => []BridgeRevoked
  <1>1. ControllerInv => BridgeRevoked
    BY DEF ControllerInv, FileInv, BridgeInv, BridgeRevoked, OnRecord, Finished
  <1> QED BY <1>1, ControllerAgrees, PTL

\* An adapter that still has work for a workspace has a goroutine or a timer
\* for it (enqueue, scheduleReconcile).
THEOREM WakeupsStay == ControllerSpec => []NoLostWakeup
  <1>1. ControllerInv => NoLostWakeup
    BY DEF ControllerInv, WakeInv, NoLostWakeup
  <1> QED BY <1>1, ControllerAgrees, PTL

-------------------------------------------------------------------------------
(* The machine.                                                            *)

\* Nothing will look for a machine any more.
Over(r) == r.status \in {"none"} \cup Finished \/ r.providerStopped

\* Where the goroutine has no identity of the machine, and where it acts on an
\* inventory that did not list one.
Unseen   == {"prepare", "createBegin", "warmGated", "confirm", "confirmRun", "recover",
             "recoverGated"}
Absents  == {"absent", "absentAnew"}
Cleanups == {"cleanup", "cleanupRun"}

\* A machine whose identity is on record is listed as long as it exists, so an
\* answer without it is final however old it is; one that was never
\* acknowledged is given up only when its create timeout is over, since no
\* absence on record is older than the preparation of the create.
MachineInv ==
    /\ \A r \in stable : r.observed => res # "creating" /\ child # "running"
    /\ \A r \in stable : Over(r) => child # "running" /\ (r.observed => res = "none")
    /\ rc \in Unseen => ~rec.observed
    /\ rc \in Absents \cup Cleanups /\ rec.observed => res = "none"
    /\ \A r \in stable : r.prepared /\ r.absentAge # NoTime => r.absentAge <= r.preparedAge
    /\ \A r \in stable : r.prepared /\ ~r.observed /\ Over(r) => r.preparedAge = CreateTimeout
    /\ up /\ rc \in Cleanups /\ rec.prepared /\ ~rec.observed => rec.preparedAge = CreateTimeout

\* A change of the record that learns and ends nothing and makes no absence
\* older; a create that is prepared by it is a new one.
WorkMove(s, r) ==
    /\ r.observed = s.observed
    /\ r.absentAge \in {s.absentAge, NoTime} /\ (Over(r) => Over(s))
    /\ r.prepared => \/ s.prepared /\ r.preparedAge = s.preparedAge
                     \/ r.absentAge = NoTime /\ r.status = "provisioning" /\ ~r.providerStopped

\* The saves that make such a change.
LEMMA WorkUpdates ==
    ASSUME rec \in Records, RecordOK(rec)
    PROVE  /\ WorkMove(rec, rec)
           /\ \A f \in {"none"} \cup Finished : WorkMove(rec, ToStopping(rec, f))
           /\ WorkMove(rec, LocallyPending(rec, TRUE)) /\ WorkMove(rec, LocallyPending(rec, FALSE))
           /\ WorkMove(rec, LocallyStopped(rec)) /\ WorkMove(rec, StillListed(rec))
           /\ rec.status = "provisioning" /\ ~rec.observed => WorkMove(rec, CreatePrepared(rec))
           /\ rec.providerStopped => WorkMove(rec, Stopped(rec))
           /\ WorkMove(rec, [rec EXCEPT !.status = IF @ = "stopping" THEN @ ELSE "ready"])
           /\ WorkMove(rec, [rec EXCEPT !.started = TRUE])
           /\ WorkMove(rec, [rec EXCEPT !.releaseRequested = TRUE])
           /\ WorkMove(rec, [rec EXCEPT !.absentAge = NoTime])
           /\ rec = NoRecord => WorkMove(rec, [NoRecord EXCEPT !.status = "provisioning"])
  <1> USE DEF WorkMove, Over, SameWork, Finished
  <1>1. \A f \in {"none"} \cup Finished : WorkMove(rec, ToStopping(rec, f))
    BY ToStoppingIs
  <1>2. /\ WorkMove(rec, LocallyPending(rec, TRUE)) /\ WorkMove(rec, LocallyPending(rec, FALSE))
        /\ WorkMove(rec, LocallyStopped(rec))
    BY LocalUpdates
  <1>3. WorkMove(rec, StillListed(rec))
    BY AbsenceUpdates
  <1>4. rec.providerStopped => WorkMove(rec, Stopped(rec))
    BY StoppedIs
  <1>5. /\ WorkMove(rec, [rec EXCEPT !.status = IF @ = "stopping" THEN @ ELSE "ready"])
        /\ WorkMove(rec, [rec EXCEPT !.started = TRUE])
    BY DEF Records
  <1>6. /\ WorkMove(rec, [rec EXCEPT !.releaseRequested = TRUE])
        /\ WorkMove(rec, [rec EXCEPT !.absentAge = NoTime])
    BY DEF Records
  <1>7. rec = NoRecord => WorkMove(rec, [NoRecord EXCEPT !.status = "provisioning"])
    BY DEF NoRecord
  <1>8. WorkMove(rec, rec)
    OBVIOUS
  <1>9. ASSUME rec.status = "provisioning", ~rec.observed PROVE WorkMove(rec, CreatePrepared(rec))
    <2>1. rec.absentAge = NoTime /\ ~rec.providerStopped
      BY <1>9 DEF RecordOK
    <2>2. rec.observed = FALSE /\ CreatePrepared(rec).observed = FALSE
      BY <1>9, CreatePreparedIs DEF Records
    <2> QED BY <1>9, <2>1, <2>2, CreatePreparedIs
  <1> HIDE DEF WorkMove, Finished
  <1> QED BY <1>1, <1>2, <1>3, <1>4, <1>5, <1>6, <1>7, <1>8, <1>9

\* A step that begins none of what the invariant is about.
Quiet ==
    /\ WorkMove(rec, rec') /\ UNCHANGED res
    /\ child' = "running" => child = "running"
    /\ rc' \in Unseen => rc \in Unseen \/ ~rec'.observed
    /\ rc' \in Absents \cup Cleanups => rc \in Absents \cup Cleanups
    /\ rc' \in Cleanups => rc \in Cleanups
    /\ UNCHANGED up

\* Such a step keeps what is known of the machine.
LEMMA QuietKeeps ==
    ASSUME ControllerInv, MachineInv, FileMove, Quiet, PcInv'
    PROVE  MachineInv'
  <1>0. rec \in stable
    BY DEF ControllerInv, FileInv
  <1>1. stable' \subseteq stable \cup {rec'}
    BY DEF FileMove
  <1>2. /\ \A r \in stable' : r.observed => res' # "creating" /\ child' # "running"
        /\ \A r \in stable' : Over(r) => child' # "running" /\ (r.observed => res' = "none")
    BY <1>0, <1>1 DEF Quiet, WorkMove, MachineInv
  <1>3. /\ rc' \in Unseen => ~rec'.observed
        /\ rc' \in Absents \cup Cleanups /\ rec'.observed => res' = "none"
    BY DEF Quiet, WorkMove, MachineInv
  <1>4. /\ \A r \in stable' : r.prepared /\ r.absentAge # NoTime => r.absentAge <= r.preparedAge
        /\ \A r \in stable' : r.prepared /\ ~r.observed /\ Over(r) => r.preparedAge = CreateTimeout
    <2>1. rec'.prepared /\ rec'.absentAge # NoTime =>
             rec.prepared /\ rec.absentAge = rec'.absentAge /\ rec.preparedAge = rec'.preparedAge
      BY DEF Quiet, WorkMove
    <2>2. rec'.prepared /\ ~rec'.observed /\ Over(rec') =>
             rec.prepared /\ ~rec.observed /\ Over(rec) /\ rec.preparedAge = rec'.preparedAge
      BY DEF Quiet, WorkMove, Over, Finished
    <2> QED BY <1>0, <1>1, <2>1, <2>2 DEF MachineInv
  <1>5. up' /\ rc' \in Cleanups /\ rec'.prepared /\ ~rec'.observed => rec'.preparedAge = CreateTimeout
    <2> SUFFICES ASSUME up', rc' \in Cleanups, rec'.prepared, ~rec'.observed
                 PROVE  rec'.preparedAge = CreateTimeout
      OBVIOUS
    <2>1. rec'.status = "stopping"
      BY DEF PcInv, PcOK, StopPcs, Cleanups
    <2>2. up /\ rc \in Cleanups /\ rec.prepared /\ ~rec.observed /\ rec'.preparedAge = rec.preparedAge
      BY <2>1 DEF Quiet, WorkMove
    <2> QED BY <2>2 DEF MachineInv
  <1> QED BY <1>2, <1>3, <1>4, <1>5 DEF MachineInv

\* Scheduling begins none of it.
LEMMA ScheduleQuiet ==
    ASSUME ControllerInv, Scheduling
    PROVE  Quiet
  <1>0. /\ rec \in Records /\ goal \in {"none"} \cup Finished /\ RecordOK(rec)
        /\ up /\ rc = "prepare" => ~rec.observed
    BY DEF ControllerInv, ControllerTypeOK, FileInv, PcInv, PcOK
  <1> USE <1>0, WorkUpdates DEF Quiet, Unseen, Absents, Cleanups, Step, Goto, End, Idle,
      runnerVars, processVars
  <1>1. CASE TakeSlot \/ DispatchFinished \/ DispatchStopping
    BY <1>1 DEF TakeSlot, DispatchFinished, DispatchStopping, Update, Save, fileVars,
      Durable, NotDurable
  <1>2. CASE DispatchReady
    BY <1>2 DEF DispatchReady, Update, Save, fileVars, Durable, NotDurable
  <1>3. CASE DispatchProvisioning \/ Finish
    BY <1>3 DEF DispatchProvisioning, Finish, Update, Save, fileVars, Durable, NotDurable
  <1> QED BY <1>1, <1>2, <1>3 DEF Scheduling

\* Neither does provisioning.
LEMMA ProvisionQuiet ==
    ASSUME ControllerInv, ProvisionSteps
    PROVE  Quiet
  <1>0. /\ rec \in Records /\ goal \in {"none"} \cup Finished /\ RecordOK(rec)
        /\ up /\ rc = "prepare" => ~rec.observed
    BY DEF ControllerInv, ControllerTypeOK, FileInv, PcInv, PcOK
  <1> USE <1>0, WorkUpdates DEF Quiet, Unseen, Absents, Cleanups, Step, Goto, End, Idle,
      runnerVars, processVars
  <1>1. CASE Provisioning \/ ProvisioningWaits
    BY <1>1 DEF Provisioning, ProvisioningWaits, Begin, Obsolete, Touch, Update, Save,
      fileVars, Durable, NotDurable, Finished, ProvisioningBranch
  <1>2. CASE (\E a \in Answers : InspectProvisioning(a))
    BY <1>2 DEF InspectProvisioning, Begin, Obsolete, Touch, Update, Save, fileVars,
      Durable, NotDurable, Finished, ProvisioningBranch
  <1>3. CASE BeginProvisioningInspection \/ BeginCreate
    BY <1>3 DEF BeginProvisioningInspection, BeginCreate, Begin, Obsolete, Touch, Update,
      Save, fileVars, Durable, NotDurable, Finished, ProvisioningBranch
  <1>4. CASE MarkReady
    BY <1>4 DEF MarkReady, Begin, Obsolete, Touch, Update, Save, fileVars, Durable,
      NotDurable, Finished, ProvisioningBranch
  <1>5. CASE LeaveProvisioning \/ FailProvisioning
    BY <1>5 DEF LeaveProvisioning, FailProvisioning, Begin, Obsolete, Touch, Update, Save,
      fileVars, Durable, NotDurable, Finished, ProvisioningBranch
  <1>6. CASE Prepare
    BY <1>6 DEF Prepare, Begin, Obsolete, Touch, Update, Save, fileVars, Durable,
      NotDurable, Finished, ProvisioningBranch
  <1> QED BY <1>1, <1>2, <1>3, <1>4, <1>5, <1>6 DEF ProvisionSteps

\* Nor the watch over a ready workspace.
LEMMA ReadyQuiet ==
    ASSUME ControllerInv, ReadySteps
    PROVE  Quiet
  <1>0. /\ rec \in Records /\ goal \in {"none"} \cup Finished /\ RecordOK(rec)
        /\ up /\ rc = "prepare" => ~rec.observed
    BY DEF ControllerInv, ControllerTypeOK, FileInv, PcInv, PcOK
  <1> USE <1>0, WorkUpdates DEF Quiet, Unseen, Absents, Cleanups, Step, Goto, End, Idle,
      runnerVars, processVars
  <1>1. CASE BeginReadyInspection \/ BeginReadyLocal \/ BeginReadyRevoke
    BY <1>1 DEF BeginReadyInspection, BeginReadyLocal, BeginReadyRevoke, Begin, Obsolete,
      Touch, SavePending, Update, Save, fileVars, Durable, NotDurable
  <1>2. CASE (\E a \in Answers : InspectReady(a)) \/ InspectionFailed
    BY <1>2 DEF InspectReady, InspectionFailed, Begin, Obsolete, Touch, SavePending,
      Update, Save, fileVars, Durable, NotDurable
  <1>3. CASE LeaveReady
    BY <1>3 DEF LeaveReady, Begin, Obsolete, Touch, SavePending, Update, Save, fileVars,
      Durable, NotDurable
  <1>4. CASE ReadyLocalStopped
    BY <1>4 DEF ReadyLocalStopped, Begin, Obsolete, Touch, SavePending, Update, Save,
      fileVars, Durable, NotDurable
  <1>5. CASE ReadyLocalFailed
    BY <1>5 DEF ReadyLocalFailed, Begin, Obsolete, Touch, SavePending, Update, Save,
      fileVars, Durable, NotDurable
  <1>6. CASE ReadyRevokeReturns
    BY <1>6 DEF ReadyRevokeReturns, Begin, Obsolete, Touch, SavePending, Update, Save,
      fileVars, Durable, NotDurable
  <1> QED BY <1>1, <1>2, <1>3, <1>4, <1>5, <1>6 DEF ReadySteps

\* Nor warmup, but for the launch and the identity.
LEMMA WarmupQuiet ==
    ASSUME ControllerInv, WarmupSteps, ~LaunchCreate, ~PersistAcquiredIdentity
    PROVE  Quiet
  <1>0. /\ rec \in Records /\ goal \in {"none"} \cup Finished /\ RecordOK(rec)
        /\ up /\ rc = "prepare" => ~rec.observed
    BY DEF ControllerInv, ControllerTypeOK, FileInv, PcInv, PcOK
  <1> USE <1>0, WorkUpdates DEF Quiet, Unseen, Absents, Cleanups, Step, Goto, End, Idle,
      runnerVars, processVars
  <1>1. CASE AcknowledgeIdentity
    BY <1>1 DEF AcknowledgeIdentity, Launch, Touch, Update, Save, fileVars, Durable,
      NotDurable, schedVars
  <1>2. CASE WarmupReturns \/ WarmupFails \/ CreateFailed
    BY <1>2 DEF WarmupReturns, WarmupFails, CreateFailed, Launch, Touch, Update, Save,
      fileVars, Durable, NotDurable, schedVars
  <1> QED BY <1>1, <1>2 DEF WarmupSteps

\* Nor the stop, but for an answer of the inventory and a launch.
LEMMA StopQuiet ==
    ASSUME ControllerInv, StopSteps, ~Confirms, ~LaunchRecover
    PROVE  Quiet
  <1>0. /\ rec \in Records /\ goal \in {"none"} \cup Finished /\ RecordOK(rec)
        /\ up /\ rc = "prepare" => ~rec.observed
    BY DEF ControllerInv, ControllerTypeOK, FileInv, PcInv, PcOK
  <1> USE <1>0, WorkUpdates DEF Quiet, Unseen, Absents, Cleanups, Step, Goto, End, Idle,
      runnerVars, processVars
  <1>1. CASE StopWorkspace \/ LocalStopReturns \/ StopProvider
    BY <1>1 DEF StopWorkspace, LocalStopReturns, StopProvider, BeginConfirm, Confirm,
      Begin, Launch, Update, Save, fileVars, Durable, NotDurable, StopBranch
  <1>2. CASE BeginConfirms
    BY <1>2 DEF BeginConfirms, BeginConfirm, Confirm, Begin, Launch, Update, Save,
      fileVars, Durable, NotDurable, StopBranch
  <1>3. CASE RecordRelease \/ BeginRelease \/ ReleaseReturns
    BY <1>3 DEF RecordRelease, BeginRelease, ReleaseReturns, BeginConfirm, Confirm, Begin,
      Launch, Update, Save, fileVars, Durable, NotDurable, StopBranch
  <1>4. CASE BeginRecover \/ RecoverReturns
    BY <1>4 DEF BeginRecover, RecoverReturns, BeginConfirm, Confirm, Begin, Launch,
      Update, Save, fileVars, Durable, NotDurable, StopBranch
  <1> QED BY <1>1, <1>2, <1>3, <1>4 DEF StopSteps

\* Nor what is made of the answer, but for its own verdicts.
LEMMA AbsenceQuiet ==
    ASSUME ControllerInv, AbsenceSteps, ~Absent, ~CleanupReturns, ~MarkStopped
    PROVE  Quiet
  <1>0. /\ rec \in Records /\ goal \in {"none"} \cup Finished /\ RecordOK(rec)
        /\ up /\ rc = "prepare" => ~rec.observed
    BY DEF ControllerInv, ControllerTypeOK, FileInv, PcInv, PcOK
  <1> USE <1>0, WorkUpdates DEF Quiet, Unseen, Absents, Cleanups, Step, Goto, End, Idle,
      runnerVars, processVars
  <1>1. CASE AbsenceUnknown \/ StillPresent
    BY <1>1 DEF AbsenceUnknown, StillPresent, Begin, Update, Save, fileVars, Durable,
      NotDurable
  <1>2. CASE BeginCleanup \/ NeverStarted
    BY <1>2 DEF BeginCleanup, NeverStarted, Begin, Update, Save, fileVars, Durable,
      NotDurable
  <1>3. CASE StopFinish
    BY <1>3 DEF StopFinish, Begin, Update, Save, fileVars, Durable, NotDurable
  <1> QED BY <1>1, <1>2, <1>3 DEF AbsenceSteps

\* Nor a request.
LEMMA HandlersQuiet ==
    ASSUME ControllerInv, Handlers
    PROVE  Quiet
  <1>0. /\ rec \in Records /\ goal \in {"none"} \cup Finished /\ RecordOK(rec)
        /\ up /\ rc = "prepare" => ~rec.observed
    BY DEF ControllerInv, ControllerTypeOK, FileInv, PcInv, PcOK
  <1> USE <1>0, WorkUpdates DEF Quiet, Unseen, Absents, Cleanups, Step, Goto, End, Idle,
      runnerVars, processVars
  <1>1. CASE CreateWorkspace
    BY <1>1 DEF CreateWorkspace, Enqueue, Update, Save, fileVars, Durable, NotDurable,
      Handler
  <1>2. CASE RepeatCreate \/ GetWorkspace
    BY <1>2 DEF RepeatCreate, GetWorkspace, Enqueue, Update, Save, fileVars, Durable,
      NotDurable, Handler
  <1>3. CASE DeleteWorkspace \/ RepeatDelete \/ DeleteStopped
    BY <1>3 DEF DeleteWorkspace, RepeatDelete, DeleteStopped, Enqueue, Update, Save,
      fileVars, Durable, NotDurable, Handler
  <1>4. CASE OtherSave \/ TimerFires
    BY <1>4 DEF OtherSave, TimerFires, Enqueue, Update, Save, fileVars, Durable,
      NotDurable, Handler
  <1> QED BY <1>1, <1>2, <1>3, <1>4 DEF Handlers

\* Nor a desktop connection.
LEMMA DeskQuiet ==
    ASSUME ControllerInv, DeskSteps
    PROVE  Quiet
  <1>0. /\ rec \in Records /\ goal \in {"none"} \cup Finished /\ RecordOK(rec)
        /\ up /\ rc = "prepare" => ~rec.observed
    BY DEF ControllerInv, ControllerTypeOK, FileInv, PcInv, PcOK
  <1> USE <1>0, WorkUpdates DEF Quiet, Unseen, Absents, Cleanups, Step, Goto, End, Idle,
      runnerVars, processVars
  <1>1. CASE DesktopArrives
    BY <1>1 DEF DesktopArrives, Enqueue, DeskGoto, DeskEnd, SavePending, Update, Save,
      fileVars, Durable, NotDurable, DeskStep, Finished
  <1>2. CASE DesktopStarts
    BY <1>2 DEF DesktopStarts, Enqueue, DeskGoto, DeskEnd, SavePending, Update, Save,
      fileVars, Durable, NotDurable, DeskStep, Finished
  <1>3. CASE DesktopGivesUp \/ DesktopReturns \/ DesktopHandsOff
    BY <1>3 DEF DesktopGivesUp, DesktopReturns, DesktopHandsOff, Enqueue, DeskGoto,
      DeskEnd, SavePending, Update, Save, fileVars, Durable, NotDurable, DeskStep,
      Finished
  <1>4. CASE DesktopExpires
    BY <1>4 DEF DesktopExpires, Enqueue, DeskGoto, DeskEnd, SavePending, Update, Save,
      fileVars, Durable, NotDurable, DeskStep, Finished
  <1>5. CASE DesktopExpiryRevokes
    BY <1>5 DEF DesktopExpiryRevokes, Enqueue, DeskGoto, DeskEnd, SavePending, Update,
      Save, fileVars, Durable, NotDurable, DeskStep, Finished
  <1>6. CASE DesktopRevoked \/ DesktopRevokeFails
    BY <1>6 DEF DesktopRevoked, DesktopRevokeFails, Enqueue, DeskGoto, DeskEnd,
      SavePending, Update, Save, fileVars, Durable, NotDurable, DeskStep, Finished
  <1> QED BY <1>1, <1>2, <1>3, <1>4, <1>5, <1>6 DEF DeskSteps


\* A launch finds a workspace that is not over and whose machine nobody knows.
LEMMA LaunchKeeps ==
    ASSUME ControllerInv, MachineInv, ControllerNext, LaunchCreate \/ LaunchRecover
    PROVE  MachineInv'
  <1>0. /\ rec \in Records /\ rec \in stable /\ RecordOK(rec) /\ PcOK(rc, rec) /\ up
        /\ rc \in {"warmGated", "recoverGated"}
    BY DEF ControllerInv, ControllerTypeOK, FileInv, PcInv, LaunchCreate, LaunchRecover, Step
  <1>1. FileMove
    BY FileMoves DEF LaunchCreate, LaunchRecover, Tick, PowerLoss, Dies, Step, processVars, Launch, Goto
  <1>2. UNCHANGED <<res, up>> /\ rc' \notin Absents \cup Cleanups \cup Unseen /\ ~rec.observed
    BY <1>0 DEF LaunchCreate, LaunchRecover, Launch, Goto, Step, processVars, Unseen, Absents,
                Cleanups, MachineInv
  <1>3. CASE child' # "running"
    <2>1. WorkMove(rec, rec')
      BY <1>0, WorkUpdates DEF LaunchCreate, LaunchRecover, Launch, Update, Save, fileVars
    <2>2. Quiet /\ PcInv'
      BY <1>2, <1>3, <2>1, PcKept DEF Quiet
    <2> QED BY <1>1, <2>2, QuietKeeps
  <1>4. CASE child' = "running"
    <2>1. /\ stable' = {rec'} /\ rec' = [rec EXCEPT !.started = TRUE]
          /\ (rc = "warmGated" /\ rec.status = "provisioning") \/ (rc = "recoverGated" /\ rec.status = "stopping")
      BY <1>4 DEF LaunchCreate, LaunchRecover, Launch, Update, Save, Step
    <2>2. /\ rec'.status = rec.status /\ rec'.providerStopped = rec.providerStopped
          /\ rec'.absentAge = rec.absentAge /\ rec'.preparedAge = rec.preparedAge
          /\ rec'.prepared = rec.prepared /\ ~rec'.observed
      BY <1>0, <1>2, <2>1 DEF Records
    <2>3. ~Over(rec')
      BY <1>0, <2>1, <2>2 DEF Over, Finished, RecordOK, PcOK, RecoverPcs
    <2>4. rec'.prepared /\ rec'.absentAge # NoTime => rec'.absentAge <= rec'.preparedAge
      BY <1>0, <2>2 DEF MachineInv
    <2> QED BY <1>2, <2>1, <2>2, <2>3, <2>4 DEF MachineInv
  <1> QED BY <1>3, <1>4

\* An identity is recorded of a machine that is listed, for a workspace that is
\* not over.
LEMMA IdentityKeeps ==
    ASSUME ControllerInv, MachineInv, ControllerNext, PersistAcquiredIdentity
    PROVE  MachineInv'
  <1>0. rec \in Records /\ rec \in stable /\ child = "running" /\ res = "present" /\ up
    BY DEF ControllerInv, ControllerTypeOK, FileInv, PersistAcquiredIdentity
  <1>1. FileMove
    BY FileMoves DEF PersistAcquiredIdentity, Tick, PowerLoss, Dies, processVars
  <1>2. /\ UNCHANGED <<rc, res, up>> /\ child' # "running"
        /\ rec' \in {rec, [rec EXCEPT !.observed = TRUE]}
    BY DEF PersistAcquiredIdentity, schedVars, processVars, fileVars, Update, Save
  <1>3. rc \in {"warmRun", "recoverRun"}
    BY <1>0 DEF ControllerInv, ChildInv
  <1>4. /\ rec'.status = rec.status /\ rec'.providerStopped = rec.providerStopped
        /\ rec'.absentAge = rec.absentAge /\ rec'.preparedAge = rec.preparedAge
        /\ rec'.prepared = rec.prepared
    BY <1>0, <1>2 DEF Records
  <1>5. \A r \in stable \cup {rec'} : ~Over(r)
    BY <1>0, <1>4 DEF MachineInv, Over
  <1>6. stable' \subseteq stable \cup {rec'}
    BY <1>1 DEF FileMove
  <1>7. \A r \in stable' : r.prepared /\ r.absentAge # NoTime => r.absentAge <= r.preparedAge
    BY <1>0, <1>4, <1>6 DEF MachineInv
  <1> QED BY <1>0, <1>2, <1>3, <1>5, <1>6, <1>7 DEF MachineInv, Unseen, Absents, Cleanups

\* The inventory's answer: a machine whose identity is on record and that is
\* not listed does not exist.
LEMMA ConfirmsKeep ==
    ASSUME ControllerInv, MachineInv, ControllerNext, Confirms
    PROVE  MachineInv'
  <1>0. rec \in stable /\ res \in {"none", "creating", "present"}
    BY DEF ControllerInv, ControllerTypeOK, FileInv
  <1>1. /\ UNCHANGED <<rec, stable, res, child, up>>
        /\ rc' \in Unseen => rc \in Unseen
        /\ rc' \in Absents => res # "present"
        /\ rc' \notin Cleanups
    BY DEF Confirms, Confirm, Step, Goto, fileVars, processVars, Unseen, Absents, Cleanups
  <1>2. rc' \in Absents \cup Cleanups /\ rec.observed => res = "none"
    BY <1>0, <1>1 DEF MachineInv
  <1> QED BY <1>1, <1>2 DEF MachineInv

\* An absence of a create nobody acknowledged is believed only when the create
\* timeout since its preparation is over.
LEMMA AbsentKeeps ==
    ASSUME ControllerInv, MachineInv, ControllerNext, Absent
    PROVE  MachineInv'
  <1>0. /\ rec \in Records /\ rec \in stable /\ ChildInv /\ rc \in Absents /\ up /\ UNCHANGED up
    BY DEF ControllerInv, ControllerTypeOK, FileInv, Absent, Step, Absents, processVars
  <1>1. FileMove
    <2>1. rc' # rc
      BY DEF Absent, Step, Goto
    <2> QED BY <1>0, <2>1, FileMoves DEF Tick, PowerLoss, Dies, schedVars
  <1> DEFINE age == IF rc = "absentAnew" \/ rec.absentAge = NoTime THEN 0 ELSE rec.absentAge
             r == [rec EXCEPT !.absentAge = age]
  <1>2. PICK o \in Saves : /\ Update(r, o)
                           /\ Goto(IF o # "failed" /\ StableAbsent(r) THEN "cleanup" ELSE "stopFinish")
    BY DEF Absent
  <1>3. UNCHANGED <<res, child>> /\ child # "running"
    BY <1>0 DEF Absent, Idle, runnerVars, ChildInv, Absents
  <1>4. /\ r.absentAge = age /\ r.status = rec.status /\ r.providerStopped = rec.providerStopped
        /\ r.prepared = rec.prepared /\ r.observed = rec.observed /\ r.preparedAge = rec.preparedAge
    BY <1>0 DEF Records
  <1>5. rec.absentAge \in Nat /\ rec.preparedAge \in 0 .. CreateTimeout
    BY <1>0, ControllerTimes DEF Records, NoTime
  <1>6. rec.prepared => age <= rec.preparedAge
    BY <1>0, <1>5, ControllerTimes DEF MachineInv
  <1>7. StableAbsent(r) /\ rec.prepared /\ ~rec.observed => rec.preparedAge = CreateTimeout
    <2>1. StableAbsent(r) /\ rec.prepared /\ ~rec.observed =>
             rec.preparedAge = CreateTimeout \/ age = CreateTimeout
      BY <1>4 DEF StableAbsent
    <2> HIDE DEF age, r
    <2> QED BY <1>5, <1>6, <2>1, ControllerTimes
  <1>8. Over(r) <=> Over(rec)
    BY <1>4 DEF Over
  <1> HIDE DEF age, r
  <1>9. /\ rec' \in {rec, r} /\ stable' \subseteq stable \cup {rec'}
        /\ rc' \in {"cleanup", "stopFinish"} /\ (rc' = "cleanup" => rec' = r /\ StableAbsent(r))
    BY <1>1, <1>2 DEF FileMove, Update, Save, Goto, Saves
  <1>10. \A q \in stable' : q \in stable \/ q = r
    BY <1>0, <1>9
  <1>11. /\ \A q \in stable' : q.observed => res' # "creating" /\ child' # "running"
         /\ \A q \in stable' : Over(q) => child' # "running" /\ (q.observed => res' = "none")
    BY <1>0, <1>3, <1>4, <1>8, <1>10 DEF MachineInv
  <1>12. /\ \A q \in stable' : q.prepared /\ q.absentAge # NoTime => q.absentAge <= q.preparedAge
         /\ \A q \in stable' : q.prepared /\ ~q.observed /\ Over(q) => q.preparedAge = CreateTimeout
    BY <1>0, <1>4, <1>6, <1>8, <1>10 DEF MachineInv
  <1>13. /\ rc' \notin Unseen
         /\ rc' \in Absents \cup Cleanups /\ rec'.observed => res' = "none"
         /\ rc' \in Cleanups /\ rec'.prepared /\ ~rec'.observed => rec'.preparedAge = CreateTimeout
    BY <1>0, <1>3, <1>4, <1>7, <1>9 DEF MachineInv, Unseen, Absents, Cleanups
  <1> QED BY <1>11, <1>12, <1>13 DEF MachineInv

\* The absence is recorded as final, or a workspace that never began is
\* finished.
LEMMA EndsKeep ==
    ASSUME ControllerInv, MachineInv, ControllerNext, CleanupReturns \/ MarkStopped
    PROVE  MachineInv'
  <1>0. /\ rec \in Records /\ rec \in stable /\ PcOK(rc, rec) /\ PreparedInv /\ ChildInv /\ up
        /\ RecordOK(rec) /\ UNCHANGED <<res, child>>
    BY DEF ControllerInv, ControllerTypeOK, FileInv, PcInv, CleanupReturns, MarkStopped, Step,
           Idle, runnerVars
  <1>1. FileMove /\ rc' \in {"stopFinish", "done"}
    <2>1. rc' \in {"stopFinish", "done"} /\ rc \in {"cleanupRun", "markStopped"} /\ UNCHANGED up
      BY DEF CleanupReturns, MarkStopped, Goto, End, Step, processVars
    <2> QED BY <1>0, <2>1, FileMoves DEF Tick, PowerLoss, Dies, schedVars
  <1>2. child # "running"
    <2>1. CASE CleanupReturns
      BY <1>0, <2>1 DEF CleanupReturns, Step, ChildInv
    <2>2. CASE MarkStopped
      BY <1>0, <2>2 DEF MarkStopped, Step, ChildInv
    <2> QED BY <2>1, <2>2
  <1>3. /\ rec'.observed => res = "none"
        /\ rec'.prepared /\ ~rec'.observed => rec'.preparedAge = CreateTimeout
        /\ rec'.prepared => rec'.absentAge = NoTime \/ rec' = rec
    <2>1. CASE CleanupReturns
      <3>1. rec' \in {rec, ProviderGone(rec)} /\ rc = "cleanupRun"
        BY <2>1 DEF CleanupReturns, Step, Update, Save, fileVars
      <3>2. /\ ProviderGone(rec).observed = rec.observed /\ ProviderGone(rec).prepared = rec.prepared
            /\ ProviderGone(rec).preparedAge = rec.preparedAge /\ ProviderGone(rec).absentAge = NoTime
        BY <1>0, AbsenceUpdates
      <3> QED BY <1>0, <3>1, <3>2 DEF MachineInv, Cleanups
    <2>2. CASE MarkStopped
      <3>1. rec' \in {rec, Stopped(rec)} /\ ~rec.prepared
        BY <1>0, <2>2 DEF MarkStopped, Step, Update, Save, PcOK, NeverPcs
      <3>2. ~rec.observed /\ Stopped(rec).observed = rec.observed /\ Stopped(rec).prepared = rec.prepared
        BY <1>0, <3>1, StoppedIs DEF RecordOK, SameWork
      <3> QED BY <3>1, <3>2
    <2> QED BY <2>1, <2>2
  <1>4. stable' \subseteq stable \cup {rec'}
    BY <1>1 DEF FileMove
  <1>5. /\ \A r \in stable' : r.observed => res' # "creating" /\ child' # "running"
        /\ \A r \in stable' : Over(r) => child' # "running" /\ (r.observed => res' = "none")
    BY <1>0, <1>2, <1>3, <1>4 DEF MachineInv
  <1>6. /\ \A r \in stable' : r.prepared /\ r.absentAge # NoTime => r.absentAge <= r.preparedAge
        /\ \A r \in stable' : r.prepared /\ ~r.observed /\ Over(r) => r.preparedAge = CreateTimeout
    BY <1>0, <1>3, <1>4 DEF MachineInv
  <1> QED BY <1>1, <1>5, <1>6 DEF MachineInv, Unseen, Absents, Cleanups

\* What the provider does: a machine whose identity is on record may go, but
\* none is created for it.
LEMMA ProviderMoves ==
    ASSUME ControllerInv, MachineInv, External
    PROVE  MachineInv'
  <1>0. /\ ChildInv /\ rec \in stable /\ UNCHANGED <<rec, stable, rc, up>>
    BY DEF ControllerInv, FileInv, External, fileVars, schedVars, processVars
  <1> USE <1>0 DEF MachineInv, Absents, Cleanups
  <1>1. CASE ChildCreates
    BY <1>1 DEF ChildCreates, ChildInv
  <1>2. CASE CreateSettles
    BY <1>2 DEF CreateSettles
  <1>3. CASE ReleaseTakesEffect
    BY <1>3 DEF ReleaseTakesEffect
  <1>4. CASE BridgeStarts \/ BridgeStops
    BY <1>4 DEF BridgeStarts, BridgeStops
  <1>5. CASE MachineVanishes
    BY <1>5 DEF MachineVanishes
  <1> QED BY <1>1, <1>2, <1>3, <1>4, <1>5 DEF External, Outside

\* A create and an absence of it age together, up to the create timeout.
LEMMA AgesTogether ==
    ASSUME NEW r \in Records, r.prepared
    PROVE  /\ r.absentAge # NoTime /\ r.absentAge <= r.preparedAge => Older(r).absentAge <= Older(r).preparedAge
           /\ r.preparedAge = CreateTimeout => Older(r).preparedAge = CreateTimeout
  <1>1. r.absentAge \in 0 .. NoTime /\ r.preparedAge \in 0 .. CreateTimeout
    BY DEF Records
  <1>2. /\ Older(r).preparedAge = UpTo(r.preparedAge, CreateTimeout)
        /\ r.absentAge # NoTime => Older(r).absentAge = UpTo(r.absentAge, CreateTimeout)
    BY DEF Older, Records
  <1> QED BY <1>1, <1>2, ControllerTimes DEF UpTo, NoTime

\* Time ages creates and absences alike; what a crash leaves is a part of what
\* was there.
LEMMA OthersKeep ==
    ASSUME ControllerInv, MachineInv, Tick \/ Crash \/ PowerLoss \/ Restart
    PROVE  MachineInv'
  <1>0. rec \in stable /\ stable \subseteq Records
    BY DEF ControllerInv, ControllerTypeOK, FileInv
  <1>1. CASE Tick
    <2>1. /\ rec' = Older(rec) /\ stable' = {Older(r) : r \in stable}
          /\ UNCHANGED <<res, child, rc, up>>
      BY <1>1 DEF Tick, schedVars
    <2>2. ASSUME NEW r \in stable
          PROVE  /\ (Over(Older(r)) <=> Over(r)) /\ Older(r).observed = r.observed
                 /\ Older(r).prepared = r.prepared
                 /\ r.absentAge = NoTime => Older(r).absentAge = NoTime
      BY <1>0, OlderIs DEF Over
    <2>3. ASSUME NEW r \in stable, r.prepared
          PROVE  /\ Older(r).absentAge # NoTime => Older(r).absentAge <= Older(r).preparedAge
                 /\ r.preparedAge = CreateTimeout => Older(r).preparedAge = CreateTimeout
      BY <1>0, <2>2, <2>3, AgesTogether DEF MachineInv
    <2>4. /\ rc' \in Unseen => ~rec'.observed
          /\ rc' \in Absents \cup Cleanups /\ rec'.observed => res' = "none"
          /\ up' /\ rc' \in Cleanups /\ rec'.prepared /\ ~rec'.observed => rec'.preparedAge = CreateTimeout
      BY <1>0, <2>1, <2>2, <2>3 DEF MachineInv
    <2>5. /\ \A q \in stable' : q.observed => res' # "creating" /\ child' # "running"
          /\ \A q \in stable' : Over(q) => child' # "running" /\ (q.observed => res' = "none")
      BY <2>1, <2>2 DEF MachineInv
    <2>6. /\ \A q \in stable' : q.prepared /\ q.absentAge # NoTime => q.absentAge <= q.preparedAge
          /\ \A q \in stable' : q.prepared /\ ~q.observed /\ Over(q) => q.preparedAge = CreateTimeout
      BY <2>1, <2>2, <2>3 DEF MachineInv
    <2> QED BY <2>4, <2>5, <2>6 DEF MachineInv
  <1>2. CASE PowerLoss
    BY <1>2 DEF PowerLoss, Dies, MachineInv, Unseen, Absents, Cleanups
  <1>3. CASE Crash
    BY <1>3 DEF Crash, Dies, MachineInv, Unseen, Absents, Cleanups
  <1>4. CASE Restart
    BY <1>0, <1>4 DEF Restart, MachineInv, Unseen, Absents, Cleanups
  <1> QED BY <1>1, <1>2, <1>3, <1>4

\* Every step keeps what is known of the machine.
LEMMA MachineKept ==
    ASSUME ControllerInv, MachineInv, [ControllerNext]_controllerVars
    PROVE  MachineInv'
  <1>1. CASE UNCHANGED controllerVars
    BY <1>1 DEF controllerVars, fileVars, runnerVars, schedVars, processVars, MachineInv
  <1>2. CASE ControllerNext
    <2>1. CASE \/ LaunchCreate \/ LaunchRecover \/ PersistAcquiredIdentity \/ Confirms \/ Absent
               \/ CleanupReturns \/ MarkStopped
      BY <1>2, <2>1, LaunchKeeps, IdentityKeeps, ConfirmsKeep, AbsentKeeps, EndsKeep
    <2>2. CASE Environment
      BY <2>2, ProviderMoves, OthersKeep DEF Environment
    <2>3. CASE /\ ~LaunchCreate /\ ~LaunchRecover /\ ~PersistAcquiredIdentity /\ ~Confirms /\ ~Absent
               /\ ~CleanupReturns /\ ~MarkStopped /\ ~Environment
      <3>1. FileMove /\ PcInv'
        BY <1>2, <2>3, FileMoves, PcKept DEF Environment
      <3>2. Quiet
        BY <1>2, <2>3, AllSteps, ScheduleQuiet, ProvisionQuiet, WarmupQuiet, ReadyQuiet, StopQuiet,
           AbsenceQuiet, HandlersQuiet, DeskQuiet
      <3> QED BY <3>1, <3>2, QuietKeeps
    <2> QED BY <2>1, <2>2, <2>3
  <1> QED BY <1>1, <1>2

\* What is known of the machine holds in every reachable state.
LEMMA MachineAgrees == ControllerSpec => [](ControllerInv /\ MachineInv)
  <1>1. ControllerInit => MachineInv
    BY DEF ControllerInit, FileInit, RunnerInit, MachineInv, Unseen, Absents, Cleanups, NoRecord
  <1>2. ControllerInv /\ MachineInv /\ [ControllerNext]_controllerVars => MachineInv'
    BY MachineKept
  <1> QED BY <1>1, <1>2, ControllerAgrees, PTL DEF ControllerSpec

\* A machine that was acknowledged is never left behind by a record that ends
\* its workspace, however late or forgetful the provider is, however old an
\* inventory answer is when it is used, whatever saves and commands fail and
\* whenever the adapter is killed or loses power (stopWorkspace,
\* persistAcquiredIdentity).
THEOREM KnownMachinesStay == ControllerSpec => []NoKnownOrphan
  <1>1. ASSUME ControllerInv, MachineInv PROVE NoKnownOrphan
    <2>0. FileInv /\ PreparedInv /\ OnRecord = stable
      BY <1>1 DEF ControllerInv, FileInv, OnRecord
    <2> SUFFICES ASSUME NEW r \in stable, r.status \in {"none"} \cup Finished, r.observed \/ ~r.prepared
                 PROVE  res = "none" /\ child # "running"
      BY <2>0 DEF NoKnownOrphan
    <2>1. Over(r)
      BY DEF Over
    <2>2. ~r.prepared => res = "none"
      BY <2>0 DEF PreparedInv
    <2> QED BY <1>1, <2>1, <2>2 DEF MachineInv
  <1> QED BY <1>1, MachineAgrees, PTL

\* A create nobody acknowledged is given up only after its create timeout, on
\* every record a power loss may leave (providerAbsenceNotBefore).
THEOREM LateCreatesAwaited == ControllerSpec => []LateCreateAwaited
  <1>1. ControllerInv /\ MachineInv => LateCreateAwaited
    BY DEF ControllerInv, FileInv, OnRecord, MachineInv, Over, LateCreateAwaited
  <1> QED BY <1>1, MachineAgrees, PTL

===============================================================================
