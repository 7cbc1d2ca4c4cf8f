--------------------------- MODULE ReconcileWorker ---------------------------
(***************************************************************************)
(* internal/reconcile/worker.go: the cycle of a reconciliation worker.     *)
(* It claims the UNKNOWN rows that are due and asks the provider about      *)
(* each, then claims the rows whose lease expired and recovers them, then   *)
(* scrubs old locators.  Each step is one database call or one provider     *)
(* lookup.                                                                  *)
(***************************************************************************)
EXTENDS Provider

CONSTANT MaxAttempts \* the claim ceiling per UNKNOWN row; 0 disables it

ASSUME WorkerConstants == MaxAttempts \in Nat

VARIABLES work,    \* the workers
          lookups  \* provider lookups spent per key

workVars == <<work, lookups>>

WorkerPCs == {"idle", "batch", "resolve", "commit", "release", "crashed", "dropClaim"}

\* A claimed record as it was read: a stale copy from the next step on.
Jobs == [key : Keys, ver : Nat, att : Nat, state : States, locator : BOOLEAN]

ASSUME NullIsNoJob == None \notin Jobs

Worker == [pc      : WorkerPCs,
           se      : Nat,                     \* the epoch its Store was built under
           todo    : SUBSET Jobs,             \* the rest of the batch
           job     : Jobs \cup {None},
           receipt : Receipts \cup {None}]    \* the resolver's decision

WorkerTypeOK ==
    /\ work \in [Owners -> Worker]
    /\ lookups \in [Keys -> Nat]

IdleWorker(se) == [pc |-> "idle", se |-> se, todo |-> {}, job |-> None,
                   receipt |-> None]

WorkerInit ==
    /\ work = [w \in Owners |-> IdleWorker(epoch)]
    /\ lookups = [k \in Keys |-> 0]

-------------------------------------------------------------------------------
WAt(w, pc)    == work[w].pc = pc
WBecome(w, x) == work' = [work EXCEPT ![w] = x] /\ UNCHANGED lookups
WGoto(w, pc)  == WBecome(w, [work[w] EXCEPT !.pc = pc])

\* Done with a job, whatever became of it: errors are printed and the batch
\* goes on.
NextJob(w, pc) == WBecome(w, [work[w] EXCEPT !.pc = pc, !.job = None, !.receipt = None])

\* The RETURNING clause of a claim: the rows as the claim leaves them.
JobsOf(S) == {[key |-> k, ver |-> rows'[k].version, att |-> rows'[k].attempt,
               state |-> rows'[k].state, locator |-> rows'[k].locator] : k \in S}

WorldStill == UNCHANGED worldVars

-------------------------------------------------------------------------------
(* Category 1: UNKNOWN rows.                                               *)

\* The batch limit exceeds the keys; a row that is locked at that instant is
\* skipped and left for the next cycle.  A failed claim ends the cycle.
ClaimUnknown(w) ==
    LET se == work[w].se IN
    /\ WAt(w, "idle") /\ WorldStill
    /\ \/ /\ ClaimUnknownBatch(se, w, UnknownClaimable) /\ NoFault
          /\ WBecome(w, [work[w] EXCEPT !.pc = "batch", !.todo = JobsOf(UnknownClaimable)])
       \/ /\ UnknownClaimable # {}
          /\ ClaimUnknownBatch(se, w, UnknownClaimable) /\ Fault
          /\ UNCHANGED workVars

\* Mutant: only releaseClaim looks at the ceiling.
ReconcileOneUncapped(w) == \E j \in work[w].todo :
    LET x == [work[w] EXCEPT !.todo = @ \ {j}] IN
    /\ WAt(w, "batch") /\ WorldStill
    /\ StoreCall(CanRenewReconcileClaim(x.se, j.key, j.ver), UNCHANGED storeVars,
                 WBecome(w, [x EXCEPT !.pc = "resolve", !.job = j]), WBecome(w, x))

\* The ceiling first; then RenewReconcileClaim, to learn whether the claim
\* is still this worker's.
ReconcileOne(w) == \E j \in work[w].todo :
    LET x == [work[w] EXCEPT !.todo = @ \ {j}] IN
    /\ WAt(w, "batch") /\ WorldStill
    /\ IF MaxAttempts > 0 /\ j.att > MaxAttempts
       THEN StoreCall(CanSuspend(x.se, j.key, j.ver), SuspendReconciliation(x.se, j.key, j.ver),
                      WBecome(w, x), WBecome(w, x))
       ELSE StoreCall(CanRenewReconcileClaim(x.se, j.key, j.ver), UNCHANGED storeVars,
                      WBecome(w, [x EXCEPT !.pc = "resolve", !.job = j]), WBecome(w, x))

\* What a resolver may report of the operation it looks up: that it took
\* effect or was refused, with the provider's artifact and run; that the
\* provider has no such operation, a failure without any artifact; or
\* nothing, a lookup error and a scrubbed locator included.  A request that
\* is still travelling has no operation yet.
ResolverFinds(k, locator) ==
    LET answer(st, p, run) == {[status |-> st, artifact |-> p, run |-> run]} IN
    IF ~locator THEN {}
    ELSE UNION {IF applied[k] > 0 THEN answer("COMMITTED", TRUE, ProviderRun) ELSE {},
                IF applied[k] = 0 /\ rejected[k] THEN answer("FAILED", TRUE, ProviderRun) ELSE {},
                IF applied[k] = 0 /\ ~rejected[k] THEN answer("FAILED", FALSE, None) ELSE {}}

\* Mutant: the resolver's word is signed without an artifact behind it.
AttestableOnWord(k, artifact) == k \in CriticalKeys => SignerConfigured

\* A CRITICAL decision needs a signer and an artifact to attest.
Attestable(k, artifact) == k \in CriticalKeys => SignerConfigured /\ artifact

ProofOf(k, status, artifact) ==
    IF k \notin CriticalKeys
    THEN IF artifact THEN "RESULT" ELSE "NONE"
    ELSE IF status = "COMMITTED" THEN "COMPLETED" ELSE "NO_EFFECT"

\* The lookup and the sign gate.  The evidence may be the very bytes the
\* dispatch captured or another capture of the same operation.
Resolve(w) ==
    LET x == work[w]  k == x.job.key IN
    /\ WAt(w, "resolve") /\ WorldStill
    /\ lookups' = [lookups EXCEPT ![k] = @ + 1]
    /\ \/ \E f \in ResolverFinds(k, x.job.locator), c \in Captures :
             /\ Attestable(k, f.artifact)
             /\ work' = [work EXCEPT ![w] = [x EXCEPT !.pc = "commit",
                   !.receipt = [status |-> f.status, capture |-> c, run |-> f.run,
                                proof |-> ProofOf(k, f.status, f.artifact)]]]
       \/ work' = [work EXCEPT ![w].pc = "release"]
    /\ UNCHANGED storeVars /\ NoFault

CommitDecision(w) ==
    LET x == work[w] IN
    /\ WAt(w, "commit") /\ WorldStill
    /\ StoreCall(CanResolveRecovery(x.se, x.job.key, x.job.ver, x.receipt),
                 ResolveRecovery(x.se, x.job.key, x.job.ver, x.receipt),
                 NextJob(w, "batch"), WGoto(w, "release"))

\* releaseClaim: back off, or dead-letter after the last allowed attempt.
ReleaseClaim(w) ==
    LET x == work[w]
        last == MaxAttempts > 0 /\ x.job.att >= MaxAttempts
    IN
    /\ WAt(w, "release") /\ WorldStill
    /\ IF last
       THEN StoreCall(CanSuspend(x.se, x.job.key, x.job.ver),
                      SuspendReconciliation(x.se, x.job.key, x.job.ver),
                      NextJob(w, "batch"), NextJob(w, "batch"))
       ELSE StoreCall(CanRelease(x.se, x.job.key, x.job.ver),
                      ReleaseReconcileClaim(x.se, x.job.key, x.job.ver, TRUE),
                      NextJob(w, "batch"), NextJob(w, "batch"))

-------------------------------------------------------------------------------
(* Category 2: rows whose lease expired.  Category 3: old locators.        *)

ClaimExpired(w) ==
    LET se == work[w].se IN
    /\ WAt(w, "batch") /\ work[w].todo = {} /\ WorldStill
    /\ \/ /\ ClaimExpiredBatch(se, w, ExpiredClaimable) /\ NoFault
          /\ WBecome(w, [work[w] EXCEPT !.pc = "crashed", !.todo = JobsOf(ExpiredClaimable)])
       \/ /\ ExpiredClaimable # {}
          /\ ClaimExpiredBatch(se, w, ExpiredClaimable) /\ Fault
          /\ WBecome(w, IdleWorker(se))
       \/ ~EpochGuard(se) /\ UNCHANGED storeVars /\ NoFault /\ WBecome(w, IdleWorker(se))

\* recoverCrashed goes by the state the claim read.
RecoverInFlight(w) == \E j \in work[w].todo :
    LET x == [work[w] EXCEPT !.todo = @ \ {j}] IN
    /\ WAt(w, "crashed") /\ j.state = "IN_FLIGHT" /\ WorldStill
    /\ StoreCall(CanEnterRecovery(x.se, j.key, j.ver), EnterRecovery(x.se, j.key, j.ver),
                 WBecome(w, x), WBecome(w, x))

RecoverPreDispatch(w) == \E j \in work[w].todo :
    LET x == [work[w] EXCEPT !.todo = @ \ {j}, !.pc = "dropClaim", !.job = j] IN
    /\ WAt(w, "crashed") /\ j.state \in PreDispatch /\ WorldStill
    /\ StoreCall(CanRecoverExpired(x.se, j.key, j.ver),
                 RecoverExpiredPreDispatch(x.se, j.key, j.ver),
                 WBecome(w, x), WBecome(w, x))

\* The deferred release, at the version the claim left.
DropClaim(w) ==
    LET x == work[w] IN
    /\ WAt(w, "dropClaim") /\ WorldStill
    /\ StoreCall(CanRelease(x.se, x.job.key, x.job.ver),
                 ReleaseReconcileClaim(x.se, x.job.key, x.job.ver, FALSE),
                 NextJob(w, "crashed"), NextJob(w, "crashed"))

\* Any UNKNOWN row may have outlived the retention window.
Scrub(w) ==
    /\ WAt(w, "crashed") /\ work[w].todo = {} /\ WorldStill
    /\ WBecome(w, IdleWorker(work[w].se)) /\ NoFault
    /\ \/ \E S \in SUBSET {k \in Keys : rows[k].state = "UNKNOWN"} :
            ScrubStaleRecoveryLocators(work[w].se, S)
       \/ ~CanScrub(work[w].se) /\ UNCHANGED storeVars

-------------------------------------------------------------------------------
CrashWorker(w) ==
    /\ ~WAt(w, "idle") /\ Fault
    /\ WBecome(w, IdleWorker(epoch))
    /\ UNCHANGED storeVars /\ WorldStill

RestartWorker(w) ==
    /\ WAt(w, "idle") /\ work[w].se # epoch
    /\ WBecome(w, IdleWorker(epoch))
    /\ UNCHANGED storeVars /\ WorldStill /\ NoFault

\* A cycle, as the supervisor's ticker drives it.
WorkerCycle(w) ==
    \/ ClaimUnknown(w) \/ ReconcileOne(w) \/ Resolve(w) \/ CommitDecision(w) \/ ReleaseClaim(w)
    \/ ClaimExpired(w) \/ RecoverInFlight(w) \/ RecoverPreDispatch(w) \/ DropClaim(w)
    \/ Scrub(w)

WorkerStep(w) == WorkerCycle(w) \/ CrashWorker(w) \/ RestartWorker(w)
===============================================================================
