----------------------------- MODULE FabricProofs -----------------------------
(***************************************************************************)
(* The whole fabric: executors, reconciliation workers, the operator, the  *)
(* clock and stray requests around one ledger.                             *)
(*                                                                         *)
(* DispatchInv covers ledger, executors and world.  FabricInv adds what    *)
(* the workers know: the jobs they hold are copies of rows at a version    *)
(* the row has reached, a decision to commit is true of the world, one     *)
(* worker at most holds a row at its current version, and lookups are paid *)
(* for by claims.                                                          *)
(***************************************************************************)
EXTENDS EffectFabric, DispatchProofs, FiniteSetTheorems

\* The jobs a worker has, the one it is at included.
HeldBy(x) == x.todo \cup ({x.job} \ {None})

\* Where the rest of the batch is still to be looked up.
Batching == {"batch", "resolve", "commit", "release"}
WithJob  == {"resolve", "commit", "release", "dropClaim"}

\* A receipt a worker is about to write: true, or refused by the policy.
DecisionTrue(k, rc) ==
    /\ rc \in Receipts
    /\ rc.status = "COMMITTED" => applied[k] = 1
    /\ rc.status = "FAILED" => Dead(k) \/ ~ValidateTerminalTransition(k, rc)

\* A job is a copy of a row at a version that it has reached.
JobOK(j, r) ==
    /\ j.ver <= MaxVersion /\ j.ver <= r.version
    /\ j.ver = r.version => j.att = r.attempt

WorkerOK(w) ==
    /\ work[w] \in Worker
    /\ work[w].pc \in WithJob => work[w].job \in Jobs /\ work[w].job # None
    /\ \A j \in HeldBy(work[w]) : JobOK(j, rows[j.key])
    /\ \A i, j \in work[w].todo : i.key = j.key => i = j
    /\ \A k \in Keys : work[w].pc = "commit" /\ work[w].job.key = k =>
                        DecisionTrue(k, work[w].receipt)

\* The worker in state x has a copy of row k at version v.
Holds(x, k, v) == \E j \in HeldBy(x) : j.key = k /\ j.ver = v

\* One worker at most has a current copy of a row.
OneHolds == \A k \in Keys, v, w \in Owners :
    Holds(work[v], k, rows[k].version) /\ Holds(work[w], k, rows[k].version) => v = w

\* The workers that are about to look up k.
Resolving(k) == {w \in Owners : work[w].pc = "resolve" /\ work[w].job.key = k}

\* A claimed copy of k that will still be looked up.
Awaits(x, k, v) == x.pc \in Batching /\ \E j \in x.todo : j.key = k /\ j.ver = v
Awaited(k) == \E w \in Owners : Awaits(work[w], k, rows[k].version)

\* Every lookup, spent or about to be, was paid for by one claim of the row.
Spent(k) == lookups[k] + Cardinality(Resolving(k))
Budget(k) ==
    /\ IsFiniteSet(Resolving(k))
    /\ Spent(k) + (IF Awaited(k) THEN 1 ELSE 0) <= rows[k].attempt
    /\ MaxAttempts > 0 => Spent(k) <= MaxAttempts

FabricInv ==
    /\ DispatchInv
    /\ work \in [Owners -> Worker] /\ lookups \in [Keys -> Nat]
    /\ \A w \in Owners : WorkerOK(w)
    /\ OneHolds
    /\ \A k \in Keys : Budget(k)

-------------------------------------------------------------------------------
(* The kinds of step a worker takes.                                       *)

\* It holds no more than before.
Drops(x, y) ==
    /\ y.pc \notin {"resolve", "commit"}
    /\ y.pc \in Batching => x.pc \in Batching
    /\ y.todo \subseteq x.todo /\ HeldBy(y) \subseteq HeldBy(x)

\* Its claim on the next job was renewed.
Renews(x, y) == \E j \in x.todo :
    /\ x.pc = "batch" /\ y.pc = "resolve" /\ y.todo = x.todo \ {j} /\ y.job = j
    /\ j.ver = rows[j.key].version /\ (MaxAttempts > 0 => j.att <= MaxAttempts)

\* It looked up the job it is at.
LooksUp(x, y) ==
    /\ x.pc = "resolve" /\ y.pc \in {"commit", "release"}
    /\ y.todo = x.todo /\ y.job = x.job
    /\ y.pc = "commit" => DecisionTrue(y.job.key, y.receipt)

\* It claimed a batch.
Claims(w, y) ==
    /\ HeldBy(y) \subseteq y.todo \cup HeldBy(work[w])
    /\ \/ /\ y.pc = "batch" /\ y.todo = JobsOf(UnknownClaimable)
          /\ ClaimUnknownBatch(epoch, w, UnknownClaimable)
       \/ /\ y.pc = "crashed" /\ y.todo = JobsOf(ExpiredClaimable)
          /\ ClaimExpiredBatch(epoch, w, ExpiredClaimable)

\* What it writes is true.
WritesTruly == \A k \in Keys :
    /\ rows'[k].state = "COMMITTED" => rows[k].state = "COMMITTED" \/ applied[k] = 1
    /\ rows'[k].state = "FAILED" => rows[k].state = "FAILED" \/ Dead(k)

WorkerMove(w) ==
    /\ work' = [work EXCEPT ![w] = work'[w]]
    /\ work'[w] \in Worker
    /\ work'[w].pc \in WithJob => work'[w].job \in Jobs /\ work'[w].job # None
    /\ \/ Drops(work[w], work'[w]) /\ UNCHANGED lookups
       \/ Renews(work[w], work'[w]) /\ UNCHANGED lookups /\ UNCHANGED storeVars
       \/ /\ LooksUp(work[w], work'[w]) /\ UNCHANGED storeVars
          /\ lookups' = [lookups EXCEPT ![work[w].job.key] = @ + 1]
       \/ Claims(w, work'[w]) /\ UNCHANGED lookups
    /\ [StoreNext]_storeVars /\ WritesTruly
    /\ UNCHANGED worldVars /\ faults' \in Nat

-------------------------------------------------------------------------------
(* The methods a worker calls are steps of the store.                      *)

\* Writes that do not settle anything.
LEMMA NoneSettledTruly ==
    ASSUME UNCHANGED storeVars \/ (StoreNext /\ NoneSettled)
    PROVE  [StoreNext]_storeVars /\ WritesTruly
  BY DEF storeVars, NoneSettled, WritesTruly, Terminal

\* ReleaseReconcileClaim and SuspendReconciliation.
LEMMA RequeueCall ==
    ASSUME TypeOK, epoch \in Epochs, NEW se, NEW k \in Keys, NEW v, v <= MaxVersion,
           NEW b \in BOOLEAN,
           ReleaseReconcileClaim(se, k, v, b) \/ SuspendReconciliation(se, k, v)
    PROVE  StoreNext /\ NoneSettled
  <1>0. rows[k] \in Row
    BY DEF TypeOK
  <1>1. se = epoch /\ v = rows[k].version
    BY DEF ReleaseReconcileClaim, CanRelease, SuspendReconciliation, CanSuspend, EpochGuard
  <1>2. StoreNext
    BY <1>1 DEF StoreNext, RecoveryStep
  <1>3. \A d \in Dues : Bumped([Unclaimed(rows[k]) EXCEPT !.due = d]).state = rows[k].state
    BY <1>0 DEF Row, Bumped, Unclaimed
  <1>4. \E d \in Dues : PutRow(k, Bumped([Unclaimed(rows[k]) EXCEPT !.due = d]))
    BY DEF ReleaseReconcileClaim, SuspendReconciliation, Dues
  <1>5. NoneSettled
    BY <1>3, <1>4, PutNoneSettled
  <1> QED BY <1>2, <1>5

\* EnterRecovery and RecoverExpiredPreDispatch.
LEMMA RecoverCall ==
    ASSUME TypeOK, epoch \in Epochs, NEW se, NEW k \in Keys, NEW v,
           EnterRecovery(se, k, v) \/ RecoverExpiredPreDispatch(se, k, v)
    PROVE  StoreNext /\ NoneSettled
  <1>0. rows[k] \in Row
    BY DEF TypeOK
  <1>1. se = epoch /\ v = rows[k].version
    BY DEF EnterRecovery, CanEnterRecovery, RecoverExpiredPreDispatch, CanRecoverExpired, EpochGuard
  <1>2. StoreNext
    BY <1>1 DEF StoreNext, RecoveryStep
  <1>3. [Relinquished(rows[k]) EXCEPT !.state = "UNKNOWN"].state = "UNKNOWN"
    BY <1>0, RelinquishedRow, StateSet DEF States, PostDispatch
  <1>4. [Relinquished(rows[k]) EXCEPT !.state = "PREPARED", !.due = "NOW"].state = "PREPARED"
    BY <1>0, RelinquishedRow DEF Row
  <1>5. NoneSettled
    BY <1>3, <1>4, PutNoneSettled DEF EnterRecovery, RecoverExpiredPreDispatch, Terminal
  <1> QED BY <1>2, <1>5

\* ResolveRecovery settles the row as its receipt says.
LEMMA ResolveCall ==
    ASSUME TypeOK, epoch \in Epochs, NEW se, NEW k \in Keys, NEW v, NEW rc \in Receipts,
           ResolveRecovery(se, k, v, rc), DecisionTrue(k, rc)
    PROVE  StoreNext /\ WritesTruly
  <1>0. rows[k] \in Row
    BY DEF TypeOK
  <1>1. se = epoch /\ v = rows[k].version /\ ValidateTerminalTransition(k, rc)
    BY DEF ResolveRecovery, CanResolveRecovery, EpochGuard
  <1>2. StoreNext
    BY <1>1 DEF StoreNext, RecoveryStep
  <1> DEFINE r == Bumped([Unclaimed(rows[k]) EXCEPT
                            !.state = rc.status, !.receipt = rc, !.due = "NOW",
                            !.run = Fill(@, rc.run), !.locator = FALSE])
  <1>3. r.state = rc.status
    BY <1>0 DEF Row, Bumped, Unclaimed
  <1>4. PutRow(k, r)
    BY DEF ResolveRecovery
  <1> HIDE DEF r
  <1>5. rows'[k] = r /\ \A j \in Keys \ {k} : rows'[j] = rows[j]
    BY <1>4 DEF PutRow, TypeOK
  <1>6. WritesTruly
    BY <1>1, <1>3, <1>5 DEF WritesTruly, DecisionTrue
  <1> QED BY <1>2, <1>6

\* The batch updates.
LEMMA BatchCall ==
    ASSUME TypeOK, epoch \in Epochs, NEW se, NEW w \in Owners, NEW S \in SUBSET Keys,
           \/ ClaimUnknownBatch(se, w, S)
           \/ ClaimExpiredBatch(se, w, S)
           \/ ScrubStaleRecoveryLocators(se, S)
    PROVE  StoreNext /\ NoneSettled /\ se = epoch
  <1>1. se = epoch
    BY DEF ClaimUnknownBatch, ClaimExpiredBatch, ScrubStaleRecoveryLocators, CanScrub, EpochGuard
  <1>2. StoreNext
    BY <1>1 DEF StoreNext, BatchStep
  <1>3. \A k \in Keys : rows'[k].state = rows[k].state
    <2> SUFFICES ASSUME NEW k \in Keys PROVE rows'[k].state = rows[k].state
      OBVIOUS
    <2>1. rows[k] \in Row
      BY DEF TypeOK
    <2>2. /\ [Claimed(rows[k], w) EXCEPT !.attempt = @ + 1].state = rows[k].state
          /\ Claimed(rows[k], w).state = rows[k].state
          /\ [rows[k] EXCEPT !.locator = FALSE].state = rows[k].state
      BY <2>1 DEF Row, Claimed, Bumped
    <2>3. \/ rows'[k] = rows[k] \/ rows'[k] = Claimed(rows[k], w)
          \/ rows'[k] = [Claimed(rows[k], w) EXCEPT !.attempt = @ + 1]
          \/ rows'[k] = [rows[k] EXCEPT !.locator = FALSE]
      BY DEF ClaimUnknownBatch, ClaimExpiredBatch, ScrubStaleRecoveryLocators
    <2> QED BY <2>2, <2>3
  <1> QED BY <1>1, <1>2, <1>3 DEF NoneSettled

-------------------------------------------------------------------------------
(* The actions of a worker are such steps.                                 *)

\* The worker's own state after each of them.
LEMMA WorkerUpdates ==
    ASSUME NEW x \in Worker
    PROVE  /\ \A pc \in WorkerPCs :
                /\ [x EXCEPT !.pc = pc] \in Worker
                /\ [x EXCEPT !.pc = pc].pc = pc /\ [x EXCEPT !.pc = pc].todo = x.todo
                /\ [x EXCEPT !.pc = pc].job = x.job
           /\ \A pc \in WorkerPCs :
                LET y == [x EXCEPT !.pc = pc, !.job = None, !.receipt = None]
                IN  y \in Worker /\ y.pc = pc /\ y.todo = x.todo /\ y.job = None
           /\ \A j \in x.todo :
                LET y == [x EXCEPT !.todo = @ \ {j}]
                IN  y \in Worker /\ y.pc = x.pc /\ y.todo = x.todo \ {j} /\ y.job = x.job
           /\ LET y == IdleWorker(x.se)
              IN  y \in Worker /\ y.pc = "idle" /\ y.todo = {} /\ y.job = None
  BY DEF Worker, IdleWorker, WorkerPCs

\* A fresh worker.
LEMMA IdleIsWorker ==
    ASSUME NEW n \in Nat
    PROVE  /\ IdleWorker(n) \in Worker /\ IdleWorker(n).pc = "idle"
           /\ IdleWorker(n).todo = {} /\ IdleWorker(n).job = None
  BY DEF Worker, IdleWorker, WorkerPCs

\* A worker that is handed nothing new.
LEMMA DropMove ==
    ASSUME FabricInv, NEW w \in Owners, NEW y \in Worker, WBecome(w, y), Drops(work[w], y),
           y.pc \in WithJob => y.job \in Jobs /\ y.job # None,
           [StoreNext]_storeVars /\ WritesTruly,
           UNCHANGED worldVars, Fault \/ NoFault
    PROVE  WorkerMove(w)
  <1>1. work' = [work EXCEPT ![w] = y] /\ UNCHANGED lookups
    BY DEF WBecome
  <1>2. work'[w] = y
    BY <1>1 DEF FabricInv
  <1>3. faults' \in Nat
    BY DEF FabricInv, DispatchInv, WorldTypeOK, Fault, NoFault
  <1> QED BY <1>1, <1>2, <1>3 DEF WorkerMove

\* What is known of a worker before its step.
LEMMA WorkerKnows ==
    ASSUME FabricInv, NEW w \in Owners
    PROVE  /\ work[w] \in Worker /\ TypeOK /\ epoch \in Epochs /\ epoch \in Nat
           /\ work[w].todo \subseteq Jobs
           /\ \A j \in work[w].todo : j \in Jobs /\ j # None /\ j.key \in Keys /\ j.ver <= MaxVersion
           /\ work[w].pc \in WithJob =>
                 /\ work[w].job \in Jobs /\ work[w].job # None
                 /\ work[w].job.key \in Keys /\ work[w].job.ver <= MaxVersion
  <1>1. WorkerOK(w) /\ work[w] \in Worker
    BY DEF FabricInv
  <1>2. TypeOK /\ epoch \in Epochs /\ epoch \in Nat
    BY DEF FabricInv, DispatchInv, RowsInv, TypeOK
  <1>3. work[w].todo \subseteq Jobs
    BY <1>1 DEF Worker
  <1>4. \A j \in Jobs : j.key \in Keys /\ j # None
    BY NullIsNoJob DEF Jobs
  <1>5. \A j \in work[w].todo : j \in HeldBy(work[w])
    BY DEF HeldBy
  <1>6. work[w].job # None => work[w].job \in HeldBy(work[w])
    BY DEF HeldBy
  <1>7. \A j \in HeldBy(work[w]) : j.ver <= MaxVersion
    BY <1>1 DEF WorkerOK, JobOK
  <1> QED BY <1>1, <1>2, <1>3, <1>4, <1>5, <1>6, <1>7 DEF WorkerOK

\* A batch is over, or a process begins anew.
LEMMA IdleMove ==
    ASSUME FabricInv, NEW w \in Owners, NEW n \in Nat, WBecome(w, IdleWorker(n)),
           [StoreNext]_storeVars /\ WritesTruly, UNCHANGED worldVars, Fault \/ NoFault
    PROVE  WorkerMove(w)
  <1> DEFINE y == IdleWorker(n)
  <1>1. y \in Worker /\ y.pc = "idle" /\ y.todo = {} /\ y.job = None
    BY IdleIsWorker
  <1> HIDE DEF y
  <1>2. Drops(work[w], y) /\ y.pc \notin WithJob
    BY <1>1 DEF Drops, Batching, HeldBy, WithJob
  <1>3. WBecome(w, y)
    BY DEF y
  <1> QED BY <1>1, <1>2, <1>3, DropMove

\* The next job, with whatever became of this one.
LEMMA NextJobMove ==
    ASSUME FabricInv, NEW w \in Owners, NEW pc \in {"batch", "crashed"}, NextJob(w, pc),
           pc = "batch" => work[w].pc \in Batching,
           [StoreNext]_storeVars /\ WritesTruly, UNCHANGED worldVars, Fault \/ NoFault
    PROVE  WorkerMove(w)
  <1> DEFINE y == [work[w] EXCEPT !.pc = pc, !.job = None, !.receipt = None]
  <1>0. pc \in WorkerPCs
    BY DEF WorkerPCs
  <1>1. y \in Worker /\ y.pc = pc /\ y.todo = work[w].todo /\ y.job = None
    BY <1>0, WorkerKnows DEF Worker
  <1>2. WBecome(w, y)
    BY DEF NextJob
  <1> HIDE DEF y
  <1>3. Drops(work[w], y) /\ y.pc \notin WithJob
    BY <1>1 DEF Drops, Batching, HeldBy, WithJob
  <1> QED BY <1>1, <1>2, <1>3, DropMove

\* A job of the batch is done with.
LEMMA SkipMove ==
    ASSUME FabricInv, NEW w \in Owners, NEW j \in work[w].todo, work[w].pc \in {"batch", "crashed"},
           WBecome(w, [work[w] EXCEPT !.todo = @ \ {j}]),
           [StoreNext]_storeVars /\ WritesTruly, UNCHANGED worldVars, Fault \/ NoFault
    PROVE  WorkerMove(w)
  <1> DEFINE y == [work[w] EXCEPT !.todo = @ \ {j}]
  <1>1. y \in Worker /\ y.pc = work[w].pc /\ y.todo = work[w].todo \ {j} /\ y.job = work[w].job
    BY WorkerUpdates, WorkerKnows
  <1> HIDE DEF y
  <1>2. WBecome(w, y)
    BY DEF y
  <1>3. Drops(work[w], y) /\ y.pc \notin WithJob
    BY <1>1 DEF Drops, Batching, HeldBy, WithJob
  <1> QED BY <1>1, <1>2, <1>3, DropMove

\* A claimed batch: the rows as the claim leaves them.
LEMMA ClaimMove ==
    ASSUME FabricInv, NEW w \in Owners, NEW S \in SUBSET Keys, NEW pc \in {"batch", "crashed"},
           WBecome(w, [work[w] EXCEPT !.pc = pc, !.todo = JobsOf(S)]),
           \/ pc = "batch" /\ S = UnknownClaimable /\ ClaimUnknownBatch(work[w].se, w, S)
           \/ pc = "crashed" /\ S = ExpiredClaimable /\ ClaimExpiredBatch(work[w].se, w, S),
           UNCHANGED worldVars, NoFault
    PROVE  WorkerMove(w)
  <1> DEFINE y == [work[w] EXCEPT !.pc = pc, !.todo = JobsOf(S)]
  <1>1. StoreNext /\ NoneSettled /\ work[w].se = epoch
    BY WorkerKnows, BatchCall
  <1>2. [StoreNext]_storeVars /\ WritesTruly
    BY <1>1, NoneSettledTruly
  <1>3. TypeOK'
    BY <1>1, TypeStep, WorkerKnows
  <1>4. JobsOf(S) \subseteq Jobs
    BY <1>3 DEF JobsOf, Jobs, TypeOK, Row
  <1>5. y \in Worker /\ y.pc = pc /\ y.todo = JobsOf(S) /\ y.job = work[w].job
    BY <1>4, WorkerKnows DEF Worker, WorkerPCs
  <1>6. work' = [work EXCEPT ![w] = y] /\ UNCHANGED lookups
    BY DEF WBecome
  <1> HIDE DEF y
  <1>7. work'[w] = y
    BY <1>6 DEF FabricInv
  <1>8. HeldBy(y) \subseteq y.todo \cup HeldBy(work[w]) /\ y.pc \notin WithJob
    BY <1>5 DEF HeldBy, WithJob
  <1>9. Claims(w, y)
    BY <1>1, <1>5, <1>8 DEF Claims
  <1>10. faults' \in Nat
    BY DEF FabricInv, DispatchInv, WorldTypeOK, NoFault
  <1> QED BY <1>2, <1>5, <1>6, <1>7, <1>8, <1>9, <1>10 DEF WorkerMove

\* ClaimUnknownBatch and the claim of expired rows, with the ways they fail.
LEMMA ClaimsMove ==
    ASSUME FabricInv, NEW w \in Owners, ClaimUnknown(w) \/ ClaimExpired(w)
    PROVE  WorkerMove(w)
  <1>0. UnknownClaimable \in SUBSET Keys /\ ExpiredClaimable \in SUBSET Keys
    BY DEF UnknownClaimable, ExpiredClaimable
  <1>1. work[w] \in Worker /\ work[w].se \in Nat
    BY WorkerKnows DEF Worker
  <1>2. UNCHANGED worldVars
    BY DEF ClaimUnknown, ClaimExpired, WorldStill
  <1>3. CASE ClaimUnknownBatch(work[w].se, w, UnknownClaimable) /\ NoFault
             /\ WBecome(w, [work[w] EXCEPT !.pc = "batch", !.todo = JobsOf(UnknownClaimable)])
    BY <1>0, <1>2, <1>3, ClaimMove
  <1>4. CASE ClaimExpiredBatch(work[w].se, w, ExpiredClaimable) /\ NoFault
             /\ WBecome(w, [work[w] EXCEPT !.pc = "crashed", !.todo = JobsOf(ExpiredClaimable)])
    BY <1>0, <1>2, <1>4, ClaimMove
  <1>5. CASE work[w].pc = "idle" /\ ClaimUnknownBatch(work[w].se, w, UnknownClaimable) /\ Fault
             /\ UNCHANGED workVars
    <2>1. StoreNext /\ NoneSettled
      BY <1>0, <1>5, BatchCall, WorkerKnows
    <2>2. [StoreNext]_storeVars /\ WritesTruly
      BY <2>1, NoneSettledTruly
    <2>3. work' = work /\ UNCHANGED lookups /\ work \in [Owners -> Worker]
      BY <1>5 DEF workVars, FabricInv
    <2>4. WBecome(w, work[w])
      BY <2>3 DEF WBecome
    <2>5. Drops(work[w], work[w]) /\ work[w].pc \notin WithJob
      BY <1>5 DEF Drops, WithJob, Batching
    <2> QED BY <1>1, <1>2, <1>5, <2>2, <2>4, <2>5, DropMove
  <1>6. CASE ClaimExpiredBatch(work[w].se, w, ExpiredClaimable) /\ Fault
             /\ WBecome(w, IdleWorker(work[w].se))
    <2>1. StoreNext /\ NoneSettled
      BY <1>0, <1>6, BatchCall, WorkerKnows
    <2>2. [StoreNext]_storeVars /\ WritesTruly
      BY <2>1, NoneSettledTruly
    <2> QED BY <1>1, <1>2, <1>6, <2>2, IdleMove
  <1>7. CASE UNCHANGED storeVars /\ NoFault /\ WBecome(w, IdleWorker(work[w].se))
    BY <1>1, <1>2, <1>7, NoneSettledTruly, IdleMove
  <1> QED BY <1>3, <1>4, <1>5, <1>6, <1>7 DEF ClaimUnknown, ClaimExpired, WAt

\* A crash, a restart, and the end of a cycle.
LEMMA EndsMove ==
    ASSUME FabricInv, NEW w \in Owners, CrashWorker(w) \/ RestartWorker(w) \/ Scrub(w)
    PROVE  WorkerMove(w)
  <1>1. work[w].se \in Nat /\ epoch \in Nat
    BY WorkerKnows DEF Worker
  <1>2. CASE CrashWorker(w) \/ RestartWorker(w)
    BY <1>1, <1>2, NoneSettledTruly, IdleMove DEF CrashWorker, RestartWorker, WorldStill
  <1>3. CASE Scrub(w)
    <2>1. UNCHANGED storeVars \/ (StoreNext /\ NoneSettled)
      <3>1. ASSUME NEW S \in SUBSET {k \in Keys : rows[k].state = "UNKNOWN"},
                   ScrubStaleRecoveryLocators(work[w].se, S)
            PROVE  StoreNext /\ NoneSettled
        BY <3>1, BatchCall, WorkerKnows
      <3> QED BY <1>3, <3>1 DEF Scrub
    <2>2. [StoreNext]_storeVars /\ WritesTruly
      BY <2>1, NoneSettledTruly
    <2> QED BY <1>1, <1>3, <2>2, IdleMove DEF Scrub, WorldStill
  <1> QED BY <1>2, <1>3

\* A guarded write that settles nothing, as its caller experiences it.
LEMMA WorkerCall ==
    ASSUME FabricInv, NEW w \in Owners, NEW k \in Keys, NEW v, v <= MaxVersion,
           NEW b \in BOOLEAN,
           \/ UNCHANGED storeVars
           \/ ReleaseReconcileClaim(work[w].se, k, v, b)
           \/ SuspendReconciliation(work[w].se, k, v)
           \/ EnterRecovery(work[w].se, k, v)
           \/ RecoverExpiredPreDispatch(work[w].se, k, v)
    PROVE  [StoreNext]_storeVars /\ WritesTruly
  <1>1. UNCHANGED storeVars \/ (StoreNext /\ NoneSettled)
    BY RequeueCall, RecoverCall, WorkerKnows
  <1> QED BY <1>1, NoneSettledTruly

\* reconcileOne renews the claim and goes on to the lookup.
LEMMA RenewMove ==
    ASSUME FabricInv, NEW w \in Owners, NEW j \in work[w].todo, work[w].pc = "batch",
           MaxAttempts > 0 => j.att <= MaxAttempts, j.ver = rows[j.key].version,
           WBecome(w, [[work[w] EXCEPT !.todo = @ \ {j}] EXCEPT !.pc = "resolve", !.job = j]),
           UNCHANGED storeVars, UNCHANGED worldVars, NoFault
    PROVE  WorkerMove(w)
  <1> DEFINE y == [[work[w] EXCEPT !.todo = @ \ {j}] EXCEPT !.pc = "resolve", !.job = j]
  <1>1. j \in Jobs /\ j # None
    BY WorkerKnows
  <1>2. y \in Worker /\ y.pc = "resolve" /\ y.todo = work[w].todo \ {j} /\ y.job = j
    BY <1>1, WorkerKnows DEF Worker, WorkerPCs
  <1>3. work' = [work EXCEPT ![w] = y] /\ UNCHANGED lookups
    BY DEF WBecome
  <1> HIDE DEF y
  <1>4. work'[w] = y
    BY <1>3 DEF FabricInv
  <1>5. Renews(work[w], y)
    BY <1>2 DEF Renews
  <1>6. faults' \in Nat
    BY DEF FabricInv, DispatchInv, WorldTypeOK, NoFault
  <1>7. [StoreNext]_storeVars /\ WritesTruly
    BY NoneSettledTruly
  <1> QED BY <1>1, <1>2, <1>3, <1>4, <1>5, <1>6, <1>7 DEF WorkerMove

\* reconcileOne and recoverCrashed take the next job of their batch.
LEMMA BatchMove ==
    ASSUME FabricInv, NEW w \in Owners, ReconcileOne(w) \/ RecoverInFlight(w)
    PROVE  WorkerMove(w)
  <1>1. UNCHANGED worldVars
    BY DEF ReconcileOne, RecoverInFlight, WorldStill
  <1>2. ASSUME NEW j \in work[w].todo, work[w].pc \in {"batch", "crashed"},
               WBecome(w, [work[w] EXCEPT !.todo = @ \ {j}]), Fault \/ NoFault,
               \/ UNCHANGED storeVars
               \/ SuspendReconciliation(work[w].se, j.key, j.ver)
               \/ EnterRecovery(work[w].se, j.key, j.ver)
        PROVE  WorkerMove(w)
    <2>1. j.key \in Keys /\ j.ver <= MaxVersion
      BY WorkerKnows
    <2>2. [StoreNext]_storeVars /\ WritesTruly
      BY <1>2, <2>1, WorkerCall
    <2> QED BY <1>1, <1>2, <2>2, SkipMove
  <1>3. ASSUME NEW j \in work[w].todo PROVE [work[w] EXCEPT !.todo = @ \ {j}].se = work[w].se
    BY WorkerKnows DEF Worker
  <1>4. CASE RecoverInFlight(w)
    BY <1>2, <1>3, <1>4 DEF RecoverInFlight, StoreCall, WAt
  <1>5. CASE ReconcileOne(w)
    <2>1. PICK j \in work[w].todo : ReconcileOne(w)!(j)
      BY <1>5 DEF ReconcileOne
    <2> DEFINE x == [work[w] EXCEPT !.todo = @ \ {j}]
    <2>2. work[w].pc = "batch"
      BY <2>1 DEF WAt
    <2>3. CASE MaxAttempts > 0 /\ j.att > MaxAttempts
      BY <1>2, <1>3, <2>1, <2>2, <2>3 DEF StoreCall
    <2>4. CASE ~(MaxAttempts > 0 /\ j.att > MaxAttempts)
      <3>1. j \in Jobs
        BY WorkerKnows
      <3>2. MaxAttempts > 0 => j.att <= MaxAttempts
        BY <2>4, <3>1, WorkerConstants DEF Jobs
      <3>3. StoreCall(CanRenewReconcileClaim(x.se, j.key, j.ver), UNCHANGED storeVars,
                      WBecome(w, [x EXCEPT !.pc = "resolve", !.job = j]), WBecome(w, x))
        BY <2>1, <2>4
      <3>4. CASE /\ CanRenewReconcileClaim(x.se, j.key, j.ver)
                 /\ UNCHANGED storeVars /\ NoFault
                 /\ WBecome(w, [x EXCEPT !.pc = "resolve", !.job = j])
        <4>1. j.ver = rows[j.key].version
          BY <3>4 DEF CanRenewReconcileClaim
        <4> QED BY <1>1, <2>2, <3>2, <3>4, <4>1, RenewMove
      <3>5. CASE WBecome(w, x) /\ UNCHANGED storeVars /\ (Fault \/ NoFault)
        BY <1>2, <2>2, <3>5
      <3> QED BY <3>3, <3>4, <3>5 DEF StoreCall
    <2> QED BY <2>3, <2>4
  <1> QED BY <1>4, <1>5

\* recoverCrashed turns to a row that was never dispatched.
LEMMA PreDispatchMove ==
    ASSUME FabricInv, NEW w \in Owners, RecoverPreDispatch(w)
    PROVE  WorkerMove(w)
  <1>1. PICK j \in work[w].todo : RecoverPreDispatch(w)!(j)
    BY DEF RecoverPreDispatch
  <1> DEFINE y == [work[w] EXCEPT !.todo = @ \ {j}, !.pc = "dropClaim", !.job = j]
  <1>2. j \in Jobs /\ j # None /\ j.key \in Keys /\ j.ver <= MaxVersion
    BY WorkerKnows
  <1>3. /\ y \in Worker /\ y.pc = "dropClaim" /\ y.todo = work[w].todo \ {j} /\ y.job = j
        /\ y.se = work[w].se
    BY <1>2, WorkerKnows DEF Worker, WorkerPCs
  <1>4. WBecome(w, y) /\ UNCHANGED worldVars /\ (Fault \/ NoFault)
    BY <1>1 DEF StoreCall, WorldStill
  <1>5. UNCHANGED storeVars \/ RecoverExpiredPreDispatch(work[w].se, j.key, j.ver)
    BY <1>1, <1>3 DEF StoreCall
  <1> HIDE DEF y
  <1>6. [StoreNext]_storeVars /\ WritesTruly
    BY <1>2, <1>5, WorkerCall
  <1>7. Drops(work[w], y)
    BY <1>3 DEF Drops, Batching, HeldBy
  <1> QED BY <1>2, <1>3, <1>4, <1>6, <1>7, DropMove

\* releaseClaim and the deferred release.
LEMMA ReleaseMove ==
    ASSUME FabricInv, NEW w \in Owners, ReleaseClaim(w) \/ DropClaim(w)
    PROVE  WorkerMove(w)
  <1>1. work[w].pc \in {"release", "dropClaim"} /\ UNCHANGED worldVars
    BY DEF ReleaseClaim, DropClaim, WAt, WorldStill
  <1>2. work[w].job.key \in Keys /\ work[w].job.ver <= MaxVersion
    BY <1>1, WorkerKnows DEF WithJob
  <1>3. \/ UNCHANGED storeVars
        \/ ReleaseReconcileClaim(work[w].se, work[w].job.key, work[w].job.ver, TRUE)
        \/ ReleaseReconcileClaim(work[w].se, work[w].job.key, work[w].job.ver, FALSE)
        \/ SuspendReconciliation(work[w].se, work[w].job.key, work[w].job.ver)
    BY DEF ReleaseClaim, DropClaim, StoreCall
  <1>4. [StoreNext]_storeVars /\ WritesTruly
    BY <1>2, <1>3, WorkerCall
  <1>5. Fault \/ NoFault
    BY DEF ReleaseClaim, DropClaim, StoreCall
  <1>6. (NextJob(w, "batch") /\ work[w].pc = "release") \/ NextJob(w, "crashed")
    BY DEF ReleaseClaim, DropClaim, StoreCall, WAt
  <1> QED BY <1>1, <1>4, <1>5, <1>6, NextJobMove DEF Batching

\* The decision is committed, or refused and the claim released.
LEMMA CommitMove ==
    ASSUME FabricInv, NEW w \in Owners, CommitDecision(w)
    PROVE  WorkerMove(w)
  <1> DEFINE x == work[w]
             y == [x EXCEPT !.pc = "release"]
  <1>1. x.pc = "commit" /\ UNCHANGED worldVars
    BY DEF CommitDecision, WAt, WorldStill
  <1>2. x \in Worker /\ x.job \in Jobs /\ x.job # None /\ x.job.key \in Keys
    BY <1>1, WorkerKnows DEF WithJob
  <1>3. DecisionTrue(x.job.key, x.receipt) /\ x.receipt \in Receipts
    BY <1>1, <1>2 DEF FabricInv, WorkerOK, DecisionTrue
  <1>4. UNCHANGED storeVars \/ ResolveRecovery(x.se, x.job.key, x.job.ver, x.receipt)
    BY DEF CommitDecision, StoreCall
  <1>5. [StoreNext]_storeVars /\ WritesTruly
    BY <1>2, <1>3, <1>4, ResolveCall, NoneSettledTruly, WorkerKnows
  <1>6. Fault \/ NoFault
    BY DEF CommitDecision, StoreCall
  <1>7. NextJob(w, "batch") \/ WBecome(w, y)
    BY DEF CommitDecision, StoreCall, WGoto
  <1>8. CASE NextJob(w, "batch")
    BY <1>1, <1>5, <1>6, <1>8, NextJobMove DEF Batching
  <1>9. CASE WBecome(w, y)
    <2>1. y \in Worker /\ y.pc = "release" /\ y.todo = x.todo /\ y.job = x.job
      BY <1>2 DEF Worker, WorkerPCs
    <2>2. Drops(x, y)
      BY <1>1, <2>1 DEF Drops, Batching, HeldBy
    <2> HIDE DEF y
    <2> QED BY <1>1, <1>2, <1>5, <1>6, <1>9, <2>1, <2>2, DropMove
  <1> QED BY <1>7, <1>8, <1>9

\* The operation the provider durably refused can no longer take effect.
LEMMA RefusedIsDead ==
    ASSUME NEW k \in Keys, KeyInv(k), stray[k] \in Nat, applied[k] = 0, rejected[k]
    PROVE  Dead(k)
  <1>1. ~Sending(k) /\ rows[k].state \in PostDispatch /\ stray[k] # 1
    BY DEF KeyInv, Untouched
  <1>2. stray[k] = 0
    BY <1>1 DEF KeyInv
  <1> QED BY <1>1, <1>2 DEF Dead

\* What the sign gate lets through is true, or the policy will refuse it.
LEMMA FindingTrue ==
    ASSUME NEW k \in Keys, KeyInv(k), applied[k] \in Nat, stray[k] \in Nat,
           NEW b \in BOOLEAN, NEW f \in ResolverFinds(k, b), NEW c \in Captures,
           Attestable(k, f.artifact)
    PROVE  DecisionTrue(k, [status |-> f.status, capture |-> c, run |-> f.run,
                            proof |-> ProofOf(k, f.status, f.artifact)])
  <1> DEFINE rc == [status |-> f.status, capture |-> c, run |-> f.run,
                    proof |-> ProofOf(k, f.status, f.artifact)]
  <1>1. \/ /\ f = [status |-> "COMMITTED", artifact |-> TRUE, run |-> ProviderRun]
           /\ applied[k] > 0
        \/ /\ f = [status |-> "FAILED", artifact |-> TRUE, run |-> ProviderRun]
           /\ applied[k] = 0 /\ rejected[k]
        \/ f = [status |-> "FAILED", artifact |-> FALSE, run |-> None]
    <2>1. f \in UNION {IF applied[k] > 0
                         THEN {[status |-> "COMMITTED", artifact |-> TRUE, run |-> ProviderRun]}
                         ELSE {},
                       IF applied[k] = 0 /\ rejected[k]
                         THEN {[status |-> "FAILED", artifact |-> TRUE, run |-> ProviderRun]}
                         ELSE {},
                       IF applied[k] = 0 /\ ~rejected[k]
                         THEN {[status |-> "FAILED", artifact |-> FALSE, run |-> None]}
                         ELSE {}}
      BY DEF ResolverFinds
    <2> QED BY <2>1, Zenon
  <1>2. ProofOf(k, f.status, f.artifact) \in Proofs
    BY DEF ProofOf, Proofs
  <1>3. f.run \in Runs \cup {None} /\ f.status \in Terminal
    BY <1>1, ProviderConstants DEF Terminal
  <1>4. rc \in Receipts /\ rc.status = f.status /\ rc.proof = ProofOf(k, f.status, f.artifact)
    BY <1>2, <1>3 DEF Receipts
  <1>5. rc.status = "COMMITTED" => applied[k] = 1
    <2>1. f.status = "COMMITTED" => applied[k] > 0
      BY <1>1
    <2> QED BY <1>4, <2>1 DEF KeyInv
  <1>6. rc.status = "FAILED" => Dead(k) \/ ~ValidateTerminalTransition(k, rc)
    <2>1. CASE applied[k] = 0 /\ rejected[k]
      BY <2>1, RefusedIsDead
    <2>2. CASE f.artifact = FALSE
      <3>1. k \notin CriticalKeys
        BY <2>2 DEF Attestable
      <3>2. rc.proof = "NONE"
        BY <1>4, <2>2, <3>1 DEF ProofOf
      <3> HIDE DEF rc
      <3> QED BY <3>1, <3>2 DEF ValidateTerminalTransition
    <2>3. f.status = "FAILED" => (applied[k] = 0 /\ rejected[k]) \/ f.artifact = FALSE
      BY <1>1
    <2> QED BY <1>4, <2>1, <2>2, <2>3
  <1> QED BY <1>4, <1>5, <1>6 DEF DecisionTrue

\* The lookup of the resolver.
LEMMA ResolveMove ==
    ASSUME FabricInv, NEW w \in Owners, Resolve(w)
    PROVE  WorkerMove(w)
  <1> DEFINE x == work[w]
             k == x.job.key
  <1>1. /\ x.pc = "resolve" /\ UNCHANGED worldVars /\ UNCHANGED storeVars
        /\ lookups' = [lookups EXCEPT ![k] = @ + 1]
    BY DEF Resolve, WAt, WorldStill
  <1>2. x \in Worker /\ x.job \in Jobs /\ x.job # None /\ k \in Keys /\ x.job.locator \in BOOLEAN
    BY <1>1, WorkerKnows DEF WithJob, Jobs
  <1>3. KeyInv(k) /\ applied[k] \in Nat /\ stray[k] \in Nat /\ faults' \in Nat
    BY <1>2 DEF FabricInv, DispatchInv, WorldTypeOK, Resolve, NoFault
  <1>4. [StoreNext]_storeVars /\ WritesTruly
    BY <1>1, NoneSettledTruly
  <1>5. ASSUME NEW y \in Worker, work' = [work EXCEPT ![w] = y], y.pc \in {"commit", "release"},
               y.todo = x.todo, y.job = x.job,
               y.pc = "commit" => DecisionTrue(k, y.receipt)
        PROVE  WorkerMove(w)
    <2>1. work'[w] = y
      BY <1>5 DEF FabricInv
    <2>2. LooksUp(x, y)
      BY <1>1, <1>5 DEF LooksUp
    <2> QED BY <1>1, <1>2, <1>3, <1>4, <1>5, <2>1, <2>2 DEF WorkerMove
  <1>6. ASSUME NEW f \in ResolverFinds(k, x.job.locator), NEW c \in Captures,
               Attestable(k, f.artifact),
               work' = [work EXCEPT ![w] = [x EXCEPT !.pc = "commit",
                   !.receipt = [status |-> f.status, capture |-> c, run |-> f.run,
                                proof |-> ProofOf(k, f.status, f.artifact)]]]
        PROVE  WorkerMove(w)
    <2> DEFINE rc == [status |-> f.status, capture |-> c, run |-> f.run,
                      proof |-> ProofOf(k, f.status, f.artifact)]
               y  == [x EXCEPT !.pc = "commit", !.receipt = rc]
    <2>1. DecisionTrue(k, rc)
      BY <1>2, <1>3, <1>6, FindingTrue
    <2>2. work' = [work EXCEPT ![w] = y]
      BY <1>6
    <2> HIDE DEF rc
    <2>3. rc \in Receipts
      BY <2>1 DEF DecisionTrue
    <2>4. y \in Worker /\ y.pc = "commit" /\ y.todo = x.todo /\ y.job = x.job /\ y.receipt = rc
      BY <1>2, <2>3 DEF Worker, WorkerPCs
    <2> HIDE DEF y
    <2> QED BY <1>5, <2>1, <2>2, <2>4
  <1>7. CASE work' = [work EXCEPT ![w].pc = "release"]
    <2> DEFINE y == [x EXCEPT !.pc = "release"]
    <2>1. y \in Worker /\ y.pc = "release" /\ y.todo = x.todo /\ y.job = x.job
      BY <1>2 DEF Worker, WorkerPCs
    <2>2. work' = [work EXCEPT ![w] = y]
      BY <1>7
    <2> HIDE DEF y
    <2> QED BY <1>5, <2>1, <2>2
  <1> QED BY <1>6, <1>7 DEF Resolve

\* Every action of a worker.
LEMMA WorkerMoves ==
    ASSUME FabricInv, NEW w \in Owners, WorkerStep(w)
    PROVE  WorkerMove(w)
  BY ClaimsMove, EndsMove, BatchMove, PreDispatchMove, ReleaseMove, CommitMove, ResolveMove
     DEF WorkerStep, WorkerCycle

-------------------------------------------------------------------------------
(* What the workers know stays true.                                       *)

\* Versions and attempts only grow.
VersionStep(old, new) ==
    /\ old.version \in Nat /\ new.version \in Nat /\ old.attempt \in Nat /\ new.attempt \in Nat
    /\ new.version >= old.version /\ new.attempt >= old.attempt
    /\ new.version = old.version => new.attempt = old.attempt

\* Every step of the store is such a step of every row.
LEMMA VersionsGrow ==
    ASSUME RowsInv, [StoreNext]_storeVars, NEW k \in Keys
    PROVE  VersionStep(rows[k], rows'[k])
  <1>1. rows[k] \in Row /\ rows'[k] \in Row
    BY TypeStep DEF RowsInv, TypeOK
  <1>2. RowStep(rows[k], rows'[k], nextToken)
    BY StoreKept DEF RowsKept, Keeps
  <1> QED BY <1>1, <1>2 DEF RowStep, VersionStep, Row

\* A copy of a row stays one, and is current only if it was.
LEMMA CopyKept ==
    ASSUME NEW j \in Jobs, NEW old, NEW new, VersionStep(old, new), JobOK(j, old)
    PROVE  JobOK(j, new) /\ (j.ver = new.version => j.ver = old.version)
  BY StoreConstants DEF VersionStep, JobOK, Jobs

\* Everything a worker holds is a job.
LEMMA HeldAreJobs ==
    ASSUME NEW x \in Worker
    PROVE  HeldBy(x) \subseteq Jobs
  BY DEF Worker, HeldBy

\* A worker that did nothing still knows what it knew.
LEMMA OtherWorkerKept ==
    ASSUME NEW w \in Owners, WorkerOK(w), work'[w] = work[w], Lasting,
           \A k \in Keys : VersionStep(rows[k], rows'[k])
    PROVE  WorkerOK(w)'
  <1> DEFINE x == work[w]
  <1>1. x \in Worker /\ HeldBy(x) \subseteq Jobs
    BY HeldAreJobs DEF WorkerOK
  <1>2. \A j \in HeldBy(x) : JobOK(j, rows'[j.key])
    <2> SUFFICES ASSUME NEW j \in HeldBy(x) PROVE JobOK(j, rows'[j.key])
      OBVIOUS
    <2>1. j \in Jobs /\ j.key \in Keys /\ JobOK(j, rows[j.key])
      BY <1>1 DEF Jobs, WorkerOK
    <2> QED BY <2>1, CopyKept
  <1>3. \A k \in Keys : x.pc = "commit" /\ x.job.key = k => DecisionTrue(k, work[w].receipt)'
    BY DEF WorkerOK, DecisionTrue, Lasting
  <1> QED BY <1>1, <1>2, <1>3 DEF WorkerOK

\* A worker that claims nothing holds no more than before.
LEMMA HoldsLess ==
    ASSUME NEW x \in Worker, NEW y, Drops(x, y) \/ Renews(x, y) \/ LooksUp(x, y)
    PROVE  HeldBy(y) \subseteq HeldBy(x) /\ y.todo \subseteq x.todo
  BY DEF Drops, Renews, LooksUp, HeldBy

\* The batch S as a claim leaves it with a worker.
ClaimedBatch(y, S) ==
    /\ y.todo = JobsOf(S)
    /\ \A k \in S : /\ rows'[k].version = rows[k].version + 1
                    /\ rows'[k].version <= MaxVersion
                    /\ y.pc = "batch" => rows'[k].attempt = rows[k].attempt + 1
    /\ \A k \in Keys \ S : rows'[k] = rows[k]

\* A claim reads the rows it wrote.
LEMMA ClaimedRows ==
    ASSUME TypeOK, NEW w \in Owners, NEW y, Claims(w, y)
    PROVE  /\ y.pc \in {"batch", "crashed"}
           /\ \E S \in SUBSET Keys : ClaimedBatch(y, S)
  <1>1. \A k \in Keys : rows[k] \in Row
    BY DEF TypeOK
  <1>2. ASSUME NEW r \in Row, r.version < MaxVersion
        PROVE  /\ Claimed(r, w).version = r.version + 1
               /\ [Claimed(r, w) EXCEPT !.attempt = @ + 1].version = r.version + 1
               /\ [Claimed(r, w) EXCEPT !.attempt = @ + 1].attempt = r.attempt + 1
               /\ r.version + 1 <= MaxVersion
    BY <1>2, StoreConstants DEF Row, Claimed, Bumped
  <1>3. CASE /\ y.pc = "batch" /\ y.todo = JobsOf(UnknownClaimable)
             /\ ClaimUnknownBatch(epoch, w, UnknownClaimable)
    <2> DEFINE S == UnknownClaimable
    <2>1. S \in SUBSET Keys /\ \A k \in S : rows[k].version < MaxVersion
      BY DEF UnknownClaimable
    <2>2. /\ \A k \in S : rows'[k] = [Claimed(rows[k], w) EXCEPT !.attempt = @ + 1]
          /\ \A k \in Keys \ S : rows'[k] = rows[k]
      BY <1>3, <2>1 DEF ClaimUnknownBatch
    <2> HIDE DEF S
    <2>3. y.todo = JobsOf(S)
      BY <1>3 DEF S
    <2>4. ASSUME NEW k \in S
          PROVE  /\ rows'[k].version = rows[k].version + 1
                 /\ rows'[k].version <= MaxVersion
                 /\ rows'[k].attempt = rows[k].attempt + 1
      <3>1. rows[k] \in Row /\ rows[k].version < MaxVersion
        BY <1>1, <2>1
      <3>2. rows'[k] = [Claimed(rows[k], w) EXCEPT !.attempt = @ + 1]
        BY <2>2
      <3> QED BY <1>2, <3>1, <3>2
    <2>5. ClaimedBatch(y, S)
      BY <2>2, <2>3, <2>4 DEF ClaimedBatch
    <2> QED BY <1>3, <2>1, <2>5
  <1>4. CASE /\ y.pc = "crashed" /\ y.todo = JobsOf(ExpiredClaimable)
             /\ ClaimExpiredBatch(epoch, w, ExpiredClaimable)
    <2> DEFINE S == ExpiredClaimable
    <2>1. S \in SUBSET Keys /\ \A k \in S : rows[k].version < MaxVersion
      BY DEF ExpiredClaimable
    <2>2. /\ \A k \in S : rows'[k] = Claimed(rows[k], w)
          /\ \A k \in Keys \ S : rows'[k] = rows[k]
      BY <1>4, <2>1 DEF ClaimExpiredBatch
    <2> HIDE DEF S
    <2>3. y.todo = JobsOf(S)
      BY <1>4 DEF S
    <2>4. ClaimedBatch(y, S)
      BY <1>1, <1>2, <1>4, <2>1, <2>2, <2>3 DEF ClaimedBatch
    <2> QED BY <1>4, <2>1, <2>4
  <1> QED BY <1>3, <1>4 DEF Claims

\* The worker that moved knows what it holds.
LEMMA MovedWorkerKept ==
    ASSUME FabricInv, NEW w \in Owners, WorkerMove(w), Lasting,
           \A k \in Keys : VersionStep(rows[k], rows'[k])
    PROVE  WorkerOK(w)'
  <1> DEFINE x == work[w]
             y == work'[w]
  <1>1. x \in Worker /\ y \in Worker /\ WorkerOK(w) /\ TypeOK
    BY DEF WorkerMove, FabricInv, DispatchInv, RowsInv
  <1>2. HeldBy(x) \subseteq Jobs /\ HeldBy(y) \subseteq Jobs
    BY <1>1, HeldAreJobs
  <1>3. \A j \in HeldBy(x) : JobOK(j, rows'[j.key])
    <2> SUFFICES ASSUME NEW j \in HeldBy(x) PROVE JobOK(j, rows'[j.key])
      OBVIOUS
    <2>1. j \in Jobs /\ j.key \in Keys /\ JobOK(j, rows[j.key])
      BY <1>1, <1>2 DEF Jobs, WorkerOK
    <2> QED BY <2>1, CopyKept
  <1>4. CASE Drops(x, y) \/ Renews(x, y) \/ LooksUp(x, y)
    <2>1. HeldBy(y) \subseteq HeldBy(x) /\ y.todo \subseteq x.todo
      BY <1>1, <1>4, HoldsLess
    <2>2. \A j \in HeldBy(y) : JobOK(j, rows'[j.key])
      BY <1>3, <2>1
    <2>3. \A i, j \in y.todo : i.key = j.key => i = j
      BY <1>1, <2>1 DEF WorkerOK
    <2>4. y.pc = "commit" => DecisionTrue(y.job.key, y.receipt)
      BY <1>4 DEF Drops, Renews, LooksUp
    <2>5. \A k \in Keys : y.pc = "commit" /\ y.job.key = k => DecisionTrue(k, y.receipt)
      BY <2>4
    <2>6. \A k \in Keys : y.pc = "commit" /\ y.job.key = k => DecisionTrue(k, work[w].receipt)'
      BY <2>5 DEF DecisionTrue, Lasting
    <2> QED BY <1>1, <2>2, <2>3, <2>6 DEF WorkerMove, WorkerOK
  <1>5. CASE Claims(w, y)
    <2>1. PICK S \in SUBSET Keys : ClaimedBatch(y, S)
      BY <1>1, <1>5, ClaimedRows
    <2>2. y.pc # "commit" /\ HeldBy(y) \subseteq y.todo \cup HeldBy(x)
      BY <1>1, <1>5, ClaimedRows DEF Claims
    <2>3. ASSUME NEW j \in y.todo PROVE JobOK(j, rows'[j.key])
      <3>1. PICK k \in S : j = [key |-> k, ver |-> rows'[k].version, att |-> rows'[k].attempt,
                                state |-> rows'[k].state, locator |-> rows'[k].locator]
        BY <2>1, <2>3 DEF JobsOf, ClaimedBatch
      <3>2. j.key = k /\ j.ver = rows'[k].version /\ j.att = rows'[k].attempt
        BY <3>1
      <3>3. VersionStep(rows[k], rows'[k])
        BY <2>1
      <3>4. rows'[k].version <= MaxVersion
        BY <2>1 DEF ClaimedBatch
      <3> QED BY <3>2, <3>3, <3>4 DEF JobOK, VersionStep
    <2>4. \A j \in HeldBy(y) : JobOK(j, rows'[j.key])
      BY <1>3, <2>2, <2>3
    <2>5. \A i, j \in y.todo : i.key = j.key => i = j
      BY <2>1 DEF JobsOf, ClaimedBatch
    <2> QED BY <1>1, <2>2, <2>4, <2>5 DEF WorkerMove, WorkerOK
  <1> QED BY <1>4, <1>5 DEF WorkerMove

-------------------------------------------------------------------------------
(* One claim holder per row.                                               *)

\* A copy that is current now and was held before was current before.
LEMMA HeldBefore ==
    ASSUME FabricInv, NEW u \in Owners, NEW k \in Keys, VersionStep(rows[k], rows'[k]),
           Holds(work[u], k, rows'[k].version)
    PROVE  Holds(work[u], k, rows[k].version) /\ rows'[k].version = rows[k].version
  <1>1. WorkerOK(u) /\ HeldBy(work[u]) \subseteq Jobs
    BY HeldAreJobs DEF FabricInv, WorkerOK
  <1>2. PICK j \in HeldBy(work[u]) : j.key = k /\ j.ver = rows'[k].version
    BY DEF Holds
  <1>3. j \in Jobs /\ JobOK(j, rows[k])
    BY <1>1, <1>2 DEF WorkerOK
  <1>4. j.ver = rows[k].version
    BY <1>2, <1>3, CopyKept
  <1> QED BY <1>2, <1>4 DEF Holds

\* Nobody was handed a copy: the holder is still alone.
LEMMA HolderStays ==
    ASSUME FabricInv, \A k \in Keys : VersionStep(rows[k], rows'[k]),
           \A u \in Owners : HeldBy(work'[u]) \subseteq HeldBy(work[u])
    PROVE  OneHolds'
  <1> SUFFICES ASSUME NEW k \in Keys, NEW v \in Owners, NEW w \in Owners,
                      Holds(work'[v], k, rows'[k].version), Holds(work'[w], k, rows'[k].version)
               PROVE  v = w
    BY DEF OneHolds
  <1>1. Holds(work[v], k, rows'[k].version) /\ Holds(work[w], k, rows'[k].version)
    BY DEF Holds
  <1>2. Holds(work[v], k, rows[k].version) /\ Holds(work[w], k, rows[k].version)
    BY <1>1, HeldBefore
  <1> QED BY <1>2 DEF FabricInv, OneHolds

\* A claim makes every older copy of its rows stale.
LEMMA ClaimerAlone ==
    ASSUME FabricInv, \A k \in Keys : VersionStep(rows[k], rows'[k]),
           NEW c \in Owners, Claims(c, work'[c]), work'[c] \in Worker,
           \A u \in Owners \ {c} : work'[u] = work[u]
    PROVE  OneHolds'
  <1>0. PICK S \in SUBSET Keys : ClaimedBatch(work'[c], S)
    BY ClaimedRows DEF FabricInv, DispatchInv, RowsInv
  <1>1. ASSUME NEW k \in S, NEW u \in Owners, u # c PROVE ~Holds(work'[u], k, rows'[k].version)
    <2>1. VersionStep(rows[k], rows'[k]) /\ rows'[k].version = rows[k].version + 1
      BY <1>0, <1>1 DEF ClaimedBatch
    <2>2. rows'[k].version # rows[k].version
      BY <2>1 DEF VersionStep
    <2>3. work'[u] = work[u] /\ k \in Keys
      BY <1>0, <1>1
    <2> QED BY <2>1, <2>2, <2>3, HeldBefore
  <1>2. ASSUME NEW k \in Keys \ S, Holds(work'[c], k, rows'[k].version)
        PROVE  Holds(work[c], k, rows[k].version)
    <2>1. rows'[k] = rows[k]
      BY <1>0, <1>2 DEF ClaimedBatch
    <2>2. \A j \in work'[c].todo : j.key \in S
      BY <1>0 DEF ClaimedBatch, JobsOf
    <2>3. HeldBy(work'[c]) \subseteq work'[c].todo \cup HeldBy(work[c])
      BY DEF Claims
    <2> QED BY <1>2, <2>1, <2>2, <2>3 DEF Holds
  <1> SUFFICES ASSUME NEW k \in Keys, NEW v \in Owners, NEW w \in Owners,
                      Holds(work'[v], k, rows'[k].version), Holds(work'[w], k, rows'[k].version)
               PROVE  v = w
    BY DEF OneHolds
  <1>3. CASE k \in S
    BY <1>1, <1>3
  <1>4. CASE k \notin S
    <2>1. ASSUME NEW u \in Owners, Holds(work'[u], k, rows'[k].version)
          PROVE  Holds(work[u], k, rows[k].version)
      <3>1. CASE u = c
        BY <1>2, <1>4, <2>1, <3>1
      <3>2. CASE u # c
        BY <2>1, <3>2, HeldBefore
      <3> QED BY <3>1, <3>2
    <2> QED BY <2>1 DEF FabricInv, OneHolds
  <1> QED BY <1>3, <1>4

-------------------------------------------------------------------------------
(* Lookups are paid for.                                                   *)

\* A step that looks nothing up and starts no lookup stays within its means,
\* if what it makes wait was paid for by a claim.
LEMMA BudgetKept ==
    ASSUME NEW k \in Keys, Budget(k), lookups \in [Keys -> Nat], lookups'[k] = lookups[k],
           VersionStep(rows[k], rows'[k]), Resolving(k)' \subseteq Resolving(k),
           Awaited(k)' => Awaited(k) \/ rows'[k].attempt = rows[k].attempt + 1
    PROVE  Budget(k)'
  <1> DEFINE m == Cardinality(Resolving(k))
             n == Cardinality(Resolving(k)')
  <1>1. IsFiniteSet(Resolving(k))
    BY DEF Budget
  <1>2. IsFiniteSet(Resolving(k)') /\ n <= m /\ m \in Nat /\ n \in Nat
    BY <1>1, FS_Subset, FS_CardinalityType
  <1>3. Spent(k) = lookups[k] + m /\ Spent(k)' = lookups[k] + n
    BY DEF Spent
  <1> HIDE DEF m, n
  <1>4. Spent(k) \in Nat /\ Spent(k)' \in Nat /\ Spent(k)' <= Spent(k)
    BY <1>2, <1>3
  <1>5. CASE Awaited(k)'
    BY <1>2, <1>4, <1>5, WorkerConstants DEF Budget, VersionStep
  <1>6. CASE ~Awaited(k)'
    <2>1. Spent(k) <= rows[k].attempt
      BY <1>4 DEF Budget, VersionStep
    <2> QED BY <1>2, <1>4, <1>6, <2>1, WorkerConstants DEF Budget, VersionStep
  <1> QED BY <1>5, <1>6

\* A lookup that waits now, for a job held before, waited before.
LEMMA AwaitedBefore ==
    ASSUME FabricInv, NEW u \in Owners, NEW k \in Keys, VersionStep(rows[k], rows'[k]),
           Awaits(work[u], k, rows'[k].version)
    PROVE  Awaits(work[u], k, rows[k].version)
  <1>1. Holds(work[u], k, rows'[k].version)
    BY DEF Awaits, Holds, HeldBy
  <1>2. rows'[k].version = rows[k].version
    BY <1>1, HeldBefore
  <1> QED BY <1>2

\* A step in which no worker is handed anything.
LEMMA BudgetQuiet ==
    ASSUME FabricInv, NEW k \in Keys, VersionStep(rows[k], rows'[k]), UNCHANGED lookups,
           \A u \in Owners : work'[u] = work[u] \/ Drops(work[u], work'[u])
    PROVE  Budget(k)'
  <1>1. Resolving(k)' \subseteq Resolving(k)
    BY DEF Resolving, Drops
  <1>2. Awaited(k)' => Awaited(k)
    <2> SUFFICES ASSUME NEW u \in Owners, Awaits(work'[u], k, rows'[k].version)
                 PROVE  Awaits(work[u], k, rows[k].version)
      BY DEF Awaited
    <2>1. Awaits(work[u], k, rows'[k].version)
      BY DEF Awaits, Drops
    <2> QED BY <2>1, AwaitedBefore
  <1>3. Budget(k) /\ lookups \in [Keys -> Nat] /\ lookups'[k] = lookups[k]
    BY DEF FabricInv
  <1> QED BY <1>1, <1>2, <1>3, BudgetKept

\* A claim pays for the lookups of its batch.
LEMMA BudgetClaims ==
    ASSUME FabricInv, NEW k \in Keys, VersionStep(rows[k], rows'[k]), UNCHANGED lookups,
           NEW c \in Owners, Claims(c, work'[c]), \A u \in Owners \ {c} : work'[u] = work[u]
    PROVE  Budget(k)'
  <1>0. PICK S \in SUBSET Keys : ClaimedBatch(work'[c], S)
    BY ClaimedRows DEF FabricInv, DispatchInv, RowsInv
  <1>1. work'[c].pc \in {"batch", "crashed"}
    BY ClaimedRows DEF FabricInv, DispatchInv, RowsInv
  <1>2. Resolving(k)' \subseteq Resolving(k)
    BY <1>1 DEF Resolving
  <1>3. ASSUME NEW u \in Owners, Awaits(work'[u], k, rows'[k].version)
        PROVE  Awaited(k) \/ rows'[k].attempt = rows[k].attempt + 1
    <2>1. CASE u = c
      <3>1. work'[c].pc = "batch" /\ \E j \in JobsOf(S) : j.key = k
        BY <1>0, <1>1, <1>3, <2>1 DEF Awaits, Batching, ClaimedBatch
      <3>2. k \in S
        BY <3>1 DEF JobsOf
      <3> QED BY <1>0, <3>1, <3>2 DEF ClaimedBatch
    <2>2. CASE u # c
      <3>1. Awaits(work[u], k, rows[k].version)
        BY <1>3, <2>2, AwaitedBefore
      <3> QED BY <3>1 DEF Awaited
    <2> QED BY <2>1, <2>2
  <1>4. Awaited(k)' => Awaited(k) \/ rows'[k].attempt = rows[k].attempt + 1
    BY <1>3 DEF Awaited
  <1>5. Budget(k) /\ lookups \in [Keys -> Nat] /\ lookups'[k] = lookups[k]
    BY DEF FabricInv
  <1> QED BY <1>2, <1>4, <1>5, BudgetKept

\* A lookup that starts is the one that was waiting.
LEMMA BudgetRenews ==
    ASSUME FabricInv, NEW k \in Keys, VersionStep(rows[k], rows'[k]), UNCHANGED rows,
           UNCHANGED lookups, NEW c \in Owners, Renews(work[c], work'[c]),
           \A u \in Owners \ {c} : work'[u] = work[u]
    PROVE  Budget(k)'
  <1> DEFINE x == work[c]
             y == work'[c]
  <1>0. /\ WorkerOK(c) /\ Budget(k) /\ lookups \in [Keys -> Nat] /\ lookups'[k] = lookups[k]
        /\ x \in Worker
    BY DEF FabricInv
  <1>1. PICK j \in x.todo : /\ x.pc = "batch" /\ y.pc = "resolve" /\ y.todo = x.todo \ {j}
                            /\ y.job = j /\ j.ver = rows[j.key].version
                            /\ MaxAttempts > 0 => j.att <= MaxAttempts
    BY DEF Renews
  <1>2. CASE k # j.key
    <2>1. Resolving(k)' \subseteq Resolving(k)
      BY <1>1, <1>2 DEF Resolving
    <2>2. Awaited(k)' => Awaited(k)
      BY <1>1 DEF Awaited, Awaits, Batching
    <2> QED BY <1>0, <2>1, <2>2, BudgetKept
  <1>3. CASE k = j.key
    <2>1. Awaits(x, k, rows[k].version) /\ Holds(x, k, rows[k].version)
      BY <1>1, <1>3 DEF Awaits, Batching, Holds, HeldBy
    <2>2. Awaited(k)
      BY <2>1 DEF Awaited
    <2>3. ~Awaited(k)'
      <3> SUFFICES ASSUME NEW u \in Owners, Awaits(work'[u], k, rows[k].version) PROVE FALSE
        BY DEF Awaited
      <3>1. CASE u = c
        <4>1. \E i \in x.todo \ {j} : i.key = j.key
          BY <1>1, <1>3, <3>1 DEF Awaits
        <4> QED BY <1>0, <4>1 DEF WorkerOK
      <3>2. CASE u # c
        <4>1. Holds(work[u], k, rows[k].version)
          BY <3>2 DEF Awaits, Holds, HeldBy
        <4> QED BY <2>1, <3>2, <4>1 DEF FabricInv, OneHolds
      <3> QED BY <3>1, <3>2
    <2>4. Resolving(k)' = Resolving(k) \cup {c} /\ c \notin Resolving(k)
      BY <1>1, <1>3 DEF Resolving
    <2>5. IsFiniteSet(Resolving(k)) /\ Cardinality(Resolving(k)) \in Nat
      BY <1>0, FS_CardinalityType DEF Budget
    <2>6. /\ IsFiniteSet(Resolving(k)')
          /\ Cardinality(Resolving(k)') = Cardinality(Resolving(k)) + 1
      BY <2>4, <2>5, FS_AddElement
    <2>7. Spent(k) \in Nat /\ Spent(k)' = Spent(k) + 1
      BY <1>0, <2>5, <2>6 DEF Spent
    <2>8. Spent(k) + 1 <= rows[k].attempt
      BY <1>0, <2>2 DEF Budget
    <2>9. j.att = rows[k].attempt
      BY <1>0, <1>1, <1>3 DEF WorkerOK, JobOK, HeldBy
    <2>10. MaxAttempts > 0 => Spent(k) + 1 <= MaxAttempts
      BY <1>1, <2>7, <2>8, <2>9, WorkerConstants DEF VersionStep
    <2> QED BY <2>3, <2>6, <2>7, <2>8, <2>10 DEF Budget
  <1> QED BY <1>2, <1>3

\* A lookup that is made is no longer about to be.
LEMMA BudgetLooksUp ==
    ASSUME FabricInv, NEW k \in Keys, VersionStep(rows[k], rows'[k]), UNCHANGED rows,
           NEW c \in Owners, LooksUp(work[c], work'[c]), work[c].job.key \in Keys,
           lookups' = [lookups EXCEPT ![work[c].job.key] = @ + 1],
           \A u \in Owners \ {c} : work'[u] = work[u]
    PROVE  Budget(k)'
  <1> DEFINE x == work[c]
             y == work'[c]
  <1>0. Budget(k) /\ lookups \in [Keys -> Nat]
    BY DEF FabricInv
  <1>1. x.pc = "resolve" /\ y.pc \in {"commit", "release"} /\ y.todo = x.todo
    BY DEF LooksUp
  <1>2. Awaited(k)' <=> Awaited(k)
    BY <1>1 DEF Awaited, Awaits, Batching
  <1>3. CASE k # x.job.key
    <2>1. Resolving(k)' \subseteq Resolving(k) /\ lookups'[k] = lookups[k]
      BY <1>0, <1>1, <1>3 DEF Resolving
    <2> QED BY <1>0, <1>2, <2>1, BudgetKept
  <1>4. CASE k = x.job.key
    <2>1. Resolving(k)' = Resolving(k) \ {c} /\ c \in Resolving(k)
      BY <1>1, <1>4 DEF Resolving
    <2>2. IsFiniteSet(Resolving(k)) /\ Cardinality(Resolving(k)) \in Nat
      BY <1>0, FS_CardinalityType DEF Budget
    <2>3. /\ IsFiniteSet(Resolving(k)')
          /\ Cardinality(Resolving(k)') = Cardinality(Resolving(k)) - 1
      BY <2>1, <2>2, FS_RemoveElement
    <2>4. lookups'[k] = lookups[k] + 1 /\ lookups[k] \in Nat
      BY <1>0, <1>4
    <2>5. Spent(k)' = Spent(k)
      BY <2>2, <2>3, <2>4 DEF Spent
    <2> QED BY <1>0, <1>2, <2>3, <2>5 DEF Budget
  <1> QED BY <1>3, <1>4

-------------------------------------------------------------------------------
(* The invariant of the fabric.                                            *)

\* A step of somebody else leaves the workers what they know.
LEMMA WorkersUndisturbed ==
    ASSUME FabricInv, DispatchInv', Lasting, [StoreNext]_storeVars, UNCHANGED workVars
    PROVE  FabricInv'
  <1>1. work' = work /\ lookups' = lookups
    BY DEF workVars
  <1>2. \A k \in Keys : VersionStep(rows[k], rows'[k])
    BY VersionsGrow DEF FabricInv, DispatchInv
  <1>3. \A w \in Owners : WorkerOK(w)'
    BY <1>1, <1>2, OtherWorkerKept DEF FabricInv
  <1>4. OneHolds'
    BY <1>1, <1>2, HolderStays
  <1>5. \A k \in Keys : Budget(k)'
    BY <1>1, <1>2, BudgetQuiet
  <1> QED BY <1>1, <1>3, <1>4, <1>5 DEF FabricInv

\* A step of a worker keeps the invariant.
LEMMA WorkerKept ==
    ASSUME FabricInv, NEW w \in Owners, WorkerStep(w), UNCHANGED exec
    PROVE  FabricInv' /\ [StoreNext]_storeVars
  <1>0. WorkerMove(w)
    BY WorkerMoves
  <1>1. DispatchInv /\ [StoreNext]_storeVars /\ UNCHANGED worldVars /\ faults' \in Nat
    BY <1>0 DEF FabricInv, WorkerMove
  <1>2. DispatchInv' /\ Lasting
    <2>1. \A k \in Keys : /\ rows'[k].state = "COMMITTED" =>
                                rows[k].state = "COMMITTED" \/ applied[k] = 1
                          /\ rows'[k].state = "FAILED" => rows[k].state = "FAILED" \/ Dead(k)
      BY <1>0 DEF WorkerMove, WritesTruly
    <2> QED BY <1>1, <2>1, LedgerStepKept
  <1>3. \A k \in Keys : VersionStep(rows[k], rows'[k])
    BY <1>1, VersionsGrow DEF DispatchInv
  <1>4. /\ work' \in [Owners -> Worker] /\ work'[w] \in Worker
        /\ \A u \in Owners \ {w} : work'[u] = work[u]
    BY <1>0 DEF WorkerMove, FabricInv
  <1>5. \A u \in Owners : WorkerOK(u)'
    BY <1>0, <1>2, <1>3, <1>4, OtherWorkerKept, MovedWorkerKept DEF FabricInv
  <1>6. work[w] \in Worker /\ lookups \in [Keys -> Nat]
    BY DEF FabricInv
  <1>7. CASE Drops(work[w], work'[w]) /\ UNCHANGED lookups
    <2>1. HeldBy(work'[w]) \subseteq HeldBy(work[w])
      BY <1>7 DEF Drops
    <2>2. OneHolds'
      BY <1>3, <1>4, <2>1, HolderStays
    <2>3. \A k \in Keys : Budget(k)'
      BY <1>3, <1>4, <1>7, BudgetQuiet
    <2> QED BY <1>1, <1>2, <1>4, <1>5, <1>6, <1>7, <2>2, <2>3 DEF FabricInv
  <1>8. CASE Renews(work[w], work'[w]) /\ UNCHANGED lookups /\ UNCHANGED storeVars
    <2>1. HeldBy(work'[w]) \subseteq HeldBy(work[w])
      BY <1>6, <1>8, HoldsLess
    <2>2. OneHolds'
      BY <1>3, <1>4, <2>1, HolderStays
    <2>3. UNCHANGED rows
      BY <1>8 DEF storeVars
    <2>4. \A k \in Keys : Budget(k)'
      BY <1>3, <1>4, <1>8, <2>3, BudgetRenews
    <2> QED BY <1>1, <1>2, <1>4, <1>5, <1>6, <1>8, <2>2, <2>4 DEF FabricInv
  <1>9. CASE /\ LooksUp(work[w], work'[w]) /\ UNCHANGED storeVars
             /\ lookups' = [lookups EXCEPT ![work[w].job.key] = @ + 1]
    <2>1. HeldBy(work'[w]) \subseteq HeldBy(work[w])
      BY <1>6, <1>9, HoldsLess
    <2>2. OneHolds'
      BY <1>3, <1>4, <2>1, HolderStays
    <2>3. UNCHANGED rows /\ work[w].job.key \in Keys
      BY <1>9, WorkerKnows DEF storeVars, LooksUp, WithJob
    <2>4. \A k \in Keys : Budget(k)'
      BY <1>3, <1>4, <1>9, <2>3, BudgetLooksUp
    <2>5. lookups' \in [Keys -> Nat]
      BY <1>6, <1>9, <2>3
    <2> QED BY <1>1, <1>2, <1>4, <1>5, <2>2, <2>4, <2>5 DEF FabricInv
  <1>10. CASE Claims(w, work'[w]) /\ UNCHANGED lookups
    <2>1. OneHolds'
      BY <1>3, <1>4, <1>10, ClaimerAlone
    <2>2. \A k \in Keys : Budget(k)'
      BY <1>3, <1>4, <1>10, BudgetClaims
    <2> QED BY <1>1, <1>2, <1>4, <1>5, <1>6, <1>10, <2>1, <2>2 DEF FabricInv
  <1> QED BY <1>0, <1>7, <1>8, <1>9, <1>10 DEF WorkerMove

\* The operator and the clock settle nothing.
LEMMA TimeKept ==
    ASSUME FabricInv, OperatorStep \/ ClockStep, UNCHANGED Everyone
    PROVE  FabricInv' /\ [StoreNext]_storeVars
  <1>1. UNCHANGED worldVars /\ UNCHANGED exec /\ UNCHANGED workVars /\ faults' = faults
    BY DEF Everyone, worldVars, workVars
  <1>2. DispatchInv /\ TypeOK /\ faults' \in Nat
    BY <1>1 DEF FabricInv, DispatchInv, RowsInv, WorldTypeOK
  <1>3. StoreNext
    BY DEF StoreNext
  <1>4. \A k \in Keys : rows'[k].state = rows[k].state
    <2>1. CASE OperatorStep
      BY <2>1 DEF OperatorStep, AdvanceClusterEpoch, CompleteClusterRecovery
    <2>2. ASSUME NEW k \in Keys, LeaseExpires(k) \/ ClaimExpires(k) \/ BackoffElapses(k)
          PROVE  \A j \in Keys : rows'[j].state = rows[j].state
      <3>1. rows[k] \in Row /\ rows \in [Keys -> Row]
        BY <1>2 DEF TypeOK
      <3>2. /\ [rows[k] EXCEPT !.lease = "EXPIRED"].state = rows[k].state
            /\ [rows[k] EXCEPT !.claim = "EXPIRED"].state = rows[k].state
            /\ [rows[k] EXCEPT !.due = "NOW"].state = rows[k].state
        BY <3>1 DEF Row
      <3> QED BY <2>2, <3>1, <3>2 DEF LeaseExpires, ClaimExpires, BackoffElapses, PutRow
    <2> QED BY <2>1, <2>2 DEF ClockStep
  <1>5. DispatchInv' /\ Lasting
    BY <1>1, <1>2, <1>3, <1>4, LedgerStepKept
  <1> QED BY <1>1, <1>3, <1>5, WorkersUndisturbed

\* Every step of the fabric keeps the invariant, and is a step of the ledger.
LEMMA FabricKept ==
    ASSUME FabricInv, [FabricNext]_fabricVars
    PROVE  FabricInv' /\ [StoreNext]_storeVars
  <1>0. DispatchInv
    BY DEF FabricInv
  <1>1. ASSUME NEW e \in Executors, ExecutorStep(e), UNCHANGED workVars
        PROVE  FabricInv' /\ [StoreNext]_storeVars
    BY <1>0, <1>1, ExecutorKept, ExecutorUsesStore, WorkersUndisturbed
  <1>2. ASSUME NEW w \in Owners, WorkerStep(w), UNCHANGED exec
        PROVE  FabricInv' /\ [StoreNext]_storeVars
    BY <1>2, WorkerKept
  <1>3. ASSUME NEW k \in Keys, StrayLands(k), UNCHANGED <<exec, workVars>>
        PROVE  FabricInv' /\ [StoreNext]_storeVars
    <2>1. UNCHANGED storeVars /\ UNCHANGED exec /\ UNCHANGED workVars
      BY <1>3 DEF StrayLands, storeVars, workVars
    <2> QED BY <1>0, <1>3, <2>1, StrayKept, WorkersUndisturbed
  <1>4. CASE (OperatorStep \/ ClockStep) /\ UNCHANGED Everyone
    BY <1>4, TimeKept
  <1>5. CASE UNCHANGED fabricVars
    <2>1. /\ UNCHANGED storeVars /\ UNCHANGED worldVars /\ UNCHANGED exec /\ UNCHANGED workVars
          /\ faults' = faults
      BY <1>5 DEF fabricVars, storeVars, worldVars, workVars
    <2>2. faults' \in Nat /\ \A k \in Keys : rows'[k].state = rows[k].state
      BY <1>0, <2>1 DEF DispatchInv, WorldTypeOK, storeVars
    <2>3. DispatchInv' /\ Lasting
      BY <1>0, <2>1, <2>2, LedgerStepKept
    <2> QED BY <2>1, <2>3, WorkersUndisturbed
  <1> QED BY <1>1, <1>2, <1>3, <1>4, <1>5 DEF FabricNext

\* It holds at first.
LEMMA FabricStarts == FabricInit => FabricInv
  <1> SUFFICES ASSUME FabricInit PROVE FabricInv
    OBVIOUS
  <1>1. DispatchInv
    BY DispatchInit DEF FabricInit
  <1>2. epoch \in Nat
    BY <1>1 DEF DispatchInv, RowsInv, TypeOK
  <1>3. \A w \in Owners : /\ work[w] \in Worker /\ work[w].pc = "idle"
                          /\ work[w].todo = {} /\ work[w].job = None
    BY <1>2, IdleIsWorker DEF FabricInit, WorkerInit
  <1>4. work \in [Owners -> Worker] /\ lookups \in [Keys -> Nat]
    BY <1>3 DEF FabricInit, WorkerInit
  <1>5. \A w \in Owners : HeldBy(work[w]) = {}
    BY <1>3 DEF HeldBy
  <1>6. \A w \in Owners : WorkerOK(w)
    BY <1>3, <1>5 DEF WorkerOK, WithJob
  <1>7. OneHolds
    BY <1>5 DEF OneHolds, Holds
  <1>8. \A k \in Keys : Budget(k)
    <2> SUFFICES ASSUME NEW k \in Keys PROVE Budget(k)
      OBVIOUS
    <2>1. Resolving(k) = {}
      BY <1>3 DEF Resolving
    <2>2. ~Awaited(k)
      BY <1>3 DEF Awaited, Awaits
    <2>3. lookups[k] = 0 /\ rows[k].attempt = 0
      BY DEF FabricInit, WorkerInit, StoreInit, AbsentRow
    <2>4. IsFiniteSet(Resolving(k)) /\ Spent(k) = 0
      BY <2>1, <2>3, FS_EmptySet DEF Spent
    <2> QED BY <2>2, <2>3, <2>4, WorkerConstants DEF Budget
  <1> QED BY <1>1, <1>4, <1>6, <1>7, <1>8 DEF FabricInv

\* OneClaimHolder in these terms.
LEMMA OneHolder == OneHolds => OneClaimHolder
  <1>1. ASSUME NEW k \in Keys, NEW v \in Owners, NEW w \in Owners
        PROVE  (\A x \in {v, w} : \E j \in work[x].todo \cup ({work[x].job} \ {None}) :
                                     j.key = k /\ j.ver = rows[k].version)
               <=> Holds(work[v], k, rows[k].version) /\ Holds(work[w], k, rows[k].version)
    BY DEF Holds, HeldBy
  <1> DEFINE P(k, v, w) ==
               \A x \in {v, w} : \E j \in work[x].todo \cup ({work[x].job} \ {None}) :
                                     j.key = k /\ j.ver = rows[k].version
             Q(k, v, w) == Holds(work[v], k, rows[k].version) /\ Holds(work[w], k, rows[k].version)
  <1>2. \A k \in Keys, v, w \in Owners : P(k, v, w) <=> Q(k, v, w)
    BY <1>1
  <1>3. OneClaimHolder <=> \A k \in Keys, v, w \in Owners : P(k, v, w) => v = w
    BY DEF OneClaimHolder
  <1> HIDE DEF P, Q
  <1>4. OneClaimHolder <=> \A k \in Keys, v, w \in Owners : Q(k, v, w) => v = w
    BY <1>2, <1>3
  <1> QED BY <1>4 DEF Q, OneHolds

-------------------------------------------------------------------------------
(* What the fabric guarantees.                                             *)

\* The workers, the executors, the ledger and the world agree in every
\* reachable state: no decision to settle an effect is ever untrue.
THEOREM FabricAgrees == FabricSpec => []FabricInv
  <1>1. FabricInv /\ [FabricNext]_fabricVars => FabricInv'
    BY FabricKept
  <1> QED BY <1>1, FabricStarts, PTL DEF FabricSpec

\* Every variable of ledger, world, executors and workers keeps its type.
THEOREM FabricTyped == FabricSpec => []FabricTypeOK
  <1>1. FabricInv => FabricTypeOK
    BY DEF FabricInv, DispatchInv, RowsInv, FabricTypeOK, ExecutorTypeOK, WorkerTypeOK
  <1> QED BY <1>1, FabricAgrees, PTL

\* However executors crash, retry and take over, and whatever workers and
\* stray requests do, the external effect of a key happens at most once.
THEOREM OneEffect == FabricSpec => []AtMostOneEffect
  <1>1. FabricInv => AtMostOneEffect
    BY DEF FabricInv, DispatchInv, KeyInv, AtMostOneEffect
  <1> QED BY <1>1, FabricAgrees, PTL

\* invokeDispatchHandler only runs for a row that MarkInFlight has moved past
\* the boundary, with the request whose digest the row was admitted with.
THEOREM DispatchRecorded == FabricSpec => []DispatchIsOnRecord
  <1>1. FabricInv => DispatchIsOnRecord
    <2> SUFFICES ASSUME FabricInv, NEW k \in Keys, asked[k] # {}
                 PROVE  rows[k].state \in PostDispatch /\ asked[k] = {rows[k].digest.req}
      BY DEF DispatchIsOnRecord
    <2>1. KeyInv(k)
      BY DEF FabricInv, DispatchInv
    <2> QED BY <2>1 DEF KeyInv
  <1> QED BY <1>1, FabricAgrees, PTL

\* A COMMITTED row means the effect happened; a FAILED row means that it did
\* not and that no request under way can still make it happen.
THEOREM SettledTruly == FabricSpec => []SettledTruthfully
  <1>1. FabricInv => SettledTruthfully
    <2> SUFFICES ASSUME FabricInv, NEW k \in Keys
                 PROVE  /\ rows[k].state = "COMMITTED" => applied[k] = 1
                        /\ rows[k].state = "FAILED" =>
                              applied[k] = 0 /\ stray[k] = 0 /\ Waiting(k) = {}
      BY DEF SettledTruthfully
    <2>1. KeyInv(k)
      BY DEF FabricInv, DispatchInv
    <2>2. Waiting(k) # {} => Sending(k)
      BY DEF Waiting, Sending, Sends
    <2> QED BY <2>1, <2>2 DEF KeyInv, Dead
  <1> QED BY <1>1, FabricAgrees, PTL

\* ExecuteWithIdempotency answers SUCCEEDED only over a COMMITTED row, and
\* FAILED or DENIED only over a FAILED row or when this call sent nothing.
THEOREM RepliesTrue == FabricSpec => []RepliesTruthful
  <1>1. FabricInv => RepliesTruthful
    BY DEF FabricInv, DispatchInv, HandlerInv, RepliesTruthful
  <1> QED BY <1>1, FabricAgrees, PTL

\* Whatever leases expire and are taken over, no two executors are between
\* MarkInFlight and the reply for one key.
THEOREM DispatchedAlone == FabricSpec => []OneDispatcher
  <1>1. PastBoundary = Beyond
    BY DEF PastBoundary, Beyond, Settling
  <1>2. FabricInv => OneDispatcher
    BY <1>1 DEF FabricInv, DispatchInv, OneBeyond, OneDispatcher
  <1> QED BY <1>2, FabricAgrees, PTL

\* The version CAS of the claims leaves one worker with a current copy.
THEOREM ClaimedAlone == FabricSpec => []OneClaimHolder
  <1>1. FabricInv => OneClaimHolder
    BY OneHolder DEF FabricInv
  <1> QED BY <1>1, FabricAgrees, PTL

\* reconcileOne's ceiling bounds the provider lookups of a key, however many
\* workers, crashes and lost claims there are.
THEOREM LookupsAreBounded == FabricSpec => []LookupsBounded
  <1>1. FabricInv => LookupsBounded
    <2> SUFFICES ASSUME FabricInv, MaxAttempts > 0, NEW k \in Keys
                 PROVE  lookups[k] <= MaxAttempts
      BY DEF LookupsBounded
    <2>1. IsFiniteSet(Resolving(k)) /\ Spent(k) <= MaxAttempts /\ lookups[k] \in Nat
      BY DEF FabricInv, Budget
    <2>2. Cardinality(Resolving(k)) \in Nat
      BY <2>1, FS_CardinalityType
    <2> QED BY <2>1, <2>2, WorkerConstants DEF Spent
  <1> QED BY <1>1, FabricAgrees, PTL

\* The executors and the workers of this code are callers of the ledger as
\* StoreSpec has them: all that EffectStoreProofs and EffectRowProofs prove of
\* the ledger under any callers holds of the fabric.
THEOREM FabricUsesStore == FabricSpec => UsesTheStore
  <1>1. FabricInit => StoreInit
    BY DEF FabricInit
  <1>2. FabricInv /\ [FabricNext]_fabricVars => [StoreNext]_storeVars
    BY FabricKept
  <1> QED BY <1>1, <1>2, FabricAgrees, PTL DEF FabricSpec, UsesTheStore, StoreSpec

-------------------------------------------------------------------------------
(* Fencing by the cluster epoch.                                           *)

\* A worker of an older epoch writes nothing.
LEMMA StaleWorkerFenced ==
    ASSUME FabricInv, NEW w \in Owners, work[w].se # epoch, WorkerStep(w)
    PROVE  UNCHANGED rows
  <1> DEFINE x == work[w]
  <1>0. x \in Worker
    BY WorkerKnows
  <1>1. ASSUME NEW k, NEW v, NEW rc, NEW b, NEW S
        PROVE  /\ ~ClaimUnknownBatch(x.se, w, S) /\ ~ClaimExpiredBatch(x.se, w, S)
               /\ ~ScrubStaleRecoveryLocators(x.se, S) /\ ~SuspendReconciliation(x.se, k, v)
               /\ ~ReleaseReconcileClaim(x.se, k, v, b) /\ ~ResolveRecovery(x.se, k, v, rc)
               /\ ~EnterRecovery(x.se, k, v) /\ ~RecoverExpiredPreDispatch(x.se, k, v)
    BY DEF ClaimUnknownBatch, ClaimExpiredBatch, ScrubStaleRecoveryLocators, CanScrub,
           SuspendReconciliation, CanSuspend, ReleaseReconcileClaim, CanRelease,
           ResolveRecovery, CanResolveRecovery, EnterRecovery, CanEnterRecovery,
           RecoverExpiredPreDispatch, CanRecoverExpired, EpochGuard
  <1>2. \A j \in x.todo : /\ [x EXCEPT !.todo = @ \ {j}].se = x.se
                          /\ [x EXCEPT !.todo = @ \ {j}, !.pc = "dropClaim", !.job = j].se = x.se
    BY <1>0 DEF Worker
  <1>3. CASE ReconcileOne(w) \/ RecoverInFlight(w) \/ RecoverPreDispatch(w)
    BY <1>1, <1>2, <1>3
       DEF ReconcileOne, RecoverInFlight, RecoverPreDispatch, StoreCall, storeVars
  <1>4. CASE CommitDecision(w) \/ ReleaseClaim(w) \/ DropClaim(w)
    BY <1>1, <1>4 DEF CommitDecision, ReleaseClaim, DropClaim, StoreCall, storeVars
  <1>5. CASE ClaimUnknown(w) \/ ClaimExpired(w) \/ Scrub(w)
    BY <1>1, <1>5 DEF ClaimUnknown, ClaimExpired, Scrub, storeVars
  <1>6. CASE Resolve(w) \/ CrashWorker(w) \/ RestartWorker(w)
    BY <1>6 DEF Resolve, CrashWorker, RestartWorker, storeVars
  <1> QED BY <1>3, <1>4, <1>5, <1>6 DEF WorkerStep, WorkerCycle

\* After AdvanceClusterEpoch no executor and no worker whose Store was built
\* before it changes any row, whatever it had read, leased or claimed.
THEOREM StaleFenced == FabricSpec => StaleProcessesAreFenced
  <1> DEFINE Stale == \/ \E e \in Executors : exec[e].se # epoch /\ exec'[e] # exec[e]
                      \/ \E w \in Owners : work[w].se # epoch /\ work'[w] # work[w]
  <1>1. ASSUME FabricInv, FabricNext, Stale PROVE UNCHANGED rows
    <2>0. DispatchInv
      BY <1>1 DEF FabricInv
    <2>1. ASSUME NEW d \in Executors, ExecutorStep(d), UNCHANGED workVars PROVE UNCHANGED rows
      <3>1. PICK e \in Executors : exec[e].se # epoch /\ exec'[e] # exec[e]
        BY <1>1, <2>1 DEF workVars
      <3>2. e = d
        BY <2>0, <2>1, <3>1, ExecutorAlone
      <3> QED BY <2>1, <3>1, <3>2, StaleExecutorFenced
    <2>2. ASSUME NEW v \in Owners, WorkerStep(v), UNCHANGED exec PROVE UNCHANGED rows
      <3>1. PICK w \in Owners : work[w].se # epoch /\ work'[w] # work[w]
        BY <1>1, <2>2
      <3>2. w = v
        BY <1>1, <2>2, <3>1, WorkerMoves DEF WorkerMove, FabricInv
      <3> QED BY <1>1, <2>2, <3>1, <3>2, StaleWorkerFenced
    <2>3. ASSUME NEW k \in Keys, StrayLands(k) PROVE UNCHANGED rows
      BY <2>3 DEF StrayLands, storeVars
    <2>4. CASE UNCHANGED Everyone
      BY <1>1, <2>4 DEF Everyone, workVars
    <2> QED BY <1>1, <2>1, <2>2, <2>3, <2>4 DEF FabricNext
  <1>2. FabricInv /\ [FabricNext]_fabricVars => [Stale => UNCHANGED rows]_fabricVars
    BY <1>1
  <1> QED BY <1>2, FabricAgrees, PTL DEF FabricSpec, StaleProcessesAreFenced
====
