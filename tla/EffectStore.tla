------------------------------ MODULE EffectStore ------------------------------
(***************************************************************************)
(* The durable effect ledger: internal/idempotency/store.go (PostgreSQL)   *)
(* and internal/idempotency/sqlite.go (SQLite), which implement the same   *)
(* EffectStore interface.                                                  *)
(*                                                                         *)
(* Every method is one database transaction guarded by a WHERE clause, so  *)
(* every method is a pair of definitions: CanM, the WHERE clause, and M,   *)
(* the UPDATE under it.  The callers (DispatchExecutor, ReconcileWorker)   *)
(* use CanM to tell a write that hit a row from one that hit none.         *)
(*                                                                         *)
(* se is the epoch the calling Store object read when it was built, t and  *)
(* g the lease token and generation its caller presents, v the version its *)
(* caller read.  Database time is abstracted: a lease or a claim is live   *)
(* until it is expired, and a reconciliation is due now, later or never.   *)
(***************************************************************************)
EXTENDS Naturals

CONSTANTS Keys,          \* (principal, capability, idempotency key) triples
          CriticalKeys,  \* those whose execution class is CRITICAL
          Requests,      \* canonical requests a caller may send under a key
          Owners,        \* reconcile_owner values: worker identities
          Runs,          \* provider run identifiers
          None,          \* SQL NULL
          MaxGeneration, \* bound: lease generations per key
          MaxVersion,    \* bound: record versions per key
          MaxEpoch       \* bound: cluster epochs

ASSUME StoreConstants ==
    /\ CriticalKeys \subseteq Keys
    /\ None \notin Requests \cup Owners \cup Runs \cup {"SUCCEEDED", "FAILED", "UNKNOWN"}
    /\ MaxGeneration \in Nat \ {0} /\ MaxVersion \in Nat /\ MaxEpoch \in Nat \ {0}

VARIABLES rows,             \* execution_requests, one row per key
          nextToken,        \* lease tokens handed out so far
          epoch,            \* cluster_meta.epoch
          recoveryRequired, \* cluster_meta.recovery_required
          ledger            \* effect_events, as counts of the events that matter

storeVars == <<rows, nextToken, epoch, recoveryRequired, ledger>>

PreDispatch  == {"PREPARED", "EXECUTING"}
Terminal     == {"COMMITTED", "FAILED"}
PostDispatch == {"IN_FLIGHT", "UNKNOWN"} \cup Terminal
States       == {"ABSENT"} \cup PreDispatch \cup PostDispatch

\* Who captured the evidence a terminal receipt carries, and what it proves.
\* "RESULT" stands for a result payload or an unsigned evidence digest.
Captures == {"dispatch", "recovery"}
Proofs   == {"NONE", "RESULT", "COMPLETED", "NO_EFFECT"}
Receipts == [status : Terminal, capture : Captures, proof : Proofs, run : Runs \cup {None}]

\* What a provider said: buildObservation's provider_run_id and provider_status.
ProviderStatuses == {"SUCCEEDED", "FAILED", "UNKNOWN"}
Observations     == [run : Runs \cup {None}, said : ProviderStatuses]

Leases == {"NONE", "LIVE", "EXPIRED"}
Dues   == {"NOW", "LATER", "PARKED"}

\* The digest of a request binds the descriptor ("BOUND") or, in a row an
\* older binary wrote, does not ("LEGACY"): the two never compare equal.
Forms   == {"BOUND", "LEGACY"}
Digests == [req : Requests, form : Forms]

ASSUME NullIsNoValue == None \notin Receipts \cup Digests

Row == [state    : States,
        digest   : Digests \cup {None},
        token    : Nat,                  \* lease_token; 0 is NULL
        gen      : Nat,                  \* lease_generation
        version  : Nat,
        lease    : Leases,               \* lease_expires_at against clock_timestamp()
        owner    : Owners \cup {None},   \* reconcile_owner
        claim    : Leases,               \* reconcile_lease_expires_at
        due      : Dues,                 \* next_reconcile_at
        attempt  : Nat,                  \* reconcile_attempt
        run      : Runs \cup {None},     \* provider_run_id
        said     : ProviderStatuses \cup {None},
        locator  : BOOLEAN,              \* recovery_locator IS NOT NULL
        receipt  : Receipts \cup {None}]

AbsentRow == [state |-> "ABSENT", digest |-> None, token |-> 0, gen |-> 0,
              version |-> 0, lease |-> "NONE", owner |-> None, claim |-> "NONE",
              due |-> "NOW", attempt |-> 0, run |-> None, said |-> None,
              locator |-> FALSE, receipt |-> None]

Ledger == [started : Nat, unknown : Nat, terminal : Nat]

TypeOK ==
    /\ rows \in [Keys -> Row]
    /\ nextToken \in Nat
    /\ epoch \in Nat
    /\ recoveryRequired \in BOOLEAN
    /\ ledger \in [Keys -> Ledger]

StoreInit ==
    /\ rows = [k \in Keys |-> AbsentRow]
    /\ nextToken = 0
    /\ epoch = 1
    /\ recoveryRequired = FALSE
    /\ ledger = [k \in Keys |-> [started |-> 0, unknown |-> 0, terminal |-> 0]]

-------------------------------------------------------------------------------
(* Building blocks of the UPDATE statements.                               *)

\* epochGuardSQL: a store built under an older epoch matches no row.
EpochGuard(se) == se = epoch

PutRow(k, r) == rows' = [rows EXCEPT ![k] = r]

\* insertEffectEvent for the three event types that say what became of the
\* effect: DISPATCH_STARTED, ENTERED_UNKNOWN, TERMINAL_RESOLVED.
Event(k, l) == ledger' = [ledger EXCEPT ![k] = l]
NoEvent     == UNCHANGED ledger
DispatchStarted(k)  == Event(k, [ledger[k] EXCEPT !.started = @ + 1])
EnteredUnknown(k)   == Event(k, [ledger[k] EXCEPT !.unknown = @ + 1])
TerminalResolved(k) == Event(k, [ledger[k] EXCEPT !.terminal = @ + 1])

\* generateLeaseToken: 32 random bytes, never issued before.
NewToken == nextToken + 1

SameCluster == UNCHANGED <<epoch, recoveryRequired>>

\* The fence of every lease-holder write.
HoldsLease(se, k, t, g) ==
    /\ EpochGuard(se)
    /\ rows[k].token # 0 /\ rows[k].token = t
    /\ rows[k].gen = g
    /\ rows[k].lease = "LIVE"

Unleased(r)   == [r EXCEPT !.token = 0, !.lease = "NONE"]

\* Mutant: the claim is freed with an empty owner instead of NULL.
UnclaimedByEmptyOwner(r) == [r EXCEPT !.owner = "", !.claim = "NONE"]

Unclaimed(r)  == [r EXCEPT !.owner = None, !.claim = "NONE"]
Bumped(r)     == [r EXCEPT !.version = @ + 1]
Relinquished(r) == Bumped(Unclaimed(Unleased(r)))

\* A column that a write may fill but never change.
Compatible(stored, supplied) == None \in {stored, supplied} \/ stored = supplied
Fill(stored, supplied)       == IF supplied = None THEN stored ELSE supplied
ObservationFits(r, o) == Compatible(r.run, o.run) /\ Compatible(r.said, o.said)
Observed(r, o) == [r EXCEPT !.run = Fill(@, o.run), !.said = Fill(@, o.said)]

\* signedReceiptVerifier: proof of completion names the operation that ran;
\* proof of no effect has none to name.
Attested(rc) == IF rc.status = "COMMITTED" THEN rc.proof = "COMPLETED" /\ rc.run # None
                                           ELSE rc.proof = "NO_EFFECT"

\* Mutant: only CRITICAL decisions need proof.
ValidateCriticalOnly(k, rc) == k \in CriticalKeys => Attested(rc)

ValidateTerminalTransition(k, rc) ==
    IF k \in CriticalKeys THEN Attested(rc) ELSE rc.proof # "NONE"

-------------------------------------------------------------------------------
(* Admission: AcquireWithAuthority's INSERT and the three CAS updates it   *)
(* may try on the row it read at version v.                                *)

CanInsert(se, k) ==
    /\ rows[k].state = "ABSENT"
    /\ EpochGuard(se) /\ ~recoveryRequired

InsertRow(se, k, d) ==
    /\ CanInsert(se, k)
    /\ PutRow(k, [AbsentRow EXCEPT !.state = "PREPARED", !.digest = d,
                                   !.token = NewToken, !.gen = 1,
                                   !.version = 1, !.lease = "LIVE"])
    /\ nextToken' = NewToken
    /\ NoEvent /\ SameCluster

\* Mutant: a takeover that keeps the generation of the lease it replaces.
LeasedSameGeneration(r) == Bumped([r EXCEPT !.token = NewToken, !.lease = "LIVE"])

Leased(r) == Bumped([r EXCEPT !.token = NewToken, !.gen = @ + 1, !.lease = "LIVE"])

\* A lease-less PREPARED row is taken without asking for recovery mode.
CanAcquireUnleased(se, k, v) ==
    /\ rows[k].state = "PREPARED"
    /\ rows[k].lease = "NONE"
    /\ rows[k].version = v
    /\ EpochGuard(se)
    /\ rows[k].gen < MaxGeneration

AcquireUnleased(se, k, v) ==
    /\ CanAcquireUnleased(se, k, v)
    /\ PutRow(k, Leased(rows[k]))
    /\ nextToken' = NewToken
    /\ NoEvent /\ SameCluster

\* Mutant: any expired row may be reclaimed, dispatched or not.
CanReclaimDispatched(se, k, v) ==
    /\ rows[k].state \in PreDispatch \cup {"IN_FLIGHT"}
    /\ rows[k].lease = "EXPIRED"
    /\ rows[k].version = v
    /\ EpochGuard(se) /\ ~recoveryRequired
    /\ rows[k].gen < MaxGeneration

CanReclaim(se, k, v) ==
    /\ rows[k].state \in PreDispatch
    /\ rows[k].lease = "EXPIRED"
    /\ rows[k].version = v
    /\ EpochGuard(se) /\ ~recoveryRequired
    /\ rows[k].gen < MaxGeneration

\* The reconciliation claim, if any, is left on the row.
ReclaimExpiredLease(se, k, v) ==
    /\ CanReclaim(se, k, v)
    /\ PutRow(k, [Leased(rows[k]) EXCEPT !.state = "PREPARED"])
    /\ nextToken' = NewToken
    /\ NoEvent /\ SameCluster

CanMarkExpired(se, k, v) ==
    /\ rows[k].state = "IN_FLIGHT"
    /\ rows[k].lease = "EXPIRED"
    /\ rows[k].version = v
    /\ EpochGuard(se)

MarkInFlightExpiredAsUnknown(se, k, v) ==
    /\ CanMarkExpired(se, k, v)
    /\ PutRow(k, [Relinquished(rows[k]) EXCEPT !.state = "UNKNOWN"])
    /\ EnteredUnknown(k)
    /\ UNCHANGED nextToken /\ SameCluster

-------------------------------------------------------------------------------
(* The lease holder's transitions.                                         *)

CanBegin(se, k, t, g) ==
    HoldsLease(se, k, t, g) /\ rows[k].state = "PREPARED"

BeginExecution(se, k, t, g) ==
    /\ CanBegin(se, k, t, g)
    /\ PutRow(k, Bumped([rows[k] EXCEPT !.state = "EXECUTING"]))
    /\ NoEvent /\ UNCHANGED nextToken /\ SameCluster

CanMarkInFlight(se, k, t, g) ==
    HoldsLease(se, k, t, g) /\ rows[k].state = "EXECUTING"

\* Mutant: the locator is left for a later write.
MarkInFlightWithoutLocator(se, k, t, g) ==
    /\ CanMarkInFlight(se, k, t, g)
    /\ PutRow(k, Bumped([rows[k] EXCEPT !.state = "IN_FLIGHT"]))
    /\ DispatchStarted(k)
    /\ UNCHANGED nextToken /\ SameCluster

\* The dispatch boundary; the recovery locator lands in the same update.
MarkInFlight(se, k, t, g) ==
    /\ CanMarkInFlight(se, k, t, g)
    /\ PutRow(k, Bumped([rows[k] EXCEPT !.state = "IN_FLIGHT", !.locator = TRUE]))
    /\ DispatchStarted(k)
    /\ UNCHANGED nextToken /\ SameCluster

\* Mutant: an abandon that also unmarks a dispatched row.
CanAbandonDispatched(se, k, t, g) ==
    HoldsLease(se, k, t, g) /\ rows[k].state \in PreDispatch \cup {"IN_FLIGHT"}

CanAbandon(se, k, t, g) ==
    HoldsLease(se, k, t, g) /\ rows[k].state \in PreDispatch

AbandonPreDispatch(se, k, t, g) ==
    /\ CanAbandon(se, k, t, g)
    /\ PutRow(k, Bumped([Unleased(rows[k]) EXCEPT !.state = "PREPARED"]))
    /\ NoEvent /\ UNCHANGED nextToken /\ SameCluster

\* Mutant: the receipt may name another provider run than the observed one.
CanFinalizeAnyRun(se, k, t, g, v, rc) ==
    /\ HoldsLease(se, k, t, g)
    /\ rows[k].state = "IN_FLIGHT"
    /\ rows[k].version = v
    /\ ValidateTerminalTransition(k, rc)

\* The final CAS of Finalize, after it read version v and passed the policy.
CanFinalize(se, k, t, g, v, rc) ==
    /\ HoldsLease(se, k, t, g)
    /\ rows[k].state = "IN_FLIGHT"
    /\ rows[k].version = v
    /\ Compatible(rows[k].run, rc.run)
    /\ ValidateTerminalTransition(k, rc)

Finalize(se, k, t, g, v, rc) ==
    /\ CanFinalize(se, k, t, g, v, rc)
    /\ PutRow(k, Bumped([Unleased(rows[k]) EXCEPT
                            !.state = rc.status, !.receipt = rc,
                            !.run = Fill(@, rc.run), !.locator = FALSE]))
    /\ TerminalResolved(k)
    /\ UNCHANGED nextToken /\ SameCluster

-------------------------------------------------------------------------------
(* Observations and recovery.                                              *)

\* Mutant: observations are accepted in every state.
CanRecordObservationAnytime(se, k, t, g, o) ==
    EpochGuard(se) /\ rows[k].state # "ABSENT" /\ ObservationFits(rows[k], o)

\* Fenced by the token while IN_FLIGHT, an expired lease included; open to
\* anybody once UNKNOWN.
CanRecordObservation(se, k, t, g, o) ==
    /\ EpochGuard(se)
    /\ \/ /\ rows[k].state = "IN_FLIGHT"
          /\ rows[k].token = t /\ rows[k].gen = g
       \/ rows[k].state = "UNKNOWN"
    /\ ObservationFits(rows[k], o)

\* Leaves version alone, so it never invalidates anybody's CAS.
RecordProviderObservation(se, k, t, g, o) ==
    /\ CanRecordObservation(se, k, t, g, o)
    /\ PutRow(k, Observed(rows[k], o))
    /\ NoEvent /\ UNCHANGED nextToken /\ SameCluster

CanEnterRecovery(se, k, v) ==
    /\ rows[k].state = "IN_FLIGHT"
    /\ rows[k].version = v
    /\ EpochGuard(se)

\* Mutant: the crashed holder's lease stays on the UNKNOWN row.
EnterRecoveryKeepingLease(se, k, v) ==
    /\ CanEnterRecovery(se, k, v)
    /\ PutRow(k, Bumped([Unclaimed(rows[k]) EXCEPT !.state = "UNKNOWN"]))
    /\ EnteredUnknown(k)
    /\ UNCHANGED nextToken /\ SameCluster

\* Mutant: a crashed dispatch goes back to PREPARED, to be retried blindly.
EnterRecoveryAsRetry(se, k, v) ==
    /\ CanEnterRecovery(se, k, v)
    /\ PutRow(k, [Relinquished(rows[k]) EXCEPT !.state = "PREPARED"])
    /\ NoEvent
    /\ UNCHANGED nextToken /\ SameCluster

EnterRecovery(se, k, v) ==
    /\ CanEnterRecovery(se, k, v)
    /\ PutRow(k, [Relinquished(rows[k]) EXCEPT !.state = "UNKNOWN"])
    /\ EnteredUnknown(k)
    /\ UNCHANGED nextToken /\ SameCluster

CanEnterRecoveryWithObservation(se, k, v, o) ==
    CanEnterRecovery(se, k, v) /\ ObservationFits(rows[k], o)

EnterRecoveryWithObservation(se, k, v, o) ==
    /\ CanEnterRecoveryWithObservation(se, k, v, o)
    /\ PutRow(k, [Observed(Relinquished(rows[k]), o) EXCEPT !.state = "UNKNOWN"])
    /\ EnteredUnknown(k)
    /\ UNCHANGED nextToken /\ SameCluster

CanRecoverExpired(se, k, v) ==
    /\ rows[k].state \in PreDispatch
    /\ rows[k].lease = "EXPIRED"
    /\ rows[k].version = v
    /\ EpochGuard(se)

RecoverExpiredPreDispatch(se, k, v) ==
    /\ CanRecoverExpired(se, k, v)
    /\ PutRow(k, [Relinquished(rows[k]) EXCEPT !.state = "PREPARED", !.due = "NOW"])
    /\ NoEvent /\ UNCHANGED nextToken /\ SameCluster

\* Mutant: recovery decisions skip the terminal policy.
CanResolveUnproven(se, k, v, rc) ==
    /\ rows[k].state = "UNKNOWN"
    /\ rows[k].version = v
    /\ EpochGuard(se)
    /\ Compatible(rows[k].run, rc.run)

\* A definitive recovery decision; nothing here asks who holds the claim.
CanResolveRecovery(se, k, v, rc) ==
    /\ rows[k].state = "UNKNOWN"
    /\ rows[k].version = v
    /\ EpochGuard(se)
    /\ Compatible(rows[k].run, rc.run)
    /\ ValidateTerminalTransition(k, rc)

ResolveRecovery(se, k, v, rc) ==
    /\ CanResolveRecovery(se, k, v, rc)
    /\ PutRow(k, Bumped([Unclaimed(rows[k]) EXCEPT
                            !.state = rc.status, !.receipt = rc, !.due = "NOW",
                            !.run = Fill(@, rc.run), !.locator = FALSE]))
    /\ TerminalResolved(k)
    /\ UNCHANGED nextToken /\ SameCluster

\* S: the rows whose retention window has passed.
CanScrub(se) == EpochGuard(se)

ScrubStaleRecoveryLocators(se, S) ==
    /\ CanScrub(se)
    /\ S \subseteq {k \in Keys : rows[k].state = "UNKNOWN"}
    /\ rows' = [k \in Keys |-> IF k \in S THEN [rows[k] EXCEPT !.locator = FALSE]
                                          ELSE rows[k]]
    /\ NoEvent /\ UNCHANGED nextToken /\ SameCluster

-------------------------------------------------------------------------------
(* Reconciliation claims.                                                  *)

ClaimFree(k) == rows[k].claim # "LIVE"

UnknownClaimable == {k \in Keys : /\ rows[k].state = "UNKNOWN" /\ ClaimFree(k)
                                  /\ rows[k].due = "NOW"
                                  /\ rows[k].version < MaxVersion}

\* Mutant: dispatched rows are left to the callers that come back.
PreDispatchClaimable == {k \in Keys : /\ rows[k].state \in PreDispatch
                                      /\ rows[k].lease = "EXPIRED" /\ ClaimFree(k)
                                      /\ rows[k].version < MaxVersion}

ExpiredClaimable == {k \in Keys : /\ rows[k].state \in PreDispatch \cup {"IN_FLIGHT"}
                                  /\ rows[k].lease = "EXPIRED" /\ ClaimFree(k)
                                  /\ rows[k].version < MaxVersion}

\* Mutant: claiming does not count as a change of the row.
ClaimedQuietly(r, w) == [r EXCEPT !.owner = w, !.claim = "LIVE"]

Claimed(r, w) == Bumped([r EXCEPT !.owner = w, !.claim = "LIVE"])

\* Rows another claimer has locked are skipped, so S may be any part.
ClaimUnknownBatch(se, w, S) ==
    /\ EpochGuard(se)
    /\ S \subseteq UnknownClaimable
    /\ rows' = [k \in Keys |-> IF k \in S
                               THEN [Claimed(rows[k], w) EXCEPT !.attempt = @ + 1]
                               ELSE rows[k]]
    /\ NoEvent /\ UNCHANGED nextToken /\ SameCluster

ClaimExpiredBatch(se, w, S) ==
    /\ EpochGuard(se)
    /\ S \subseteq ExpiredClaimable
    /\ rows' = [k \in Keys |-> IF k \in S THEN Claimed(rows[k], w) ELSE rows[k]]
    /\ NoEvent /\ UNCHANGED nextToken /\ SameCluster

\* Mutant: no epoch fence on releases.
CanReleaseUnfenced(se, k, v) == rows[k].state # "ABSENT" /\ rows[k].version = v

CanRelease(se, k, v) == EpochGuard(se) /\ rows[k].state # "ABSENT" /\ rows[k].version = v

\* backoff: the worker asked for a positive delay.
ReleaseReconcileClaim(se, k, v, backoff) ==
    /\ CanRelease(se, k, v)
    /\ PutRow(k, Bumped([Unclaimed(rows[k]) EXCEPT
                            !.due = IF rows[k].state = "UNKNOWN" /\ backoff
                                    THEN "LATER" ELSE "NOW"]))
    /\ NoEvent /\ UNCHANGED nextToken /\ SameCluster

CanSuspend(se, k, v) == EpochGuard(se) /\ rows[k].state = "UNKNOWN" /\ rows[k].version = v

\* Mutant: dead-lettering without a version bump.
SuspendQuietly(se, k, v) ==
    /\ CanSuspend(se, k, v)
    /\ PutRow(k, [Unclaimed(rows[k]) EXCEPT !.due = "PARKED"])
    /\ NoEvent /\ UNCHANGED nextToken /\ SameCluster

SuspendReconciliation(se, k, v) ==
    /\ CanSuspend(se, k, v)
    /\ PutRow(k, Bumped([Unclaimed(rows[k]) EXCEPT !.due = "PARKED"]))
    /\ NoEvent /\ UNCHANGED nextToken /\ SameCluster

\* Renewal moves an expiry that is already in the future: no flag changes.
CanRenewReconcileClaim(se, k, v) ==
    /\ EpochGuard(se)
    /\ rows[k].state = "UNKNOWN" /\ rows[k].version = v
    /\ rows[k].claim = "LIVE"

-------------------------------------------------------------------------------
(* The operator and the clock.                                             *)

\* expected: the epoch the operator believes the cluster is in.
AdvanceClusterEpoch(expected) ==
    /\ epoch = expected /\ epoch < MaxEpoch
    /\ epoch' = epoch + 1 /\ recoveryRequired' = TRUE
    /\ UNCHANGED <<rows, nextToken, ledger>>

CompleteClusterRecovery(expected) ==
    /\ epoch = expected
    /\ recoveryRequired' = FALSE
    /\ UNCHANGED <<rows, nextToken, epoch, ledger>>

\* No renewal reached the row in time.
LeaseExpires(k) ==
    /\ rows[k].lease = "LIVE"
    /\ PutRow(k, [rows[k] EXCEPT !.lease = "EXPIRED"])
    /\ NoEvent /\ UNCHANGED nextToken /\ SameCluster

ClaimExpires(k) ==
    /\ rows[k].claim = "LIVE"
    /\ PutRow(k, [rows[k] EXCEPT !.claim = "EXPIRED"])
    /\ NoEvent /\ UNCHANGED nextToken /\ SameCluster

BackoffElapses(k) ==
    /\ rows[k].due = "LATER"
    /\ PutRow(k, [rows[k] EXCEPT !.due = "NOW"])
    /\ NoEvent /\ UNCHANGED nextToken /\ SameCluster

ClockStep == \E k \in Keys : LeaseExpires(k) \/ ClaimExpires(k) \/ BackoffElapses(k)

Epochs == 1 .. MaxEpoch
OperatorStep == \E x \in Epochs : AdvanceClusterEpoch(x) \/ CompleteClusterRecovery(x)

-------------------------------------------------------------------------------
(* The ledger under any callers at all: StoreNext lets whoever calls        *)
(* present any epoch the cluster has had, the credentials and the version   *)
(* that match, any receipt and any observation.  What holds of StoreSpec    *)
(* holds however executors and workers behave.                              *)

AdmissionStep(se, k) ==
    \/ \E d \in Digests : InsertRow(se, k, d)
    \/ AcquireUnleased(se, k, rows[k].version)
    \/ ReclaimExpiredLease(se, k, rows[k].version)
    \/ MarkInFlightExpiredAsUnknown(se, k, rows[k].version)

HolderStep(se, k, t, g) ==
    \/ BeginExecution(se, k, t, g)
    \/ MarkInFlight(se, k, t, g)
    \/ AbandonPreDispatch(se, k, t, g)
    \/ \E rc \in Receipts : Finalize(se, k, t, g, rows[k].version, rc)
    \/ \E o \in Observations : RecordProviderObservation(se, k, t, g, o)

RecoveryStep(se, k, v) ==
    \/ EnterRecovery(se, k, v)
    \/ \E o \in Observations : EnterRecoveryWithObservation(se, k, v, o)
    \/ RecoverExpiredPreDispatch(se, k, v)
    \/ \E rc \in Receipts : ResolveRecovery(se, k, v, rc)
    \/ v <= MaxVersion /\ \E b \in BOOLEAN : ReleaseReconcileClaim(se, k, v, b)
    \/ v <= MaxVersion /\ SuspendReconciliation(se, k, v)

BatchStep(se, S) ==
    \/ \E w \in Owners : ClaimUnknownBatch(se, w, S) \/ ClaimExpiredBatch(se, w, S)
    \/ ScrubStaleRecoveryLocators(se, S)

StoreNext ==
    \/ \E se \in Epochs, k \in Keys :
          \/ AdmissionStep(se, k)
          \/ HolderStep(se, k, rows[k].token, rows[k].gen)
          \/ RecoveryStep(se, k, rows[k].version)
    \/ \E se \in Epochs, S \in SUBSET Keys : BatchStep(se, S)
    \/ OperatorStep
    \/ ClockStep

StoreSpec == StoreInit /\ [][StoreNext]_storeVars

-------------------------------------------------------------------------------
(* Properties of the ledger.                                               *)

\* The forensic ledger and the row tell the same story: the dispatch
\* boundary (MarkInFlight) is crossed at most once in the life of a key and
\* exactly when the row says so, the row enters UNKNOWN at most once, and
\* exactly one terminal resolution (Finalize or ResolveRecovery) is recorded.
LedgerAgrees == \A k \in Keys :
    /\ ledger[k].started = IF rows[k].state \in PostDispatch THEN 1 ELSE 0
    /\ ledger[k].terminal = IF rows[k].state \in Terminal THEN 1 ELSE 0
    /\ rows[k].state \in {"ABSENT", "IN_FLIGHT"} \cup PreDispatch => ledger[k].unknown = 0
    /\ rows[k].state = "UNKNOWN" => ledger[k].unknown = 1
    /\ ledger[k].unknown <= 1

\* A row past admission is always somebody's: an EXECUTING or IN_FLIGHT row
\* has a lease for the clock to expire, while UNKNOWN and terminal rows are
\* out of every lease holder's reach (EnterRecovery and Finalize clear it).
LeaseFollowsState == \A k \in Keys :
    /\ rows[k].lease = "NONE" <=> rows[k].token = 0
    /\ rows[k].state \in {"EXECUTING", "IN_FLIGHT"} => rows[k].lease # "NONE"
    /\ rows[k].state \in {"ABSENT", "UNKNOWN"} \cup Terminal => rows[k].lease = "NONE"

\* No terminal row without the proof its execution class demands, by
\* whichever of Finalize and ResolveRecovery it became terminal, and no
\* CRITICAL success without the provider run it is proof of; no receipt on
\* any other row.
SettledIsProven == \A k \in Keys :
    IF rows[k].state \in Terminal
    THEN /\ rows[k].receipt # None
         /\ rows[k].receipt.status = rows[k].state
         /\ rows[k].receipt.proof \in
                IF k \notin CriticalKeys THEN {"RESULT", "COMPLETED", "NO_EFFECT"}
                ELSE IF rows[k].state = "COMMITTED" THEN {"COMPLETED"} ELSE {"NO_EFFECT"}
         /\ k \in CriticalKeys /\ rows[k].state = "COMMITTED" => rows[k].run # None
    ELSE rows[k].receipt = None

\* The recovery locator is durable before anything can be dispatched, and is
\* gone from settled rows.
LocatorCoversDispatch == \A k \in Keys :
    /\ rows[k].state = "IN_FLIGHT" => rows[k].locator
    /\ rows[k].state \in Terminal \cup PreDispatch => ~rows[k].locator

\* Terminal rows are immutable: a late holder, a late worker or a claim
\* release never rewrites the state, the receipt or what the provider said.
SettledForever == [][\A k \in Keys : rows[k].state \in Terminal =>
    /\ rows'[k].state = rows[k].state
    /\ rows'[k].receipt = rows[k].receipt
    /\ rows'[k].run = rows[k].run
    /\ rows'[k].said = rows[k].said]_storeVars

\* A recorded observation is never replaced by a contradicting one, on any
\* of the four paths that write the provider columns.
ObservationMonotone == [][\A k \in Keys :
    /\ rows[k].run # None => rows'[k].run = rows[k].run
    /\ rows[k].said # None => rows'[k].said = rows[k].said]_storeVars

\* Why a CAS on version alone is safe: a step that changes the state, the
\* lease holder or the claim holder of a row raises its version.
VersionTellsAll == [][\A k \in Keys :
    \/ rows'[k].version > rows[k].version
    \/ /\ rows'[k].version = rows[k].version
       /\ rows'[k].state = rows[k].state
       /\ rows'[k].token = rows[k].token
       /\ rows'[k].gen = rows[k].gen
       /\ rows'[k].owner = rows[k].owner]_storeVars

\* A takeover is visible in both halves of the fence: a row never changes
\* hands without a token nobody was given before and a higher generation.
TakeoverIsFenced == [][\A k \in Keys :
    rows'[k].token \notin {0, rows[k].token} =>
        /\ rows'[k].token > nextToken
        /\ rows'[k].gen > rows[k].gen]_storeVars

\* What the abstract contract sees of a row.
PhaseOf(state) == CASE state = "ABSENT"                    -> "UNSEEN"
                    [] state \in PreDispatch               -> "ADMITTED"
                    [] state \in {"IN_FLIGHT", "UNKNOWN"}  -> "DISPATCHED"
                    [] OTHER                               -> state

Contract == INSTANCE EffectContract WITH phase <- [k \in Keys |-> PhaseOf(rows[k].state)]

\* The ledger implements the contract: legalTransitions and the CAS guards
\* leave no path from IN_FLIGHT or UNKNOWN back to a dispatchable state.
ImplementsContract == Contract!Spec

-------------------------------------------------------------------------------
(* What the documentation says and the code does not do.                   *)

\* docs/spec/durable-execution-operations.md: in recovery mode admission is
\* closed until CompleteClusterRecovery, and taking over an abandoned
\* PREPARED or EXECUTING record is admission too.
RecoveryModeAdmitsNothing == [][recoveryRequired =>
    \A k \in Keys : rows'[k].gen = rows[k].gen]_storeVars

===============================================================================
