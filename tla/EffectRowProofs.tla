---------------------------- MODULE EffectRowProofs ----------------------------
(***************************************************************************)
(* Theorems about the columns of a row, beyond its state: lease, locator,  *)
(* receipt, provider columns and version.  They hold for any callers, any  *)
(* number of keys, requests, workers and runs, and any bounds.             *)
(*                                                                         *)
(* RowInv is the inductive invariant, row by row.  Two of its parts are    *)
(* there for the induction only: an absent row is the row nobody wrote     *)
(* (an INSERT then loses no column), and no row holds a token that was not *)
(* handed out (a new token then differs from every old one).  RowStep is   *)
(* what one UPDATE may do to a row.  One lemma per UPDATE statement shows  *)
(* both; RowsKept carries them to the table.                               *)
(***************************************************************************)
EXTENDS EffectStoreProofs

\* The columns of one row agree with each other; n tokens were handed out.
RowInv(k, r, n) ==
    /\ r.state = "ABSENT" => r = AbsentRow
    /\ r.token <= n
    /\ r.lease = "NONE" <=> r.token = 0
    /\ r.state \in {"EXECUTING", "IN_FLIGHT"} => r.lease # "NONE"
    /\ r.state \in {"ABSENT", "UNKNOWN"} \cup Terminal => r.lease = "NONE"
    /\ r.state = "IN_FLIGHT" => r.locator
    /\ r.state \in Terminal \cup PreDispatch => ~r.locator
    /\ r.state \notin Terminal => r.receipt = None
    /\ r.state \in Terminal =>
          /\ r.receipt \in Receipts
          /\ r.receipt.status = r.state
          /\ ValidateTerminalTransition(k, r.receipt)
          /\ r.receipt.run # None => r.run = r.receipt.run

\* What a write may do to a row when n tokens were handed out.
RowStep(old, new, n) ==
    /\ old.run # None => new.run = old.run
    /\ old.said # None => new.said = old.said
    /\ \/ new.version > old.version
       \/ /\ new.version = old.version
          /\ new.state = old.state
          /\ new.token = old.token
          /\ new.gen = old.gen
          /\ new.owner = old.owner
    /\ new.token \notin {0, old.token} => new.token > n /\ new.gen > old.gen
    /\ old.state # "ABSENT" => new.state # "ABSENT" /\ new.digest = old.digest
    /\ old.state \in PostDispatch => new.state \in PostDispatch
    /\ old.state \in Terminal => new.state = old.state
    /\ new.version = old.version => new.attempt = old.attempt
    /\ new.attempt >= old.attempt

\* A write of row k that keeps the invariant, n and m tokens before and after.
Keeps(k, old, new, n, m) == RowInv(k, new, m) /\ RowStep(old, new, n)

RowsInv  == TypeOK /\ \A k \in Keys : RowInv(k, rows[k], nextToken)
RowsKept == \A k \in Keys : Keeps(k, rows[k], rows'[k], nextToken, nextToken')

-------------------------------------------------------------------------------
(* The UPDATE statements, on an arbitrary row.                             *)

\* Leaving a row alone keeps it, whoever is given tokens meanwhile.
LEMMA SameRowKept ==
    ASSUME NEW k \in Keys, NEW r \in Row, NEW n \in Nat, NEW m \in Nat, n <= m,
           RowInv(k, r, n)
    PROVE  Keeps(k, r, r, n, m)
  BY DEF Keeps, RowInv, RowStep, Row

\* AcquireWithAuthority's INSERT replaces the row nobody wrote.
LEMMA InsertKept ==
    ASSUME NEW k \in Keys, NEW r \in Row, nextToken \in Nat, RowInv(k, r, nextToken),
           r.state = "ABSENT", NEW d
    PROVE  Keeps(k, r, [AbsentRow EXCEPT !.state = "PREPARED", !.digest = d,
                                         !.token = NewToken, !.gen = 1,
                                         !.version = 1, !.lease = "LIVE"],
                 nextToken, NewToken)
  BY DEF Keeps, RowInv, RowStep, Row, PostDispatch, AbsentRow, NewToken, Terminal, PreDispatch

\* A lease is only handed out on a row that was not dispatched.
LEMMA LeasedKept ==
    ASSUME NEW k \in Keys, NEW r \in Row, nextToken \in Nat, RowInv(k, r, nextToken),
           r.state \in PreDispatch
    PROVE  /\ Keeps(k, r, Leased(r), nextToken, NewToken)
           /\ Keeps(k, r, [Leased(r) EXCEPT !.state = "PREPARED"], nextToken, NewToken)
  BY DEF Keeps, RowInv, RowStep, Row, PostDispatch, Leased, Bumped, NewToken, Terminal, PreDispatch

\* MarkInFlightExpiredAsUnknown and EnterRecovery.
LEMMA UnknownKept ==
    ASSUME NEW k \in Keys, NEW r \in Row, NEW n \in Nat, RowInv(k, r, n),
           r.state = "IN_FLIGHT"
    PROVE  Keeps(k, r, [Relinquished(r) EXCEPT !.state = "UNKNOWN"], n, n)
  BY DEF Keeps, RowInv, RowStep, Row, PostDispatch, Relinquished, Bumped, Unclaimed, Unleased,
         Terminal, PreDispatch

\* EnterRecoveryWithObservation; the observation fits what is recorded.
LEMMA UnknownObservedKept ==
    ASSUME NEW k \in Keys, NEW r \in Row, NEW n \in Nat, RowInv(k, r, n),
           r.state = "IN_FLIGHT", NEW o \in Observations, ObservationFits(r, o)
    PROVE  Keeps(k, r, [Observed(Relinquished(r), o) EXCEPT !.state = "UNKNOWN"], n, n)
  BY DEF Keeps, RowInv, RowStep, Row, PostDispatch, Relinquished, Bumped, Unclaimed, Unleased,
         Observed, ObservationFits, Compatible, Fill, Observations, Terminal, PreDispatch

\* RecordProviderObservation.
LEMMA ObservedKept ==
    ASSUME NEW k \in Keys, NEW r \in Row, NEW n \in Nat, RowInv(k, r, n),
           r.state \in {"IN_FLIGHT", "UNKNOWN"}, NEW o \in Observations, ObservationFits(r, o)
    PROVE  Keeps(k, r, Observed(r, o), n, n)
  BY DEF Keeps, RowInv, RowStep, Row, PostDispatch, Observed, ObservationFits, Compatible, Fill,
         Observations, Terminal, PreDispatch

\* BeginExecution and MarkInFlight, under a live lease.
LEMMA BoundaryKept ==
    ASSUME NEW k \in Keys, NEW r \in Row, NEW n \in Nat, RowInv(k, r, n),
           r.state \in PreDispatch, r.lease = "LIVE"
    PROVE  /\ Keeps(k, r, Bumped([r EXCEPT !.state = "EXECUTING"]), n, n)
           /\ Keeps(k, r, Bumped([r EXCEPT !.state = "IN_FLIGHT", !.locator = TRUE]), n, n)
  BY DEF Keeps, RowInv, RowStep, Row, PostDispatch, Bumped, Terminal, PreDispatch

\* AbandonPreDispatch and RecoverExpiredPreDispatch.
LEMMA AbandonedKept ==
    ASSUME NEW k \in Keys, NEW r \in Row, NEW n \in Nat, RowInv(k, r, n),
           r.state \in PreDispatch
    PROVE  /\ Keeps(k, r, Bumped([Unleased(r) EXCEPT !.state = "PREPARED"]), n, n)
           /\ Keeps(k, r, [Relinquished(r) EXCEPT !.state = "PREPARED", !.due = "NOW"], n, n)
  BY DEF Keeps, RowInv, RowStep, Row, PostDispatch, Relinquished, Bumped, Unclaimed, Unleased,
         Terminal, PreDispatch

\* Finalize, with a receipt the policy accepts for the run that is recorded.
LEMMA FinalizedKept ==
    ASSUME NEW k \in Keys, NEW r \in Row, NEW n \in Nat, RowInv(k, r, n),
           r.state = "IN_FLIGHT", NEW rc \in Receipts,
           Compatible(r.run, rc.run), ValidateTerminalTransition(k, rc)
    PROVE  Keeps(k, r, Bumped([Unleased(r) EXCEPT !.state = rc.status, !.receipt = rc,
                                   !.run = Fill(@, rc.run), !.locator = FALSE]), n, n)
  BY DEF Keeps, RowInv, RowStep, Row, PostDispatch, Bumped, Unleased, Compatible, Fill, Receipts,
         Terminal, PreDispatch

\* ResolveRecovery, likewise; its row has no lease to clear.
LEMMA ResolvedKept ==
    ASSUME NEW k \in Keys, NEW r \in Row, NEW n \in Nat, RowInv(k, r, n),
           r.state = "UNKNOWN", NEW rc \in Receipts,
           Compatible(r.run, rc.run), ValidateTerminalTransition(k, rc)
    PROVE  Keeps(k, r, Bumped([Unclaimed(r) EXCEPT !.state = rc.status, !.receipt = rc,
                                   !.due = "NOW", !.run = Fill(@, rc.run),
                                   !.locator = FALSE]), n, n)
  BY DEF Keeps, RowInv, RowStep, Row, PostDispatch, Bumped, Unclaimed, Compatible, Fill, Receipts,
         Terminal, PreDispatch

\* ReleaseReconcileClaim and SuspendReconciliation, in any state but absent.
LEMMA RequeuedKept ==
    ASSUME NEW k \in Keys, NEW r \in Row, NEW n \in Nat, RowInv(k, r, n),
           r.state # "ABSENT", NEW d \in Dues
    PROVE  Keeps(k, r, Bumped([Unclaimed(r) EXCEPT !.due = d]), n, n)
  BY DEF Keeps, RowInv, RowStep, Row, PostDispatch, Bumped, Unclaimed, Terminal, PreDispatch

\* ClaimUnknownBatch and ClaimExpiredBatch.
LEMMA ClaimedKept ==
    ASSUME NEW k \in Keys, NEW r \in Row, NEW n \in Nat, RowInv(k, r, n),
           r.state # "ABSENT", NEW w \in Owners
    PROVE  /\ Keeps(k, r, Claimed(r, w), n, n)
           /\ Keeps(k, r, [Claimed(r, w) EXCEPT !.attempt = @ + 1], n, n)
  BY DEF Keeps, RowInv, RowStep, Row, PostDispatch, Claimed, Bumped, Terminal, PreDispatch

\* ScrubStaleRecoveryLocators only touches rows nobody can dispatch.
LEMMA ScrubbedKept ==
    ASSUME NEW k \in Keys, NEW r \in Row, NEW n \in Nat, RowInv(k, r, n),
           r.state = "UNKNOWN"
    PROVE  Keeps(k, r, [r EXCEPT !.locator = FALSE], n, n)
  BY DEF Keeps, RowInv, RowStep, Row, PostDispatch, Terminal, PreDispatch

\* A lease, a claim or a backoff runs out.
LEMMA ElapsedKept ==
    ASSUME NEW k \in Keys, NEW r \in Row, NEW n \in Nat, RowInv(k, r, n)
    PROVE  /\ r.lease = "LIVE" => Keeps(k, r, [r EXCEPT !.lease = "EXPIRED"], n, n)
           /\ r.claim = "LIVE" => Keeps(k, r, [r EXCEPT !.claim = "EXPIRED"], n, n)
           /\ r.due = "LATER" => Keeps(k, r, [r EXCEPT !.due = "NOW"], n, n)
  BY DEF Keeps, RowInv, RowStep, Row, PostDispatch, AbsentRow, Terminal, PreDispatch

-------------------------------------------------------------------------------
(* From one row to the table.                                              *)

\* A write of one row keeps the table if it keeps the row.
LEMMA PutKept ==
    ASSUME RowsInv, NEW k \in Keys, NEW r, PutRow(k, r),
           nextToken' \in Nat, nextToken <= nextToken',
           Keeps(k, rows[k], r, nextToken, nextToken')
    PROVE  RowsKept
  <1>0. rows \in [Keys -> Row] /\ nextToken \in Nat
    BY DEF RowsInv, TypeOK
  <1> SUFFICES ASSUME NEW j \in Keys
               PROVE  Keeps(j, rows[j], rows'[j], nextToken, nextToken')
    BY DEF RowsKept
  <1>1. CASE j = k
    BY <1>0, <1>1 DEF PutRow
  <1>2. CASE j # k
    <2>1. rows'[j] = rows[j]
      BY <1>0, <1>2 DEF PutRow
    <2>2. rows[j] \in Row /\ RowInv(j, rows[j], nextToken)
      BY <1>0 DEF RowsInv
    <2> QED BY <1>0, <2>1, <2>2, SameRowKept
  <1> QED BY <1>1, <1>2

\* AcquireWithAuthority keeps the table, on each of its four paths.
LEMMA AdmissionKept ==
    ASSUME RowsInv, NEW se, NEW k \in Keys, AdmissionStep(se, k)
    PROVE  RowsKept
  <1>0. rows[k] \in Row /\ nextToken \in Nat /\ RowInv(k, rows[k], nextToken)
    BY DEF RowsInv, TypeOK
  <1>1. NewToken \in Nat /\ nextToken <= NewToken
    BY <1>0 DEF NewToken
  <1>2. ASSUME NEW d \in Digests, InsertRow(se, k, d) PROVE RowsKept
    BY <1>0, <1>1, <1>2, InsertKept, PutKept DEF InsertRow, CanInsert
  <1>3. CASE AcquireUnleased(se, k, rows[k].version)
    BY <1>0, <1>1, <1>3, LeasedKept, PutKept DEF AcquireUnleased, CanAcquireUnleased, PreDispatch
  <1>4. CASE ReclaimExpiredLease(se, k, rows[k].version)
    BY <1>0, <1>1, <1>4, LeasedKept, PutKept DEF ReclaimExpiredLease, CanReclaim
  <1>5. CASE MarkInFlightExpiredAsUnknown(se, k, rows[k].version)
    BY <1>0, <1>5, UnknownKept, PutKept DEF MarkInFlightExpiredAsUnknown, CanMarkExpired
  <1> QED BY <1>2, <1>3, <1>4, <1>5 DEF AdmissionStep

\* So does every method of a lease holder.
LEMMA HolderKept ==
    ASSUME RowsInv, NEW se, NEW k \in Keys, NEW t, NEW g, HolderStep(se, k, t, g)
    PROVE  RowsKept
  <1>0. rows[k] \in Row /\ nextToken \in Nat /\ RowInv(k, rows[k], nextToken)
    BY DEF RowsInv, TypeOK
  <1>1. CASE BeginExecution(se, k, t, g)
    <2> DEFINE r == Bumped([rows[k] EXCEPT !.state = "EXECUTING"])
    <2>1. rows[k].state \in PreDispatch /\ rows[k].lease = "LIVE"
      BY <1>1 DEF BeginExecution, CanBegin, HoldsLease, PreDispatch
    <2>2. Keeps(k, rows[k], r, nextToken, nextToken)
      BY <1>0, <2>1, BoundaryKept
    <2>3. PutRow(k, r) /\ nextToken' = nextToken
      BY <1>1 DEF BeginExecution
    <2> HIDE DEF r
    <2> QED BY <1>0, <2>2, <2>3, PutKept
  <1>2. CASE MarkInFlight(se, k, t, g)
    <2> DEFINE r == Bumped([rows[k] EXCEPT !.state = "IN_FLIGHT", !.locator = TRUE])
    <2>1. rows[k].state \in PreDispatch /\ rows[k].lease = "LIVE"
      BY <1>2 DEF MarkInFlight, CanMarkInFlight, HoldsLease, PreDispatch
    <2>2. Keeps(k, rows[k], r, nextToken, nextToken)
      BY <1>0, <2>1, BoundaryKept
    <2>3. PutRow(k, r) /\ nextToken' = nextToken
      BY <1>2 DEF MarkInFlight
    <2> HIDE DEF r
    <2> QED BY <1>0, <2>2, <2>3, PutKept
  <1>3. CASE AbandonPreDispatch(se, k, t, g)
    <2> DEFINE r == Bumped([Unleased(rows[k]) EXCEPT !.state = "PREPARED"])
    <2>1. rows[k].state \in PreDispatch
      BY <1>3 DEF AbandonPreDispatch, CanAbandon
    <2>2. Keeps(k, rows[k], r, nextToken, nextToken)
      BY <1>0, <2>1, AbandonedKept
    <2>3. PutRow(k, r) /\ nextToken' = nextToken
      BY <1>3 DEF AbandonPreDispatch
    <2> HIDE DEF r
    <2> QED BY <1>0, <2>2, <2>3, PutKept
  <1>4. ASSUME NEW rc \in Receipts, Finalize(se, k, t, g, rows[k].version, rc) PROVE RowsKept
    <2> DEFINE r == Bumped([Unleased(rows[k]) EXCEPT !.state = rc.status, !.receipt = rc,
                                   !.run = Fill(@, rc.run), !.locator = FALSE])
    <2>1. /\ rows[k].state = "IN_FLIGHT"
          /\ Compatible(rows[k].run, rc.run) /\ ValidateTerminalTransition(k, rc)
      BY <1>4 DEF Finalize, CanFinalize
    <2>2. Keeps(k, rows[k], r, nextToken, nextToken)
      BY <1>0, <2>1, FinalizedKept
    <2>3. PutRow(k, r) /\ nextToken' = nextToken
      BY <1>4 DEF Finalize
    <2> HIDE DEF r
    <2> QED BY <1>0, <2>2, <2>3, PutKept
  <1>5. ASSUME NEW o \in Observations, RecordProviderObservation(se, k, t, g, o) PROVE RowsKept
    BY <1>0, <1>5, ObservedKept, PutKept DEF RecordProviderObservation, CanRecordObservation
  <1> QED BY <1>1, <1>2, <1>3, <1>4, <1>5 DEF HolderStep

\* So does every recovery method and every release of a claim.
LEMMA RecoveryKept ==
    ASSUME RowsInv, NEW se, NEW k \in Keys, NEW v, RecoveryStep(se, k, v)
    PROVE  RowsKept
  <1>0. rows[k] \in Row /\ nextToken \in Nat /\ RowInv(k, rows[k], nextToken)
    BY DEF RowsInv, TypeOK
  <1>1. CASE EnterRecovery(se, k, v)
    BY <1>0, <1>1, UnknownKept, PutKept DEF EnterRecovery, CanEnterRecovery
  <1>2. ASSUME NEW o \in Observations, EnterRecoveryWithObservation(se, k, v, o) PROVE RowsKept
    BY <1>0, <1>2, UnknownObservedKept, PutKept
       DEF EnterRecoveryWithObservation, CanEnterRecoveryWithObservation, CanEnterRecovery
  <1>3. CASE RecoverExpiredPreDispatch(se, k, v)
    <2> DEFINE r == [Relinquished(rows[k]) EXCEPT !.state = "PREPARED", !.due = "NOW"]
    <2>1. rows[k].state \in PreDispatch
      BY <1>3 DEF RecoverExpiredPreDispatch, CanRecoverExpired
    <2>2. Keeps(k, rows[k], r, nextToken, nextToken)
      BY <1>0, <2>1, AbandonedKept
    <2>3. PutRow(k, r) /\ nextToken' = nextToken
      BY <1>3 DEF RecoverExpiredPreDispatch
    <2> HIDE DEF r
    <2> QED BY <1>0, <2>2, <2>3, PutKept
  <1>4. ASSUME NEW rc \in Receipts, ResolveRecovery(se, k, v, rc) PROVE RowsKept
    <2> DEFINE r == Bumped([Unclaimed(rows[k]) EXCEPT !.state = rc.status, !.receipt = rc,
                                   !.due = "NOW", !.run = Fill(@, rc.run), !.locator = FALSE])
    <2>1. /\ rows[k].state = "UNKNOWN"
          /\ Compatible(rows[k].run, rc.run) /\ ValidateTerminalTransition(k, rc)
      BY <1>4 DEF ResolveRecovery, CanResolveRecovery
    <2>2. Keeps(k, rows[k], r, nextToken, nextToken)
      BY <1>0, <2>1, ResolvedKept
    <2>3. PutRow(k, r) /\ nextToken' = nextToken
      BY <1>4 DEF ResolveRecovery
    <2> HIDE DEF r
    <2> QED BY <1>0, <2>2, <2>3, PutKept
  <1>5. ASSUME NEW b \in BOOLEAN, ReleaseReconcileClaim(se, k, v, b) PROVE RowsKept
    <2> DEFINE d == IF rows[k].state = "UNKNOWN" /\ b THEN "LATER" ELSE "NOW"
    <2>1. d \in Dues
      BY DEF Dues
    <2>2. PutRow(k, Bumped([Unclaimed(rows[k]) EXCEPT !.due = d])) /\ rows[k].state # "ABSENT"
      BY <1>5 DEF ReleaseReconcileClaim, CanRelease
    <2>3. nextToken' = nextToken
      BY <1>5 DEF ReleaseReconcileClaim
    <2> HIDE DEF d
    <2> QED BY <1>0, <2>1, <2>2, <2>3, RequeuedKept, PutKept
  <1>6. CASE SuspendReconciliation(se, k, v)
    <2> DEFINE r == Bumped([Unclaimed(rows[k]) EXCEPT !.due = "PARKED"])
    <2>1. rows[k].state # "ABSENT" /\ "PARKED" \in Dues
      BY <1>6 DEF SuspendReconciliation, CanSuspend, Dues
    <2>2. Keeps(k, rows[k], r, nextToken, nextToken)
      BY <1>0, <2>1, RequeuedKept
    <2>3. PutRow(k, r) /\ nextToken' = nextToken
      BY <1>6 DEF SuspendReconciliation
    <2> HIDE DEF r
    <2> QED BY <1>0, <2>2, <2>3, PutKept
  <1> QED BY <1>1, <1>2, <1>3, <1>4, <1>5, <1>6 DEF RecoveryStep

\* So does the clock.
LEMMA ClockKept ==
    ASSUME RowsInv, NEW k \in Keys, LeaseExpires(k) \/ ClaimExpires(k) \/ BackoffElapses(k)
    PROVE  RowsKept
  <1>0. rows[k] \in Row /\ nextToken \in Nat /\ RowInv(k, rows[k], nextToken)
    BY DEF RowsInv, TypeOK
  <1> QED BY <1>0, ElapsedKept, PutKept DEF LeaseExpires, ClaimExpires, BackoffElapses

\* So do the batches, each row of which is written like one row.
LEMMA BatchKept ==
    ASSUME RowsInv, NEW se, NEW S \in SUBSET Keys, BatchStep(se, S)
    PROVE  RowsKept
  <1> SUFFICES ASSUME NEW k \in Keys
               PROVE  Keeps(k, rows[k], rows'[k], nextToken, nextToken')
    BY DEF RowsKept
  <1>0. rows[k] \in Row /\ nextToken \in Nat /\ RowInv(k, rows[k], nextToken)
    BY DEF RowsInv, TypeOK
  <1>1. nextToken' = nextToken
    BY DEF BatchStep, ClaimUnknownBatch, ClaimExpiredBatch, ScrubStaleRecoveryLocators
  <1>2. CASE rows'[k] = rows[k]
    BY <1>0, <1>1, <1>2, SameRowKept
  <1>3. ASSUME NEW w \in Owners, ClaimUnknownBatch(se, w, S), k \in S
        PROVE  Keeps(k, rows[k], rows'[k], nextToken, nextToken')
    BY <1>0, <1>1, <1>3, ClaimedKept DEF ClaimUnknownBatch, UnknownClaimable
  <1>4. ASSUME NEW w \in Owners, ClaimExpiredBatch(se, w, S), k \in S
        PROVE  Keeps(k, rows[k], rows'[k], nextToken, nextToken')
    BY <1>0, <1>1, <1>4, ClaimedKept DEF ClaimExpiredBatch, ExpiredClaimable, PreDispatch
  <1>5. ASSUME ScrubStaleRecoveryLocators(se, S), k \in S
        PROVE  Keeps(k, rows[k], rows'[k], nextToken, nextToken')
    BY <1>0, <1>1, <1>5, ScrubbedKept DEF ScrubStaleRecoveryLocators
  <1>6. k \notin S => rows'[k] = rows[k]
    BY DEF BatchStep, ClaimUnknownBatch, ClaimExpiredBatch, ScrubStaleRecoveryLocators
  <1> QED BY <1>2, <1>3, <1>4, <1>5, <1>6 DEF BatchStep

\* The operator writes no row, and a stuttering step none either.
LEMMA NoRowKept ==
    ASSUME RowsInv, OperatorStep \/ UNCHANGED storeVars
    PROVE  RowsKept
  <1>1. rows' = rows /\ nextToken' = nextToken
    BY DEF OperatorStep, AdvanceClusterEpoch, CompleteClusterRecovery, storeVars
  <1>2. \A k \in Keys : rows[k] \in Row /\ RowInv(k, rows[k], nextToken)
    BY DEF RowsInv, TypeOK
  <1>3. nextToken \in Nat
    BY DEF RowsInv, TypeOK
  <1> QED BY <1>1, <1>2, <1>3, SameRowKept DEF RowsKept

\* Every step of the store keeps every row.
LEMMA StoreKept ==
    ASSUME RowsInv, [StoreNext]_storeVars
    PROVE  RowsKept
  <1>1. ASSUME NEW se \in Epochs, NEW k \in Keys,
               \/ AdmissionStep(se, k)
               \/ HolderStep(se, k, rows[k].token, rows[k].gen)
               \/ RecoveryStep(se, k, rows[k].version)
        PROVE  RowsKept
    BY <1>1, AdmissionKept, HolderKept, RecoveryKept
  <1>2. ASSUME NEW se \in Epochs, NEW S \in SUBSET Keys, BatchStep(se, S)
        PROVE  RowsKept
    BY <1>2, BatchKept
  <1>3. CASE ClockStep
    BY <1>3, ClockKept DEF ClockStep
  <1>4. CASE OperatorStep \/ UNCHANGED storeVars
    BY <1>4, NoRowKept
  <1> QED BY <1>1, <1>2, <1>3, <1>4 DEF StoreNext

-------------------------------------------------------------------------------
(* The theorems.                                                           *)

\* An empty table keeps the invariant.
LEMMA RowsInit == StoreInit => RowsInv
  <1> SUFFICES ASSUME StoreInit, NEW k \in Keys PROVE RowInv(k, rows[k], nextToken)
    BY TypeInit DEF RowsInv
  <1>1. rows[k] = AbsentRow /\ nextToken = 0
    BY DEF StoreInit
  <1> QED BY <1>1 DEF RowInv, AbsentRow, Terminal, PreDispatch

\* The columns of every row agree with each other in every reachable state.
THEOREM RowsAgree == StoreSpec => []RowsInv
  <1>1. StoreInit => RowsInv
    BY RowsInit
  <1>2. RowsInv /\ [StoreNext]_storeVars => RowsInv'
    <2> SUFFICES ASSUME RowsInv, [StoreNext]_storeVars PROVE RowsInv'
      OBVIOUS
    <2>1. TypeOK'
      BY TypeStep DEF RowsInv
    <2>2. \A k \in Keys : RowInv(k, rows'[k], nextToken')
      BY StoreKept DEF RowsKept, Keeps
    <2> QED BY <2>1, <2>2 DEF RowsInv
  <1> QED BY <1>1, <1>2, PTL DEF StoreSpec

\* A row that is being executed or dispatched always has a lease for the clock
\* to expire, and no lease survives on an UNKNOWN or settled row, whoever
\* expired, took over, abandoned, recovered or finalized it.
THEOREM LeaseSafe == StoreSpec => []LeaseFollowsState
  <1>1. RowsInv => LeaseFollowsState
    BY DEF RowsInv, RowInv, LeaseFollowsState
  <1> QED BY <1>1, RowsAgree, PTL

\* A row is COMMITTED or FAILED only with the proof its execution class asks
\* for, a CRITICAL success only with the provider run it proves; no other row
\* carries a receipt.
THEOREM ProofSafe == StoreSpec => []SettledIsProven
  <1>1. RowsInv => SettledIsProven
    <2> SUFFICES ASSUME RowsInv, NEW k \in Keys
                 PROVE  SettledIsProven!(k)
      BY DEF SettledIsProven
    <2>1. RowInv(k, rows[k], nextToken) /\ rows[k] \in Row
      BY DEF RowsInv, TypeOK
    <2>2. CASE rows[k].state \notin Terminal
      BY <2>1, <2>2 DEF RowInv
    <2>3. CASE rows[k].state \in Terminal
      <3> DEFINE rc == rows[k].receipt
      <3>1. rc \in Receipts /\ rc.status = rows[k].state
        BY <2>1, <2>3 DEF RowInv
      <3>2. ValidateTerminalTransition(k, rc) /\ (rc.run # None => rows[k].run = rc.run)
        BY <2>1, <2>3 DEF RowInv
      <3> QED BY <2>1, <2>3, <3>1, <3>2, StoreConstants, NullIsNoValue
              DEF ValidateTerminalTransition, Attested, Receipts, Proofs, Terminal
    <2> QED BY <2>2, <2>3
  <1> QED BY <1>1, RowsAgree, PTL

\* The recovery locator is on the row before anything can be dispatched, and
\* on no row that cannot have been or that is settled.
THEOREM LocatorSafe == StoreSpec => []LocatorCoversDispatch
  <1>1. RowsInv => LocatorCoversDispatch
    BY DEF RowsInv, RowInv, LocatorCoversDispatch
  <1> QED BY <1>1, RowsAgree, PTL

\* No write replaces a recorded provider run or status.
THEOREM ObservationsStay == StoreSpec => ObservationMonotone
  <1>1. RowsInv /\ [StoreNext]_storeVars =>
          [\A k \in Keys :
              /\ rows[k].run # None => rows'[k].run = rows[k].run
              /\ rows[k].said # None => rows'[k].said = rows[k].said]_storeVars
    BY StoreKept DEF RowsKept, Keeps, RowStep
  <1> QED BY <1>1, RowsAgree, PTL DEF StoreSpec, ObservationMonotone

\* A version that is unchanged means that nobody moved, took over or claimed
\* the row since it was read: the CAS on version is enough.
THEOREM VersionsTell == StoreSpec => VersionTellsAll
  <1>1. RowsInv /\ [StoreNext]_storeVars =>
          [\A k \in Keys :
              \/ rows'[k].version > rows[k].version
              \/ /\ rows'[k].version = rows[k].version
                 /\ rows'[k].state = rows[k].state
                 /\ rows'[k].token = rows[k].token
                 /\ rows'[k].gen = rows[k].gen
                 /\ rows'[k].owner = rows[k].owner]_storeVars
    BY StoreKept DEF RowsKept, Keeps, RowStep
  <1> QED BY <1>1, RowsAgree, PTL DEF StoreSpec, VersionTellsAll

\* A row changes hands only under a token that was never handed out before and
\* a higher generation, so every credential of the old holder is refused.
THEOREM TakeoversFenced == StoreSpec => TakeoverIsFenced
  <1>1. RowsInv /\ [StoreNext]_storeVars =>
          [\A k \in Keys :
              rows'[k].token \notin {0, rows[k].token} =>
                  /\ rows'[k].token > nextToken
                  /\ rows'[k].gen > rows[k].gen]_storeVars
    BY StoreKept DEF RowsKept, Keeps, RowStep
  <1> QED BY <1>1, RowsAgree, PTL DEF StoreSpec, TakeoverIsFenced
===============================================================================
