--------------------------- MODULE EffectStoreProofs ---------------------------
(***************************************************************************)
(* Theorems about the effect ledger, for any number of keys, requests,     *)
(* workers and provider runs and any bounds.                               *)
(*                                                                         *)
(* The argument goes through one abstraction of the twenty store methods:  *)
(* LegalMove lists the transitions a row may make together with the event  *)
(* each leaves on the ledger (the table store.go calls legalTransitions).  *)
(* StoreMoves shows that every step of StoreNext either moves one row      *)
(* along that table or leaves the story of every row alone; the theorems   *)
(* follow from the table, without looking at the methods again.            *)
(***************************************************************************)
EXTENDS EffectStore, TLAPS

-------------------------------------------------------------------------------
(* The row helpers return rows.                                            *)

\* Clearing the lease columns leaves a row.
LEMMA UnleasedRow == ASSUME NEW r \in Row
                     PROVE  Unleased(r) \in Row
  BY DEF Row, Unleased, Leases

\* Clearing the claim columns leaves a row.
LEMMA UnclaimedRow == ASSUME NEW r \in Row
                      PROVE  Unclaimed(r) \in Row
  BY DEF Row, Unclaimed, Leases

\* version = version + 1 leaves a row.
LEMMA BumpedRow == ASSUME NEW r \in Row
                   PROVE  Bumped(r) \in Row
  BY DEF Row, Bumped

\* Clearing lease and claim and raising the version leaves a row.
LEMMA RelinquishedRow == ASSUME NEW r \in Row
                         PROVE  Relinquished(r) \in Row
  BY UnleasedRow, UnclaimedRow, BumpedRow DEF Relinquished

\* Filling the provider columns from an observation leaves a row.
LEMMA ObservedRow == ASSUME NEW r \in Row, NEW o \in Observations
                     PROVE  Observed(r, o) \in Row
  BY DEF Row, Observed, Observations, Fill

\* A takeover of the lease leaves a row.
LEMMA LeasedRow == ASSUME NEW r \in Row, nextToken \in Nat
                   PROVE  Leased(r) \in Row
  <1>1. NewToken \in Nat
    BY DEF NewToken
  <1>2. r.gen + 1 \in Nat
    BY DEF Row
  <1>3. ASSUME NEW t \in Nat, NEW g \in Nat
        PROVE  [r EXCEPT !.token = t, !.gen = g, !.lease = "LIVE"] \in Row
    BY DEF Row, Leases
  <1> QED BY <1>1, <1>2, <1>3, BumpedRow DEF Leased

\* A reconciliation claim leaves a row.
LEMMA ClaimedRow == ASSUME NEW r \in Row, NEW w \in Owners
                    PROVE  Claimed(r, w) \in Row
  <1>1. [r EXCEPT !.owner = w, !.claim = "LIVE"] \in Row
    BY DEF Row, Leases
  <1> QED BY <1>1, BumpedRow DEF Claimed

\* Setting a state leaves a row.
LEMMA StateRow == ASSUME NEW r \in Row, NEW s \in States
                  PROVE  [r EXCEPT !.state = s] \in Row
  BY DEF Row

\* What Finalize writes is a row.
LEMMA SettledRow ==
    ASSUME NEW r \in Row, NEW rc \in Receipts
    PROVE  [r EXCEPT !.state = rc.status, !.receipt = rc,
                     !.run = Fill(@, rc.run), !.locator = FALSE] \in Row
  <1>1. rc.status \in States
    BY DEF Receipts, States, PostDispatch
  <1>2. Fill(r.run, rc.run) \in Runs \cup {None}
    BY DEF Row, Receipts, Fill
  <1> QED BY <1>1, <1>2 DEF Row

\* The key nobody used yet is a row.
LEMMA AbsentRowType == AbsentRow \in Row
  BY DEF AbsentRow, Row, States, Leases, Dues

\* Replacing one row by a row keeps the table typed.
LEMMA PutRowType ==
    ASSUME rows \in [Keys -> Row], NEW k \in Keys, NEW r \in Row, PutRow(k, r)
    PROVE  rows' \in [Keys -> Row]
  BY DEF PutRow

\* Every ledger event keeps the ledger typed.
LEMMA EventType ==
    ASSUME ledger \in [Keys -> Ledger], NEW k \in Keys,
           DispatchStarted(k) \/ EnteredUnknown(k) \/ TerminalResolved(k) \/ NoEvent
    PROVE  ledger' \in [Keys -> Ledger]
  BY DEF Ledger, DispatchStarted, EnteredUnknown, TerminalResolved, NoEvent, Event

\* The empty ledger is typed.
LEMMA TypeInit == StoreInit => TypeOK
  <1> SUFFICES ASSUME StoreInit PROVE TypeOK
    OBVIOUS
  <1>1. rows \in [Keys -> Row]
    BY AbsentRowType DEF StoreInit
  <1>2. ledger \in [Keys -> Ledger]
    BY DEF StoreInit, Ledger
  <1> QED BY <1>1, <1>2 DEF StoreInit, TypeOK

-------------------------------------------------------------------------------
(* Every step moves a row along the table, or none.                        *)

\* The part of a row that says what became of the effect.
SameStory(old, new) ==
    /\ new.state = old.state
    /\ new.receipt = old.receipt
    /\ new.run = old.run
    /\ new.said = old.said

\* The transitions a row may make, with the event each leaves on the ledger.
LegalMove(k, old, new) ==
    \/ SameStory(old, new) /\ NoEvent
    \/ new.state = old.state /\ old.state \in {"IN_FLIGHT", "UNKNOWN"} /\ NoEvent
    \/ old.state \in {"ABSENT"} \cup PreDispatch /\ new.state \in PreDispatch /\ NoEvent
    \/ old.state = "EXECUTING" /\ new.state = "IN_FLIGHT" /\ DispatchStarted(k)
    \/ old.state = "IN_FLIGHT" /\ new.state = "UNKNOWN" /\ EnteredUnknown(k)
    \/ old.state \in {"IN_FLIGHT", "UNKNOWN"} /\ new.state \in Terminal /\ TerminalResolved(k)

\* A step that writes one row.
RowMove(k) ==
    /\ \E r \in Row : PutRow(k, r) /\ LegalMove(k, rows[k], r)
    /\ nextToken' \in Nat
    /\ SameCluster

\* A step that leaves the story of every row alone.
QuietMove ==
    /\ rows' \in [Keys -> Row]
    /\ \A k \in Keys : SameStory(rows[k], rows'[k])
    /\ NoEvent
    /\ nextToken' \in Nat /\ epoch' \in Nat /\ recoveryRequired' \in BOOLEAN

\* Clearing the lease says nothing about the effect.
LEMMA UnleasedStory == ASSUME NEW r \in Row
                       PROVE  SameStory(r, Unleased(r))
  BY DEF Row, Unleased, SameStory

\* Clearing the claim says nothing about the effect.
LEMMA UnclaimedStory == ASSUME NEW r \in Row
                        PROVE  SameStory(r, Unclaimed(r))
  BY DEF Row, Unclaimed, SameStory

\* A version bump says nothing about the effect.
LEMMA BumpedStory == ASSUME NEW r \in Row
                     PROVE  SameStory(r, Bumped(r))
  BY DEF Row, Bumped, SameStory

\* Nor does doing all three.
LEMMA RelinquishedStory == ASSUME NEW r \in Row
                           PROVE  SameStory(r, Relinquished(r))
  BY UnleasedRow, UnclaimedRow, UnleasedStory, UnclaimedStory, BumpedStory
     DEF Relinquished, SameStory

\* A takeover of the lease says nothing about the effect.
LEMMA LeasedStory == ASSUME NEW r \in Row, nextToken \in Nat
                     PROVE  SameStory(r, Leased(r))
  BY DEF Row, Leased, Bumped, SameStory

\* A claim says nothing about the effect.
LEMMA ClaimedStory == ASSUME NEW r \in Row, NEW w \in Owners
                      PROVE  SameStory(r, Claimed(r, w))
  BY DEF Row, Claimed, Bumped, SameStory

\* An update of the state sets the state.
LEMMA StateSet == ASSUME NEW r \in Row, NEW s \in States
                  PROVE  [r EXCEPT !.state = s].state = s
  BY DEF Row

\* Finalize writes a terminal state.
LEMMA SettledState ==
    ASSUME NEW r \in Row, NEW rc \in Receipts
    PROVE  [r EXCEPT !.state = rc.status, !.receipt = rc,
                     !.run = Fill(@, rc.run), !.locator = FALSE].state \in Terminal
  BY DEF Row, Receipts

\* What ResolveRecovery writes is a row.
LEMMA ResolvedRow ==
    ASSUME NEW r \in Row, NEW rc \in Receipts
    PROVE  [r EXCEPT !.state = rc.status, !.receipt = rc, !.due = "NOW",
                     !.run = Fill(@, rc.run), !.locator = FALSE] \in Row
  <1>1. rc.status \in States
    BY DEF Receipts, States, PostDispatch
  <1>2. Fill(r.run, rc.run) \in Runs \cup {None}
    BY DEF Row, Receipts, Fill
  <1> QED BY <1>1, <1>2 DEF Row, Dues

\* ResolveRecovery writes a terminal state.
LEMMA ResolvedState ==
    ASSUME NEW r \in Row, NEW rc \in Receipts
    PROVE  [r EXCEPT !.state = rc.status, !.receipt = rc, !.due = "NOW",
                     !.run = Fill(@, rc.run), !.locator = FALSE].state \in Terminal
  BY DEF Row, Receipts

\* Releasing or suspending a claim leaves a row and its story.
LEMMA RequeuedRow ==
    ASSUME NEW r \in Row, NEW d \in Dues
    PROVE  /\ Bumped([Unclaimed(r) EXCEPT !.due = d]) \in Row
           /\ SameStory(r, Bumped([Unclaimed(r) EXCEPT !.due = d]))
  <1>1. ASSUME NEW q \in Row PROVE [q EXCEPT !.due = d] \in Row
    BY DEF Row
  <1>2. ASSUME NEW q \in Row PROVE SameStory(q, [q EXCEPT !.due = d])
    BY DEF Row, SameStory
  <1> DEFINE q == [Unclaimed(r) EXCEPT !.due = d]
  <1>3. q \in Row
    BY <1>1, UnclaimedRow
  <1>4. SameStory(Unclaimed(r), q) /\ SameStory(r, Unclaimed(r))
    BY <1>2, UnclaimedRow, UnclaimedStory
  <1> HIDE DEF q
  <1>5. Bumped(q) \in Row /\ SameStory(q, Bumped(q))
    BY <1>3, BumpedRow, BumpedStory
  <1>6. SameStory(r, Bumped(q))
    BY <1>4, <1>5 DEF SameStory
  <1> QED BY <1>5, <1>6 DEF q

\* An observation leaves the state alone.
LEMMA ObservedState == ASSUME NEW r \in Row, NEW o \in Observations
                       PROVE  Observed(r, o).state = r.state
  BY DEF Row, Observed

\* AcquireWithAuthority moves a row along the table, on each of its four paths.
LEMMA AdmissionMoves ==
    ASSUME TypeOK, NEW se \in Epochs, NEW k \in Keys, AdmissionStep(se, k)
    PROVE  RowMove(k)
  <1>0. rows[k] \in Row /\ nextToken \in Nat /\ NewToken \in Nat
    BY DEF TypeOK, NewToken
  <1>1. ASSUME NEW d \in Digests, InsertRow(se, k, d) PROVE RowMove(k)
    <2> DEFINE r == [AbsentRow EXCEPT !.state = "PREPARED", !.digest = d, !.token = NewToken,
                                      !.gen = 1, !.version = 1, !.lease = "LIVE"]
    <2>1. ASSUME NEW t \in Nat
          PROVE  [AbsentRow EXCEPT !.state = "PREPARED", !.digest = d, !.token = t,
                                   !.gen = 1, !.version = 1, !.lease = "LIVE"] \in Row
      BY DEF AbsentRow, Row, States, PreDispatch, Leases, Dues
    <2>2. r \in Row
      BY <1>0, <2>1
    <2>3. r.state = "PREPARED"
      BY DEF AbsentRow
    <2>4. PutRow(k, r) /\ NoEvent /\ SameCluster /\ nextToken' \in Nat
      BY <1>0, <1>1 DEF InsertRow
    <2>5. rows[k].state = "ABSENT"
      BY <1>1 DEF InsertRow, CanInsert
    <2> HIDE DEF r
    <2> QED BY <2>2, <2>3, <2>4, <2>5 DEF RowMove, LegalMove, PreDispatch
  <1>2. CASE AcquireUnleased(se, k, rows[k].version)
    BY <1>0, <1>2, LeasedRow, LeasedStory DEF AcquireUnleased, RowMove, LegalMove
  <1>3. CASE ReclaimExpiredLease(se, k, rows[k].version)
    <2> DEFINE r == [Leased(rows[k]) EXCEPT !.state = "PREPARED"]
    <2>1. r \in Row /\ r.state = "PREPARED"
      BY <1>0, LeasedRow, StateRow, StateSet DEF States, PreDispatch
    <2>2. rows[k].state \in PreDispatch
      BY <1>3 DEF ReclaimExpiredLease, CanReclaim
    <2> QED BY <1>0, <1>3, <2>1, <2>2 DEF ReclaimExpiredLease, RowMove, LegalMove, PreDispatch
  <1>4. CASE MarkInFlightExpiredAsUnknown(se, k, rows[k].version)
    <2> DEFINE r == [Relinquished(rows[k]) EXCEPT !.state = "UNKNOWN"]
    <2>1. r \in Row /\ r.state = "UNKNOWN"
      BY <1>0, RelinquishedRow, StateRow, StateSet DEF States, PostDispatch
    <2>2. rows[k].state = "IN_FLIGHT"
      BY <1>4 DEF MarkInFlightExpiredAsUnknown, CanMarkExpired
    <2> QED BY <1>0, <1>4, <2>1, <2>2 DEF MarkInFlightExpiredAsUnknown, RowMove, LegalMove
  <1> QED BY <1>1, <1>2, <1>3, <1>4 DEF AdmissionStep

\* So does every method of a lease holder.
LEMMA HolderMoves ==
    ASSUME TypeOK, NEW se \in Epochs, NEW k \in Keys,
           NEW t, NEW g, HolderStep(se, k, t, g)
    PROVE  RowMove(k)
  <1>0. rows[k] \in Row /\ nextToken \in Nat
    BY DEF TypeOK
  <1>1. CASE BeginExecution(se, k, t, g)
    <2> DEFINE q == [rows[k] EXCEPT !.state = "EXECUTING"]
    <2>1. q \in Row /\ q.state = "EXECUTING"
      BY <1>0, StateRow, StateSet DEF States, PreDispatch
    <2>2. Bumped(q) \in Row /\ Bumped(q).state = "EXECUTING"
      BY <2>1, BumpedRow, BumpedStory DEF SameStory
    <2>3. rows[k].state \in PreDispatch
      BY <1>1 DEF BeginExecution, CanBegin, PreDispatch
    <2> QED BY <1>0, <1>1, <2>2, <2>3 DEF BeginExecution, RowMove, LegalMove, PreDispatch
  <1>2. CASE MarkInFlight(se, k, t, g)
    <2> DEFINE q == [rows[k] EXCEPT !.state = "IN_FLIGHT", !.locator = TRUE]
    <2>1. q \in Row /\ q.state = "IN_FLIGHT"
      BY <1>0 DEF Row, States, PostDispatch
    <2>2. Bumped(q) \in Row /\ Bumped(q).state = "IN_FLIGHT"
      BY <2>1, BumpedRow, BumpedStory DEF SameStory
    <2>3. rows[k].state = "EXECUTING"
      BY <1>2 DEF MarkInFlight, CanMarkInFlight
    <2> QED BY <1>0, <1>2, <2>2, <2>3 DEF MarkInFlight, RowMove, LegalMove
  <1>3. CASE AbandonPreDispatch(se, k, t, g)
    <2> DEFINE q == [Unleased(rows[k]) EXCEPT !.state = "PREPARED"]
    <2>1. q \in Row /\ q.state = "PREPARED"
      BY <1>0, UnleasedRow, StateRow, StateSet DEF States, PreDispatch
    <2>2. Bumped(q) \in Row /\ Bumped(q).state = "PREPARED"
      BY <2>1, BumpedRow, BumpedStory DEF SameStory
    <2>3. rows[k].state \in PreDispatch
      BY <1>3 DEF AbandonPreDispatch, CanAbandon
    <2> QED BY <1>0, <1>3, <2>2, <2>3 DEF AbandonPreDispatch, RowMove, LegalMove, PreDispatch
  <1>4. ASSUME NEW rc \in Receipts,
               Finalize(se, k, t, g, rows[k].version, rc)
        PROVE  RowMove(k)
    <2> DEFINE q == [Unleased(rows[k]) EXCEPT !.state = rc.status, !.receipt = rc,
                                              !.run = Fill(@, rc.run), !.locator = FALSE]
    <2>1. q \in Row
      BY <1>0, UnleasedRow, SettledRow
    <2>2. q.state \in Terminal
      BY <1>0, UnleasedRow, SettledState
    <2> HIDE DEF q
    <2>3. Bumped(q) \in Row /\ Bumped(q).state \in Terminal
      BY <2>1, <2>2, BumpedRow, BumpedStory DEF SameStory
    <2> USE DEF q
    <2>4. rows[k].state = "IN_FLIGHT"
      BY <1>4 DEF Finalize, CanFinalize
    <2> QED BY <1>0, <1>4, <2>3, <2>4 DEF Finalize, RowMove, LegalMove
  <1>5. ASSUME NEW o \in Observations, RecordProviderObservation(se, k, t, g, o)
        PROVE  RowMove(k)
    <2>1. Observed(rows[k], o) \in Row /\ Observed(rows[k], o).state = rows[k].state
      BY <1>0, ObservedRow, ObservedState
    <2>2. rows[k].state \in {"IN_FLIGHT", "UNKNOWN"}
      BY <1>5 DEF RecordProviderObservation, CanRecordObservation
    <2> QED BY <1>0, <1>5, <2>1, <2>2 DEF RecordProviderObservation, RowMove, LegalMove
  <1> QED BY <1>1, <1>2, <1>3, <1>4, <1>5 DEF HolderStep

\* So does every recovery method and every release of a claim.
LEMMA RecoveryMoves ==
    ASSUME TypeOK, NEW se \in Epochs, NEW k \in Keys, NEW v, RecoveryStep(se, k, v)
    PROVE  RowMove(k)
  <1>0. rows[k] \in Row /\ nextToken \in Nat
    BY DEF TypeOK
  <1>1. CASE EnterRecovery(se, k, v)
    <2> DEFINE r == [Relinquished(rows[k]) EXCEPT !.state = "UNKNOWN"]
    <2>1. r \in Row /\ r.state = "UNKNOWN"
      BY <1>0, RelinquishedRow, StateRow, StateSet DEF States, PostDispatch
    <2>2. rows[k].state = "IN_FLIGHT"
      BY <1>1 DEF EnterRecovery, CanEnterRecovery
    <2> QED BY <1>0, <1>1, <2>1, <2>2 DEF EnterRecovery, RowMove, LegalMove
  <1>2. ASSUME NEW o \in Observations, EnterRecoveryWithObservation(se, k, v, o)
        PROVE  RowMove(k)
    <2> DEFINE r == [Observed(Relinquished(rows[k]), o) EXCEPT !.state = "UNKNOWN"]
    <2>1. r \in Row /\ r.state = "UNKNOWN"
      BY <1>0, RelinquishedRow, ObservedRow, StateRow, StateSet DEF States, PostDispatch
    <2>2. rows[k].state = "IN_FLIGHT"
      BY <1>2 DEF EnterRecoveryWithObservation, CanEnterRecoveryWithObservation, CanEnterRecovery
    <2> QED BY <1>0, <1>2, <2>1, <2>2 DEF EnterRecoveryWithObservation, RowMove, LegalMove
  <1>3. CASE RecoverExpiredPreDispatch(se, k, v)
    <2> DEFINE r == [Relinquished(rows[k]) EXCEPT !.state = "PREPARED", !.due = "NOW"]
    <2>1. r \in Row /\ r.state = "PREPARED"
      BY <1>0, RelinquishedRow DEF Row, States, PreDispatch, Dues
    <2>2. rows[k].state \in PreDispatch
      BY <1>3 DEF RecoverExpiredPreDispatch, CanRecoverExpired
    <2> QED BY <1>0, <1>3, <2>1, <2>2
            DEF RecoverExpiredPreDispatch, RowMove, LegalMove, PreDispatch
  <1>4. ASSUME NEW rc \in Receipts,
               ResolveRecovery(se, k, v, rc)
        PROVE  RowMove(k)
    <2> DEFINE q == [Unclaimed(rows[k]) EXCEPT !.state = rc.status, !.receipt = rc,
                                               !.due = "NOW", !.run = Fill(@, rc.run),
                                               !.locator = FALSE]
    <2>1. q \in Row
      BY <1>0, UnclaimedRow, ResolvedRow
    <2>2. q.state \in Terminal
      BY <1>0, UnclaimedRow, ResolvedState
    <2> HIDE DEF q
    <2>3. Bumped(q) \in Row /\ Bumped(q).state \in Terminal
      BY <2>1, <2>2, BumpedRow, BumpedStory DEF SameStory
    <2> USE DEF q
    <2>4. rows[k].state = "UNKNOWN"
      BY <1>4 DEF ResolveRecovery, CanResolveRecovery
    <2> QED BY <1>0, <1>4, <2>3, <2>4 DEF ResolveRecovery, RowMove, LegalMove
  <1>5. ASSUME NEW b \in BOOLEAN, ReleaseReconcileClaim(se, k, v, b)
        PROVE  RowMove(k)
    <2> DEFINE d == IF rows[k].state = "UNKNOWN" /\ b THEN "LATER" ELSE "NOW"
    <2>1. d \in Dues
      BY DEF Dues
    <2>2. PutRow(k, Bumped([Unclaimed(rows[k]) EXCEPT !.due = d]))
      BY <1>5 DEF ReleaseReconcileClaim
    <2> HIDE DEF d
    <2> QED BY <1>0, <1>5, <2>1, <2>2, RequeuedRow DEF ReleaseReconcileClaim, RowMove, LegalMove
  <1>6. CASE SuspendReconciliation(se, k, v)
    <2>1. PutRow(k, Bumped([Unclaimed(rows[k]) EXCEPT !.due = "PARKED"]))
      BY <1>6 DEF SuspendReconciliation
    <2> QED BY <1>0, <1>6, <2>1, RequeuedRow
            DEF SuspendReconciliation, RowMove, LegalMove, Dues
  <1> QED BY <1>1, <1>2, <1>3, <1>4, <1>5, <1>6 DEF RecoveryStep

\* Time passing leaves the story of a row alone.
LEMMA ClockMoves ==
    ASSUME TypeOK, NEW k \in Keys, LeaseExpires(k) \/ ClaimExpires(k) \/ BackoffElapses(k)
    PROVE  RowMove(k)
  <1>0. rows[k] \in Row /\ nextToken \in Nat
    BY DEF TypeOK
  <1>1. CASE LeaseExpires(k)
    <2> DEFINE r == [rows[k] EXCEPT !.lease = "EXPIRED"]
    <2>1. r \in Row
      BY <1>0 DEF Row, Leases
    <2>2. SameStory(rows[k], r)
      BY <1>0 DEF Row, SameStory
    <2> QED BY <1>0, <1>1, <2>1, <2>2 DEF LeaseExpires, RowMove, LegalMove
  <1>2. CASE ClaimExpires(k)
    <2> DEFINE r == [rows[k] EXCEPT !.claim = "EXPIRED"]
    <2>1. r \in Row
      BY <1>0 DEF Row, Leases
    <2>2. SameStory(rows[k], r)
      BY <1>0 DEF Row, SameStory
    <2> QED BY <1>0, <1>2, <2>1, <2>2 DEF ClaimExpires, RowMove, LegalMove
  <1>3. CASE BackoffElapses(k)
    <2> DEFINE r == [rows[k] EXCEPT !.due = "NOW"]
    <2>1. r \in Row
      BY <1>0 DEF Row, Dues
    <2>2. SameStory(rows[k], r)
      BY <1>0 DEF Row, SameStory
    <2> QED BY <1>0, <1>3, <2>1, <2>2 DEF BackoffElapses, RowMove, LegalMove
  <1> QED BY <1>1, <1>2, <1>3

\* Claiming and scrubbing a batch leaves the story of every row alone.
LEMMA BatchMoves ==
    ASSUME TypeOK, NEW se \in Epochs, NEW S \in SUBSET Keys, BatchStep(se, S)
    PROVE  QuietMove
  <1>0. \A k \in Keys : rows[k] \in Row
    BY DEF TypeOK
  <1>1. \A k \in Keys : SameStory(rows[k], rows[k])
    BY DEF SameStory
  <1>2. ASSUME NEW w \in Owners, ClaimUnknownBatch(se, w, S) PROVE QuietMove
    <2>1. ASSUME NEW r \in Row
          PROVE  [Claimed(r, w) EXCEPT !.attempt = @ + 1] \in Row
      <3>1. ASSUME NEW q \in Row PROVE [q EXCEPT !.attempt = @ + 1] \in Row
        BY DEF Row
      <3> QED BY <3>1, ClaimedRow
    <2>2. ASSUME NEW r \in Row
          PROVE  SameStory(r, [Claimed(r, w) EXCEPT !.attempt = @ + 1])
      <3>1. ASSUME NEW q \in Row PROVE SameStory(q, [q EXCEPT !.attempt = @ + 1])
        BY DEF Row, SameStory
      <3> QED BY <3>1, ClaimedRow, ClaimedStory DEF SameStory
    <2>3. rows' \in [Keys -> Row]
      BY <1>0, <1>2, <2>1 DEF ClaimUnknownBatch
    <2>4. \A k \in Keys : SameStory(rows[k], rows'[k])
      BY <1>0, <1>1, <1>2, <2>2 DEF ClaimUnknownBatch
    <2> QED BY <1>2, <2>3, <2>4 DEF ClaimUnknownBatch, QuietMove, SameCluster, TypeOK
  <1>3. ASSUME NEW w \in Owners, ClaimExpiredBatch(se, w, S) PROVE QuietMove
    <2>1. rows' \in [Keys -> Row]
      BY <1>0, <1>3, ClaimedRow DEF ClaimExpiredBatch
    <2>2. \A k \in Keys : SameStory(rows[k], rows'[k])
      BY <1>0, <1>1, <1>3, ClaimedStory DEF ClaimExpiredBatch
    <2> QED BY <1>3, <2>1, <2>2 DEF ClaimExpiredBatch, QuietMove, SameCluster, TypeOK
  <1>4. CASE ScrubStaleRecoveryLocators(se, S)
    <2>1. ASSUME NEW r \in Row PROVE [r EXCEPT !.locator = FALSE] \in Row
      BY DEF Row
    <2>2. ASSUME NEW r \in Row PROVE SameStory(r, [r EXCEPT !.locator = FALSE])
      BY DEF Row, SameStory
    <2>3. rows' \in [Keys -> Row]
      BY <1>0, <1>4, <2>1 DEF ScrubStaleRecoveryLocators
    <2>4. \A k \in Keys : SameStory(rows[k], rows'[k])
      BY <1>0, <1>1, <1>4, <2>2 DEF ScrubStaleRecoveryLocators
    <2> QED BY <1>4, <2>3, <2>4 DEF ScrubStaleRecoveryLocators, QuietMove, SameCluster, TypeOK
  <1> QED BY <1>2, <1>3, <1>4 DEF BatchStep

\* The operator's epoch commands leave every row alone.
LEMMA OperatorMoves ==
    ASSUME TypeOK, OperatorStep
    PROVE  QuietMove
  <1>1. PICK x \in Epochs : AdvanceClusterEpoch(x) \/ CompleteClusterRecovery(x)
    BY DEF OperatorStep
  <1>2. rows' = rows /\ ledger' = ledger /\ nextToken' = nextToken
    BY <1>1 DEF AdvanceClusterEpoch, CompleteClusterRecovery
  <1>3. epoch' \in Nat
    BY <1>1 DEF TypeOK, AdvanceClusterEpoch, CompleteClusterRecovery
  <1>4. recoveryRequired' \in BOOLEAN
    BY <1>1 DEF AdvanceClusterEpoch, CompleteClusterRecovery
  <1> QED BY <1>2, <1>3, <1>4 DEF TypeOK, QuietMove, SameStory, NoEvent

\* So does a stuttering step.
LEMMA StutterMoves ==
    ASSUME TypeOK, UNCHANGED storeVars
    PROVE  QuietMove
  BY DEF TypeOK, storeVars, QuietMove, SameStory, NoEvent

\* The case split all theorems rest on: every step is quiet or moves one row.
LEMMA StoreMoves ==
    ASSUME TypeOK, [StoreNext]_storeVars
    PROVE  QuietMove \/ \E k \in Keys : RowMove(k)
  <1>1. ASSUME NEW se \in Epochs, NEW k \in Keys,
               \/ AdmissionStep(se, k)
               \/ HolderStep(se, k, rows[k].token, rows[k].gen)
               \/ RecoveryStep(se, k, rows[k].version)
        PROVE  RowMove(k)
    BY <1>1, AdmissionMoves, HolderMoves, RecoveryMoves
  <1>2. ASSUME NEW se \in Epochs, NEW S \in SUBSET Keys, BatchStep(se, S)
        PROVE  QuietMove
    BY <1>2, BatchMoves
  <1>3. CASE OperatorStep
    BY <1>3, OperatorMoves
  <1>4. CASE ClockStep
    BY <1>4, ClockMoves DEF ClockStep
  <1>5. CASE UNCHANGED storeVars
    BY <1>5, StutterMoves
  <1> QED BY <1>1, <1>2, <1>3, <1>4, <1>5 DEF StoreNext

-------------------------------------------------------------------------------
(* The theorems.                                                           *)

\* TypeOK is inductive.
LEMMA TypeStep == TypeOK /\ [StoreNext]_storeVars => TypeOK'
  <1> SUFFICES ASSUME TypeOK, [StoreNext]_storeVars PROVE TypeOK'
    OBVIOUS
  <1>1. CASE QuietMove
    BY <1>1 DEF QuietMove, NoEvent, TypeOK
  <1>2. ASSUME NEW k \in Keys, RowMove(k) PROVE TypeOK'
    <2>1. PICK r \in Row : PutRow(k, r) /\ LegalMove(k, rows[k], r)
      BY <1>2 DEF RowMove
    <2>2. rows' \in [Keys -> Row]
      BY <2>1, PutRowType DEF TypeOK
    <2>3. ledger' \in [Keys -> Ledger]
      BY <2>1, EventType DEF LegalMove, TypeOK
    <2>4. epoch' \in Nat /\ recoveryRequired' \in BOOLEAN
      BY <1>2 DEF RowMove, SameCluster, TypeOK
    <2> QED BY <1>2, <2>2, <2>3, <2>4 DEF RowMove, TypeOK
  <1> QED BY <1>1, <1>2, StoreMoves

\* Every store method keeps the ledger well typed: no method invents a state,
\* a lease, a claim owner or a receipt outside the columns' domains.
THEOREM TypeCorrect == StoreSpec => []TypeOK
  BY TypeInit, TypeStep, PTL DEF StoreSpec

\* LedgerAgrees of one key.
Agrees(state, l) ==
    /\ l.started = IF state \in PostDispatch THEN 1 ELSE 0
    /\ l.terminal = IF state \in Terminal THEN 1 ELSE 0
    /\ state \in {"ABSENT", "IN_FLIGHT"} \cup PreDispatch => l.unknown = 0
    /\ state = "UNKNOWN" => l.unknown = 1
    /\ l.unknown <= 1

\* LedgerAgrees, key by key.
LEMMA LedgerByKey == LedgerAgrees <=> \A k \in Keys : Agrees(rows[k].state, ledger[k])
  BY DEF LedgerAgrees, Agrees

\* A legal move keeps a row and its ledger entry in agreement.
LEMMA MoveAgrees ==
    ASSUME TypeOK, NEW k \in Keys, NEW r \in Row,
           LegalMove(k, rows[k], r), Agrees(rows[k].state, ledger[k])
    PROVE  Agrees(r.state, ledger'[k])
  <1>0. ledger \in [Keys -> Ledger] /\ ledger[k] \in Ledger
    BY DEF TypeOK
  <1> USE DEF Agrees, PostDispatch, PreDispatch, Terminal
  <1>1. CASE /\ \/ r.state = rows[k].state
                \/ rows[k].state \in {"ABSENT"} \cup PreDispatch /\ r.state \in PreDispatch
             /\ NoEvent
    BY <1>0, <1>1 DEF NoEvent
  <1>2. CASE rows[k].state = "EXECUTING" /\ r.state = "IN_FLIGHT" /\ DispatchStarted(k)
    BY <1>0, <1>2 DEF DispatchStarted, Event, Ledger
  <1>3. CASE rows[k].state = "IN_FLIGHT" /\ r.state = "UNKNOWN" /\ EnteredUnknown(k)
    BY <1>0, <1>3 DEF EnteredUnknown, Event, Ledger
  <1>4. CASE /\ rows[k].state \in {"IN_FLIGHT", "UNKNOWN"} /\ r.state \in Terminal
             /\ TerminalResolved(k)
    BY <1>0, <1>4 DEF TerminalResolved, Event, Ledger
  <1> QED BY <1>1, <1>2, <1>3, <1>4 DEF LegalMove, SameStory

\* LedgerAgrees is inductive relative to TypeOK.
LEMMA LedgerStep == TypeOK /\ LedgerAgrees /\ [StoreNext]_storeVars => LedgerAgrees'
  <1> SUFFICES ASSUME TypeOK, LedgerAgrees, [StoreNext]_storeVars
               PROVE  \A j \in Keys : Agrees(rows'[j].state, ledger'[j])
    BY LedgerByKey DEF LedgerAgrees, Agrees
  <1>0. \A j \in Keys : Agrees(rows[j].state, ledger[j])
    BY LedgerByKey
  <1>1. CASE QuietMove
    BY <1>0, <1>1 DEF QuietMove, SameStory, NoEvent
  <1>2. ASSUME NEW k \in Keys, RowMove(k), NEW j \in Keys
        PROVE  Agrees(rows'[j].state, ledger'[j])
    <2>1. PICK r \in Row : PutRow(k, r) /\ LegalMove(k, rows[k], r)
      BY <1>2 DEF RowMove
    <2>2. CASE j = k
      <3>1. rows'[k] = r
        BY <2>1 DEF PutRow, TypeOK
      <3> QED BY <1>0, <2>1, <2>2, <3>1, MoveAgrees
    <2>3. CASE j # k
      <3>1. rows'[j] = rows[j]
        BY <2>1, <2>3 DEF PutRow, TypeOK
      <3>2. ledger'[j] = ledger[j]
        BY <2>1, <2>3 DEF LegalMove, NoEvent, Event, DispatchStarted, EnteredUnknown,
                          TerminalResolved, TypeOK
      <3> QED BY <1>0, <3>1, <3>2
    <2> QED BY <2>2, <2>3
  <1> QED BY <1>1, <1>2, StoreMoves

\* In every behaviour of the store, under any callers, MarkInFlight is recorded
\* at most once per key and exactly when the row is past the dispatch boundary,
\* UNKNOWN is entered at most once, and one terminal resolution is recorded
\* exactly when the row is COMMITTED or FAILED.
THEOREM LedgerSafe == StoreSpec => []LedgerAgrees
  <1>1. StoreInit => LedgerAgrees
    <2> SUFFICES ASSUME StoreInit, NEW k \in Keys
                 PROVE  Agrees(rows[k].state, ledger[k])
      BY LedgerByKey
    <2>1. rows[k].state = "ABSENT"
      BY DEF StoreInit, AbsentRow
    <2>2. ledger[k] = [started |-> 0, unknown |-> 0, terminal |-> 0]
      BY DEF StoreInit
    <2> QED BY <2>1, <2>2 DEF Agrees, PostDispatch, Terminal
  <1> QED BY <1>1, TypeInit, TypeStep, LedgerStep, PTL DEF StoreSpec

\* A COMMITTED or FAILED row keeps its state, its receipt and the recorded
\* provider identity whatever late holders, late workers, claim releases and
\* scrubs do afterwards.
THEOREM SettledStays == StoreSpec => SettledForever
  <1>1. TypeOK /\ [StoreNext]_storeVars =>
          [\A k \in Keys : rows[k].state \in Terminal =>
              /\ rows'[k].state = rows[k].state
              /\ rows'[k].receipt = rows[k].receipt
              /\ rows'[k].run = rows[k].run
              /\ rows'[k].said = rows[k].said]_storeVars
    <2> SUFFICES ASSUME TypeOK, [StoreNext]_storeVars,
                        NEW j \in Keys, rows[j].state \in Terminal
                 PROVE  SameStory(rows[j], rows'[j])
      BY DEF SameStory
    <2>1. CASE QuietMove
      BY <2>1 DEF QuietMove
    <2>2. ASSUME NEW k \in Keys, RowMove(k) PROVE SameStory(rows[j], rows'[j])
      <3>1. PICK r \in Row : PutRow(k, r) /\ LegalMove(k, rows[k], r)
        BY <2>2 DEF RowMove
      <3>2. CASE j = k
        <4>1. SameStory(rows[k], r)
          BY <3>1, <3>2 DEF LegalMove, Terminal, PreDispatch
        <4> QED BY <3>1, <3>2, <4>1 DEF PutRow, TypeOK
      <3>3. CASE j # k
        BY <3>1, <3>3 DEF PutRow, TypeOK, SameStory
      <3> QED BY <3>2, <3>3
    <2> QED BY <2>1, <2>2, StoreMoves
  <1> QED BY <1>1, TypeCorrect, PTL DEF StoreSpec, SettledForever

\* The ledger implements EffectContract: a key is admitted, dispatched and
\* settled in that order, each at most once, and nothing leads back over the
\* dispatch boundary.
THEOREM Refinement == StoreSpec => ImplementsContract
  <1> DEFINE phase == [k \in Keys |-> PhaseOf(rows[k].state)]
  <1>1. StoreInit => Contract!Init
    <2> SUFFICES ASSUME StoreInit PROVE phase = [k \in Keys |-> "UNSEEN"]
      BY DEF Contract!Init
    <2>1. ASSUME NEW k \in Keys PROVE rows[k].state = "ABSENT"
      BY DEF StoreInit, AbsentRow
    <2> QED BY <2>1 DEF PhaseOf, PreDispatch
  <1>2. TypeOK /\ [StoreNext]_storeVars => [Contract!Next]_phase
    <2> SUFFICES ASSUME TypeOK, [StoreNext]_storeVars PROVE [Contract!Next]_phase
      OBVIOUS
    <2>1. CASE QuietMove
      BY <2>1 DEF QuietMove, SameStory
    <2>2. ASSUME NEW k \in Keys, RowMove(k) PROVE [Contract!Next]_phase
      <3>1. PICK r \in Row : PutRow(k, r) /\ LegalMove(k, rows[k], r)
        BY <2>2 DEF RowMove
      <3>2. phase' = [phase EXCEPT ![k] = PhaseOf(r.state)]
        BY <3>1 DEF PutRow, TypeOK
      <3>3. \/ PhaseOf(r.state) = phase[k]
            \/ phase[k] = "UNSEEN" /\ PhaseOf(r.state) = "ADMITTED"
            \/ phase[k] = "ADMITTED" /\ PhaseOf(r.state) = "DISPATCHED"
            \/ phase[k] = "DISPATCHED" /\ PhaseOf(r.state) \in {"COMMITTED", "FAILED"}
        BY <3>1 DEF LegalMove, SameStory, PhaseOf, PreDispatch, Terminal
      <3> QED BY <3>2, <3>3
              DEF Contract!Next, Contract!Admit, Contract!Dispatch, Contract!Settle,
                  Contract!Advance
    <2> QED BY <2>1, <2>2, StoreMoves
  <1> QED BY <1>1, <1>2, TypeCorrect, PTL DEF StoreSpec, ImplementsContract, Contract!Spec
===============================================================================
