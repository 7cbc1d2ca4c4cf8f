---------------------------- MODULE DispatchProofs ----------------------------
(***************************************************************************)
(* The ledger, the executors and the world outside: who may be sending a   *)
(* request, what it can still do to the world, and what the rows and the   *)
(* replies say of it.                                                      *)
(*                                                                         *)
(* The invariant ties every claim about the effect of a key (a handler's   *)
(* answer, a terminal row, a reply) to the world itself.  A claim that the *)
(* effect happened needs applied = 1; a claim that it never will needs     *)
(* more than applied = 0: Dead says that no request is on its way either,  *)
(* and that the dispatch boundary, which is crossed once, is behind us.    *)
(* EffectFabric and ExecutionService both compose the executors with other *)
(* actors; the step lemmas here are stated for any of them.                *)
(***************************************************************************)
EXTENDS ExecutorProofs

\* Between MarkInFlight and the reply.
Beyond == {"invoke", "await"} \cup Settling

\* A request for k may yet be sent, or is out with its sender waiting.
Sends(x, k) == x.key = k /\ (x.pc = "invoke" \/ x.call = "PENDING")
Sending(k)  == \E e \in Executors : Sends(exec[e], k)

\* The provider has not heard of k, and nothing is under way by itself.
Untouched(k) == applied[k] = 0 /\ stray[k] = 0 /\ ~rejected[k]

\* The effect of k did not happen and never will.
Dead(k) == /\ rows[k].state \in PostDispatch
           /\ applied[k] = 0 /\ stray[k] = 0 /\ ~Sending(k)

\* The row of k and the world agree.
KeyInv(k) ==
    /\ rows[k].state \notin PostDispatch => Untouched(k) /\ asked[k] = {}
    /\ Sending(k) => Untouched(k)
    /\ applied[k] <= 1 /\ stray[k] <= 1
    /\ stray[k] = 1 => applied[k] = 0 /\ ~rejected[k]
    /\ rejected[k] => applied[k] = 0
    /\ asked[k] \subseteq {rows[k].digest.req}
    /\ rows[k].state = "COMMITTED" => applied[k] = 1
    /\ rows[k].state = "FAILED" => Dead(k)

\* What an executor holds to be true is true.
HandlerInv(e) ==
    /\ ExecOK(exec[e])
    /\ exec[e].pc \in Beyond => rows[exec[e].key].state \in PostDispatch
    /\ Matched(exec[e]) \/ exec[e].pc \in Beyond =>
          AdmittedWith(rows[exec[e].key], exec[e].req)
    /\ exec[e].call = "APPLIED" \/ exec[e].verdict = "SUCCEEDED" => applied[exec[e].key] = 1
    /\ exec[e].call \in {"REJECTED", "UNSENT"} \/ exec[e].verdict = "DEFINITIVE" =>
          Dead(exec[e].key)
    /\ exec[e].reply # None => exec[e].key \in Keys
    /\ exec[e].reply = "SUCCEEDED" => rows[exec[e].key].state = "COMMITTED"
    /\ exec[e].reply \in {"FAILED", "DENIED"} =>
          rows[exec[e].key].state = "FAILED" \/ exec[e].call = "NONE"

\* No two executors are past the boundary of one key.
OneBeyond == \A d, e \in Executors :
    exec[d].pc \in Beyond /\ exec[e].pc \in Beyond /\ exec[d].key = exec[e].key => d = e

DispatchInv ==
    /\ RowsInv /\ epoch \in Epochs /\ WorldTypeOK
    /\ exec \in [Executors -> Execution]
    /\ \A e \in Executors : HandlerInv(e)
    /\ \A k \in Keys : KeyInv(k)
    /\ OneBeyond

\* What is known of the effect of a key stays so.
Lasting == \A k \in Keys : /\ Dead(k) => Dead(k)'
                           /\ applied[k] = 1 => applied'[k] = 1

-------------------------------------------------------------------------------
(* What every step of the ledger leaves true.                              *)

\* A step of the store keeps the epoch in its bounds.
LEMMA EpochStep ==
    ASSUME TypeOK, epoch \in Epochs, [StoreNext]_storeVars
    PROVE  epoch' \in Epochs
  <1>1. CASE OperatorStep
    <2>1. epoch' = epoch \/ (epoch' = epoch + 1 /\ epoch < MaxEpoch)
      BY <1>1 DEF OperatorStep, AdvanceClusterEpoch, CompleteClusterRecovery
    <2> QED BY <2>1, StoreConstants DEF Epochs
  <1>2. CASE ClockStep \/ UNCHANGED storeVars
    BY <1>2 DEF ClockStep, LeaseExpires, ClaimExpires, BackoffElapses, SameCluster, storeVars
  <1>3. ASSUME NEW se \in Epochs, NEW S \in SUBSET Keys, BatchStep(se, S)
        PROVE  epoch' = epoch
    BY <1>3 DEF BatchStep, ClaimUnknownBatch, ClaimExpiredBatch, ScrubStaleRecoveryLocators,
                SameCluster
  <1>4. ASSUME NEW se \in Epochs, NEW k \in Keys, AdmissionStep(se, k)
        PROVE  epoch' = epoch
    BY <1>4 DEF AdmissionStep, InsertRow, AcquireUnleased, ReclaimExpiredLease,
                MarkInFlightExpiredAsUnknown, SameCluster
  <1>5. ASSUME NEW se \in Epochs, NEW k \in Keys, HolderStep(se, k, rows[k].token, rows[k].gen)
        PROVE  epoch' = epoch
    BY <1>5 DEF HolderStep, BeginExecution, MarkInFlight, AbandonPreDispatch, Finalize,
                RecordProviderObservation, SameCluster
  <1>6. ASSUME NEW se \in Epochs, NEW k \in Keys, RecoveryStep(se, k, rows[k].version)
        PROVE  epoch' = epoch
    BY <1>6 DEF RecoveryStep, EnterRecovery, EnterRecoveryWithObservation,
                RecoverExpiredPreDispatch, ResolveRecovery, ReleaseReconcileClaim,
                SuspendReconciliation, SameCluster
  <1> QED BY <1>1, <1>2, <1>3, <1>4, <1>5, <1>6 DEF StoreNext

\* What a later row keeps of an earlier one.
LaterRow(old, new) ==
    /\ old.state # "ABSENT" => new.state # "ABSENT" /\ new.digest = old.digest
    /\ old.state \in PostDispatch => new.state \in PostDispatch
    /\ old.state \in Terminal => new.state = old.state

\* A step of the store keeps the invariant of the rows, and every row goes on.
LEMMA RowsGoOn ==
    ASSUME RowsInv, [StoreNext]_storeVars
    PROVE  RowsInv' /\ \A k \in Keys : LaterRow(rows[k], rows'[k])
  <1>1. TypeOK'
    BY TypeStep DEF RowsInv
  <1>2. RowsKept
    BY StoreKept
  <1> QED BY <1>1, <1>2 DEF RowsInv, RowsKept, Keeps, RowStep, LaterRow

\* Requests for k are sent only by executors that were about to, or by one that
\* crosses the boundary now.
NoNewSender(k) ==
    Sending(k)' => Sending(k) \/ rows[k].state \notin PostDispatch

\* What never will happen never will, as long as nobody touches the world.
LEMMA DeadStays ==
    ASSUME NEW k \in Keys, LaterRow(rows[k], rows'[k]), UNCHANGED worldVars, NoNewSender(k),
           Dead(k)
    PROVE  Dead(k)'
  BY DEF Dead, NoNewSender, LaterRow, worldVars

\* The row and the world still agree if nobody touched the world, and a row was
\* settled only as the world justifies.
LEMMA KeyKept ==
    ASSUME NEW k \in Keys, KeyInv(k), LaterRow(rows[k], rows'[k]), UNCHANGED worldVars,
           NoNewSender(k), rows[k].state \in States,
           rows'[k].state = "COMMITTED" => rows[k].state = "COMMITTED" \/ applied[k] = 1,
           rows'[k].state = "FAILED" => rows[k].state = "FAILED" \/ Dead(k)
    PROVE  KeyInv(k)'
  <1>1. rows'[k].state = "FAILED" => Dead(k)'
    BY DeadStays DEF KeyInv
  <1>2. asked'[k] \subseteq {rows'[k].digest.req}
    <2>1. CASE rows[k].state \in PostDispatch
      BY <2>1 DEF KeyInv, LaterRow, worldVars, PostDispatch, Terminal
    <2>2. CASE rows[k].state \notin PostDispatch
      BY <2>2 DEF KeyInv, worldVars
    <2> QED BY <2>1, <2>2
  <1>3. Sending(k)' => Untouched(k)
    BY DEF NoNewSender, KeyInv
  <1>4. Untouched(k)' <=> Untouched(k)
    BY DEF Untouched, worldVars
  <1> QED BY <1>1, <1>2, <1>3, <1>4 DEF KeyInv, LaterRow, worldVars

\* An executor that does nothing still holds the truth.
LEMMA OtherKept ==
    ASSUME NEW d \in Executors, HandlerInv(d), exec'[d] = exec[d],
           \A k \in Keys : LaterRow(rows[k], rows'[k]),
           \A k \in Keys : Dead(k) => Dead(k)',
           \A k \in Keys : applied[k] = 1 => applied'[k] = 1
    PROVE  HandlerInv(d)'
  <1> DEFINE x == exec[d]
             k == x.key
  <1>1. x.pc # "idle" => k \in Keys
    BY DEF HandlerInv, ExecOK
  <1>2. Matched(x) \/ x.pc \in Beyond => x.pc # "idle"
    BY DEF Matched, Beyond, Settling
  <1>3. x.call \in {"APPLIED", "REJECTED", "UNSENT"} \/ x.verdict # None => x.pc # "idle"
    BY DEF HandlerInv, ExecOK
  <1>4. (k \in Keys /\ Dead(k)) => Dead(exec[d].key)'
    BY DEF Dead, Sending
  <1> HIDE DEF Dead
  <1>5. x.pc \in Beyond => rows'[k].state \in PostDispatch
    BY <1>1, <1>2 DEF HandlerInv, LaterRow
  <1>6. Matched(x) \/ x.pc \in Beyond => AdmittedWith(rows'[k], x.req)
    BY <1>1, <1>2 DEF HandlerInv, LaterRow, AdmittedWith
  <1>7. x.call = "APPLIED" \/ x.verdict = "SUCCEEDED" => applied'[k] = 1
    BY <1>1, <1>3, NullIsNoAnswer DEF HandlerInv, Verdicts
  <1>8. x.call \in {"REJECTED", "UNSENT"} \/ x.verdict = "DEFINITIVE" => k \in Keys /\ Dead(k)
    BY <1>1, <1>3, NullIsNoAnswer DEF HandlerInv, Verdicts
  <1>9. /\ x.reply = "SUCCEEDED" => rows'[k].state = "COMMITTED"
        /\ x.reply \in {"FAILED", "DENIED"} => rows'[k].state = "FAILED" \/ x.call = "NONE"
    BY NullIsNoAnswer DEF HandlerInv, LaterRow, Terminal, Replies
  <1> QED BY <1>4, <1>5, <1>6, <1>7, <1>8, <1>9 DEF HandlerInv

-------------------------------------------------------------------------------
(* The steps that do not touch the world.                                  *)

\* Whoever else writes to the ledger, a worker, the operator or the clock,
\* keeps the invariant if what it settles is true.
LEMMA LedgerStepKept ==
    ASSUME DispatchInv, [StoreNext]_storeVars, UNCHANGED worldVars, UNCHANGED exec,
           faults' \in Nat,
           \A k \in Keys : /\ rows'[k].state = "COMMITTED" =>
                                 rows[k].state = "COMMITTED" \/ applied[k] = 1
                           /\ rows'[k].state = "FAILED" => rows[k].state = "FAILED" \/ Dead(k)
    PROVE  DispatchInv' /\ Lasting
  <1>1. RowsInv' /\ \A k \in Keys : LaterRow(rows[k], rows'[k])
    BY RowsGoOn DEF DispatchInv
  <1>2. epoch' \in Epochs
    BY EpochStep DEF DispatchInv, RowsInv
  <1>3. \A k \in Keys : NoNewSender(k)
    BY DEF NoNewSender, Sending
  <1>4. \A k \in Keys : rows[k].state \in States
    BY DEF DispatchInv, RowsInv, TypeOK, Row
  <1>5. \A k \in Keys : KeyInv(k)'
    BY <1>1, <1>3, <1>4, KeyKept DEF DispatchInv
  <1>6. \A k \in Keys : Dead(k) => Dead(k)'
    BY <1>1, <1>3, DeadStays
  <1>7. \A e \in Executors : HandlerInv(e)'
    BY <1>1, <1>6, OtherKept DEF DispatchInv, worldVars
  <1>8. WorldTypeOK'
    BY DEF DispatchInv, WorldTypeOK, worldVars
  <1> QED BY <1>1, <1>2, <1>5, <1>6, <1>7, <1>8 DEF DispatchInv, OneBeyond, Lasting, worldVars

\* In a quiet step requests are sent by the same executors as before, or by one
\* that crosses the boundary of a row that nobody dispatched.
LEMMA QuietSenders ==
    ASSUME DispatchInv, NEW e \in Executors, QuietStep(e), NEW k \in Keys
    PROVE  NoNewSender(k)
  <1> DEFINE x == exec[e]
             y == exec'[e]
  <1>1. \A d \in Executors \ {e} : exec'[d] = exec[d]
    BY DEF QuietStep, Advances, DispatchInv
  <1>2. ExecOK(x) /\ ExecOK(y) /\ Advance(x, y)
    BY DEF QuietStep, Advances, DispatchInv, HandlerInv
  <1>3. Sends(y, k) => Sends(x, k) \/ rows[k].state \notin PostDispatch
    <2>1. CASE Carried(x, y) /\ x.pc \in Early /\ y.pc \in Early
      BY <1>2, <2>1 DEF Sends, Carried, ExecOK, Early
    <2>2. CASE Carried(x, y) /\ x.pc = "mark" /\ rows[x.key].state = "EXECUTING"
      BY <2>2 DEF Sends, Carried, PostDispatch, Terminal
    <2>3. CASE Carried(x, y) /\ x.pc \in Settling /\ y.pc \in Settling
      BY <1>2, <2>3 DEF Sends, Carried, ExecOK, Settling
    <2>4. CASE y.pc = "idle"
      BY <1>2, <2>4 DEF Sends, ExecOK
    <2> QED BY <1>2, <2>1, <2>2, <2>3, <2>4 DEF Advance, Replied
  <1> QED BY <1>1, <1>3 DEF NoNewSender, Sending

\* What the executor that moves quietly holds to be true is true.
LEMMA MoverKept ==
    ASSUME DispatchInv, NEW e \in Executors, QuietStep(e),
           \A k \in Keys : LaterRow(rows[k], rows'[k]),
           \A k \in Keys : Dead(k) => Dead(k)'
    PROVE  HandlerInv(e)'
  <1> DEFINE x == exec[e]
             y == exec'[e]
             k == x.key
  <1>1. HandlerInv(e) /\ ExecOK(x) /\ ExecOK(y) /\ Advance(x, y) /\ x \in Execution
    BY DEF QuietStep, Advances, DispatchInv, HandlerInv
  <1>2. y.key = k /\ x.pc # "idle" /\ k \in Keys
    <2>1. y.key = k /\ x.pc # "idle"
      BY <1>1 DEF Advance, Carried, Replied, Early, Settling
    <2> QED BY <1>1, <2>1 DEF ExecOK
  <1>3. applied' = applied
    BY DEF QuietStep, worldVars
  <1>4. Dead(k) => Dead(exec[e].key)'
    BY <1>2 DEF Dead, Sending
  <1>5. LaterRow(rows[k], rows'[k])
    BY <1>2
  <1>6. y.pc \in Beyond => rows'[k].state \in PostDispatch
    <2>1. y.pc \in Beyond => \/ x.pc \in Beyond \/ rows'[k].state = "IN_FLIGHT"
      BY <1>1 DEF Advance, Replied, Early, Settling, Beyond
    <2> QED BY <1>1, <1>5, <2>1 DEF HandlerInv, LaterRow, PostDispatch
  <1>7. Matched(y) \/ y.pc \in Beyond => AdmittedWith(rows'[k], y.req)
    <2>1. Matched(y) \/ y.pc \in Beyond =>
             \/ y.req = x.req /\ (Matched(x) \/ x.pc \in Beyond)
             \/ y.req = x.req /\ AdmittedWith(rows'[k], x.req)
      <3>1. CASE /\ Carried(x, y) /\ x.pc \in Early /\ y.pc \in Early
                 /\ Matched(y) => Matched(x) \/ AdmittedWith(rows'[k], x.req)
        BY <3>1 DEF Carried, Early, Settling, Beyond
      <3>2. CASE Carried(x, y) /\ x.pc = "mark"
        BY <3>2 DEF Carried, Matched
      <3>3. CASE Carried(x, y) /\ x.pc \in Settling
        BY <3>3 DEF Carried, Beyond
      <3>4. CASE y.pc = "idle"
        BY <3>4 DEF Matched, Beyond, Settling
      <3> QED BY <1>1, <3>1, <3>2, <3>3, <3>4 DEF Advance, Replied
    <2> QED BY <1>1, <1>5, <2>1 DEF HandlerInv, AdmittedWith, LaterRow
  <1>8. \/ y.call = x.call /\ y.verdict = x.verdict /\ y.reply = None
        \/ /\ y.call \in {"NONE", "ENDED"} /\ y.verdict = None /\ y.pc = "idle"
           /\ y.reply \in Replies
           /\ y.reply = "SUCCEEDED" => rows'[k].state = "COMMITTED"
           /\ y.reply \in {"FAILED", "DENIED"} => y.call = "NONE" \/ rows'[k].state = "FAILED"
    <2>1. x.reply = None
      BY <1>1, <1>2 DEF ExecOK
    <2> QED BY <1>1, <2>1 DEF Advance, Replied, Carried
  <1>9. y.call = "APPLIED" \/ y.verdict = "SUCCEEDED" => applied'[k] = 1
    BY <1>1, <1>3, <1>8, NullIsNoAnswer DEF HandlerInv, Verdicts
  <1>10. y.call \in {"REJECTED", "UNSENT"} \/ y.verdict = "DEFINITIVE" => Dead(k)
    BY <1>1, <1>8, NullIsNoAnswer DEF HandlerInv, Verdicts
  <1>11. /\ y.reply = "SUCCEEDED" => rows'[k].state = "COMMITTED"
         /\ y.reply \in {"FAILED", "DENIED"} => rows'[k].state = "FAILED" \/ y.call = "NONE"
    BY <1>8, NullIsNoAnswer DEF Replies
  <1> QED BY <1>1, <1>2, <1>4, <1>6, <1>7, <1>9, <1>10, <1>11 DEF HandlerInv

\* A quiet step keeps the invariant.
LEMMA QuietKept ==
    ASSUME DispatchInv, NEW e \in Executors, QuietStep(e)
    PROVE  DispatchInv' /\ Lasting
  <1> DEFINE x == exec[e]
             y == exec'[e]
  <1>1. RowsInv' /\ \A k \in Keys : LaterRow(rows[k], rows'[k])
    BY RowsGoOn DEF DispatchInv, QuietStep
  <1>2. epoch' \in Epochs
    BY EpochStep DEF DispatchInv, RowsInv, QuietStep
  <1>3. \A k \in Keys : NoNewSender(k)
    BY QuietSenders
  <1>4. UNCHANGED worldVars /\ faults' \in Nat
    BY DEF QuietStep
  <1>5. \A k \in Keys : /\ rows'[k].state = "COMMITTED" =>
                              rows[k].state = "COMMITTED" \/ applied[k] = 1
                        /\ rows'[k].state = "FAILED" => rows[k].state = "FAILED" \/ Dead(k)
    BY DEF QuietStep, SettlesTruly, DispatchInv, HandlerInv, Terminal
  <1>6. \A k \in Keys : rows[k].state \in States /\ KeyInv(k)
    BY DEF DispatchInv, RowsInv, TypeOK, Row
  <1>7. \A k \in Keys : KeyInv(k)'
    BY <1>1, <1>3, <1>4, <1>5, <1>6, KeyKept
  <1>8. \A k \in Keys : Dead(k) => Dead(k)'
    BY <1>1, <1>3, <1>4, DeadStays
  <1>9. exec' = [exec EXCEPT ![e] = y] /\ y \in Execution /\ exec \in [Executors -> Execution]
    BY DEF QuietStep, Advances, ExecOK, DispatchInv
  <1>10. \A d \in Executors : HandlerInv(d)'
    <2> SUFFICES ASSUME NEW d \in Executors PROVE HandlerInv(d)'
      OBVIOUS
    <2>1. CASE d = e
      BY <1>1, <1>8, <2>1, MoverKept
    <2>2. CASE d # e
      <3>1. exec'[d] = exec[d] /\ HandlerInv(d)
        BY <1>9, <2>2 DEF DispatchInv
      <3> QED BY <1>1, <1>4, <1>8, <3>1, OtherKept DEF worldVars
    <2> QED BY <2>1, <2>2
  <1>11. WorldTypeOK'
    BY <1>4 DEF DispatchInv, WorldTypeOK, worldVars
  <1>12. OneBeyond'
    <2>1. Advance(x, y) /\ ExecOK(x) /\ HandlerInv(e)
      BY DEF QuietStep, Advances, DispatchInv, HandlerInv
    <2>2. y.pc \in Beyond => /\ y.key = x.key
                             /\ x.pc \in Beyond \/ rows[x.key].state = "EXECUTING"
      BY <2>1 DEF Advance, Replied, Carried, Early, Settling, Beyond
    <2>3. \A d \in Executors : exec[d].pc \in Beyond => rows[exec[d].key].state \in PostDispatch
      BY DEF DispatchInv, HandlerInv
    <2>4. \A d \in Executors \ {e} : exec'[d] = exec[d]
      BY <1>9
    <2>5. \A d \in Executors \ {e} : ~(exec[d].pc \in Beyond /\ y.pc \in Beyond
                                        /\ exec[d].key = y.key)
      BY <2>2, <2>3 DEF DispatchInv, OneBeyond, PostDispatch, Terminal
    <2> QED BY <2>4, <2>5 DEF DispatchInv, OneBeyond
  <1>13. exec' \in [Executors -> Execution]
    BY <1>9
  <1> QED BY <1>1, <1>2, <1>4, <1>7, <1>8, <1>10, <1>11, <1>12, <1>13
          DEF DispatchInv, Lasting, worldVars

-------------------------------------------------------------------------------
(* The steps in which the handler or the provider has a part.              *)

\* Only an executor past the boundary can be sending.
LEMMA SenderBeyond ==
    ASSUME NEW x, ExecOK(x), NEW k \in Keys, Sends(x, k)
    PROVE  x.pc \in {"invoke", "await"} /\ x.pc \in Beyond
  BY DEF ExecOK, Sends, Beyond, Execution, PCs, Early, Settling

\* At most one executor sends requests for a key.
LEMMA OneSender ==
    ASSUME DispatchInv, NEW k \in Keys, NEW d \in Executors, NEW e \in Executors,
           Sends(exec[d], k), Sends(exec[e], k)
    PROVE  d = e
  <1>1. exec[d].pc \in Beyond /\ exec[e].pc \in Beyond
    BY SenderBeyond DEF DispatchInv, HandlerInv
  <1> QED BY <1>1 DEF DispatchInv, OneBeyond, Sends

\* A step that leaves the ledger alone, from what it does to each key and to
\* the executor that makes it.
LEMMA WorldKept ==
    ASSUME DispatchInv, NEW e \in Executors, UNCHANGED storeVars, WorldTypeOK',
           exec' = [exec EXCEPT ![e] = exec'[e]], HandlerInv(e)',
           exec'[e].pc \in Beyond => exec[e].pc \in Beyond /\ exec'[e].key = exec[e].key,
           \A k \in Keys : KeyInv(k)',
           \A k \in Keys : Dead(k) => Dead(k)',
           \A k \in Keys : applied[k] = 1 => applied'[k] = 1
    PROVE  DispatchInv' /\ Lasting
  <1>1. RowsInv' /\ epoch' \in Epochs /\ \A k \in Keys : LaterRow(rows[k], rows'[k])
    <2>1. rows' = rows /\ nextToken' = nextToken /\ epoch' = epoch
          /\ recoveryRequired' = recoveryRequired /\ ledger' = ledger
      BY DEF storeVars
    <2> QED BY <2>1 DEF DispatchInv, RowsInv, TypeOK, LaterRow
  <1>2. \A d \in Executors \ {e} : exec'[d] = exec[d]
    BY DEF DispatchInv
  <1>3. \A d \in Executors : HandlerInv(d)'
    <2> SUFFICES ASSUME NEW d \in Executors, d # e PROVE HandlerInv(d)'
      OBVIOUS
    <2>1. exec'[d] = exec[d] /\ HandlerInv(d)
      BY <1>2 DEF DispatchInv
    <2> QED BY <1>1, <2>1, OtherKept
  <1>4. exec'[e] \in Execution
    BY DEF HandlerInv, ExecOK
  <1>5. exec' \in [Executors -> Execution]
    BY <1>4 DEF DispatchInv
  <1>6. OneBeyond'
    BY <1>2 DEF DispatchInv, OneBeyond
  <1> QED BY <1>1, <1>3, <1>5, <1>6 DEF DispatchInv, Lasting

\* A step of one executor by itself: nobody is sending who was not.
LEMMA LocalKept ==
    ASSUME DispatchInv, NEW e \in Executors, UNCHANGED storeVars, UNCHANGED worldVars,
           faults' \in Nat,
           exec' = [exec EXCEPT ![e] = exec'[e]], HandlerInv(e)',
           exec'[e].pc \in Beyond => exec[e].pc \in Beyond /\ exec'[e].key = exec[e].key,
           \A k \in Keys : Sends(exec'[e], k) => Sends(exec[e], k)
    PROVE  DispatchInv' /\ Lasting
  <1>1. \A k \in Keys : LaterRow(rows[k], rows'[k]) /\ rows'[k] = rows[k]
    BY DEF storeVars, LaterRow
  <1>2. \A d \in Executors \ {e} : exec'[d] = exec[d]
    BY DEF DispatchInv
  <1>3. \A k \in Keys : NoNewSender(k)
    BY <1>2 DEF NoNewSender, Sending
  <1>4. \A k \in Keys : rows[k].state \in States /\ KeyInv(k)
    BY DEF DispatchInv, RowsInv, TypeOK, Row
  <1>5. \A k \in Keys : KeyInv(k)'
    BY <1>1, <1>3, <1>4, KeyKept
  <1>6. \A k \in Keys : Dead(k) => Dead(k)'
    BY <1>1, <1>3, DeadStays
  <1>7. WorldTypeOK' /\ \A k \in Keys : applied[k] = 1 => applied'[k] = 1
    BY DEF DispatchInv, WorldTypeOK, worldVars
  <1> QED BY <1>5, <1>6, <1>7, WorldKept

\* What an executor that starts, restarts or dies becomes.
LEMMA FreshKept ==
    ASSUME NEW e \in Executors, ExecOK(exec'[e]), exec'[e].call = "NONE",
           exec'[e].verdict = None, exec'[e].reply = None, exec'[e].pc \in {"idle", "insert"}
    PROVE  HandlerInv(e)'
  BY NullIsNoAnswer DEF HandlerInv, Beyond, Settling, Matched, Verdicts, Replies

\* A request arrives, or an idle process is restarted.
LEMMA SubmitKept ==
    ASSUME DispatchInv, NEW e \in Executors,
           \/ \E k \in Keys, q \in Requests : Submit(e, k, q)
           \/ Restart(e)
    PROVE  DispatchInv' /\ Lasting
  <1> DEFINE x == exec[e]
             y == exec'[e]
  <1>1. x \in Execution /\ x.se \in Nat /\ epoch \in Nat /\ exec \in [Executors -> Execution]
    BY DEF DispatchInv, RowsInv, TypeOK, Execution
  <1>2. UNCHANGED storeVars /\ UNCHANGED worldVars /\ faults' \in Nat
    BY DEF Submit, Restart, Quiet, NoFault, DispatchInv, WorldTypeOK
  <1>3. exec' = [exec EXCEPT ![e] = y] /\ ExecOK(y)
        /\ y.call = "NONE" /\ y.verdict = None /\ y.reply = None /\ y.pc \in {"idle", "insert"}
    <2>1. CASE Restart(e)
      <3>1. Become(e, IdleExecution(e, epoch))
        BY <2>1 DEF Restart
      <3>2. y = IdleExecution(e, epoch) /\ exec' = [exec EXCEPT ![e] = y]
        BY <1>1, <3>1, Becomes
      <3> QED BY <1>1, <3>2, IdleOK DEF IdleExecution
    <2>2. ASSUME NEW k \in Keys, NEW q \in Requests, Submit(e, k, q)
          PROVE  /\ exec' = [exec EXCEPT ![e] = y] /\ ExecOK(y)
                 /\ y.call = "NONE" /\ y.verdict = None /\ y.reply = None /\ y.pc = "insert"
      <3> DEFINE i == IdleExecution(e, x.se)
                 z == [i EXCEPT !.pc = "insert", !.key = k, !.req = q]
      <3>1. Become(e, z)
        BY <2>2 DEF Submit
      <3>2. y = z /\ exec' = [exec EXCEPT ![e] = y]
        BY <1>1, <3>1, Becomes
      <3>3. i \in Execution /\ i.call = "NONE" /\ i.verdict = None /\ i.reply = None
            /\ i.stage = 0 /\ "insert" \in PCs
        BY <1>1, IdleOK DEF IdleExecution, PCs
      <3> HIDE DEF i
      <3>4. z \in Execution
        BY <3>3 DEF Execution
      <3>5. /\ z.pc = "insert" /\ z.key = k /\ z.req = q /\ z.call = "NONE"
            /\ z.verdict = None /\ z.reply = None /\ z.stage = 0
        BY <3>3 DEF Execution
      <3> HIDE DEF z
      <3>6. ExecOK(z)
        BY <3>4, <3>5 DEF ExecOK, Early, Settling, Deciding
      <3> QED BY <3>2, <3>5, <3>6
    <2> QED BY <2>1, <2>2
  <1> HIDE DEF y
  <1>4. HandlerInv(e)'
    BY <1>3, FreshKept DEF y
  <1>5. y.pc \notin Beyond /\ \A k \in Keys : ~Sends(y, k)
    BY <1>3 DEF Beyond, Settling, Sends
  <1> QED BY <1>2, <1>3, <1>4, <1>5, LocalKept DEF y

\* The call goes on with what the executor now knows of it.
Learns(x, y) ==
    y \in Execution /\ y.key = x.key /\ y.req = x.req /\ y.reply = x.reply

\* The executor's own proof that nothing was sent.
LEMMA LearnsDeadline ==
    ASSUME NEW x \in Execution, NEW y,
           y = [x EXCEPT !.pc = "observe", !.verdict = "DEFINITIVE", !.proof = TRUE]
    PROVE  Learns(x, y) /\ y.pc = "observe" /\ y.verdict = "DEFINITIVE" /\ y.call = x.call
  <1>1. "observe" \in PCs /\ "DEFINITIVE" \in Verdicts /\ TRUE \in BOOLEAN
    BY DEF PCs, Verdicts
  <1>2. y \in Execution
    BY <1>1 DEF Execution
  <1> QED BY <1>2 DEF Learns, Execution

\* The handler that is left running.
LEMMA LearnsNothing ==
    ASSUME NEW x \in Execution, NEW y,
           y = [x EXCEPT !.pc = "observe", !.verdict = "UNKNOWN", !.call = "ENDED"]
    PROVE  Learns(x, y) /\ y.pc = "observe" /\ y.verdict = "UNKNOWN" /\ y.call = "ENDED"
  <1>1. "observe" \in PCs /\ "UNKNOWN" \in Verdicts /\ "ENDED" \in Calls
    BY DEF PCs, Verdicts, Calls
  <1>2. y \in Execution
    BY <1>1 DEF Execution
  <1> QED BY <1>2 DEF Learns, Execution

\* The handler is invoked.
LEMMA LearnsInvoked ==
    ASSUME NEW x \in Execution, NEW y, y = [x EXCEPT !.pc = "await", !.call = "PENDING"]
    PROVE  Learns(x, y) /\ y.pc = "await" /\ y.verdict = x.verdict /\ y.call = "PENDING"
  <1>1. "await" \in PCs /\ "PENDING" \in Calls
    BY DEF PCs, Calls
  <1>2. y \in Execution
    BY <1>1 DEF Execution
  <1> QED BY <1>2 DEF Learns, Execution

\* The provider acts on the request.
LEMMA LearnsLanded ==
    ASSUME NEW x \in Execution, NEW c \in Calls, NEW y, y = [x EXCEPT !.call = c]
    PROVE  Learns(x, y) /\ y.pc = x.pc /\ y.verdict = x.verdict /\ y.call = c
  <1>1. y \in Execution
    BY DEF Execution
  <1> QED BY <1>1 DEF Learns, Execution

\* What the executor holds to be true after the handler's part of a step.
LEMMA LearnerKept ==
    ASSUME NEW e \in Executors, HandlerInv(e), UNCHANGED rows, Learns(exec[e], exec'[e]),
           exec[e].pc \in {"invoke", "await"},
           \/ exec'[e].pc = "await" /\ exec'[e].verdict = None
              /\ exec'[e].call \in {"PENDING", "APPLIED", "REJECTED", "UNSENT"}
           \/ exec'[e].pc = "observe" /\ exec'[e].verdict \in Verdicts
              /\ exec'[e].call # "PENDING",
           exec'[e].call = "APPLIED" \/ exec'[e].verdict = "SUCCEEDED" =>
              applied'[exec[e].key] = 1,
           exec'[e].call \in {"REJECTED", "UNSENT"} \/ exec'[e].verdict = "DEFINITIVE" =>
              Dead(exec[e].key)'
    PROVE  /\ HandlerInv(e)'
           /\ exec[e].pc \in Beyond /\ exec'[e].key = exec[e].key
  <1> DEFINE x == exec[e]
             y == exec'[e]
  <1>1. x.pc \in Beyond /\ x.key \in Keys /\ x.req \in Requests /\ x.reply = None
    BY DEF Beyond, HandlerInv, ExecOK
  <1>2. y.key = x.key /\ y.req = x.req /\ y.reply = None /\ y \in Execution
    BY <1>1 DEF Learns
  <1>3. ExecOK(y)
    BY <1>1, <1>2, NullIsNoAnswer DEF ExecOK, Settling, Deciding, Early
  <1>4. rows'[x.key].state \in PostDispatch /\ AdmittedWith(rows'[x.key], x.req)
    BY <1>1 DEF HandlerInv
  <1> QED BY <1>1, <1>2, <1>3, <1>4, NullIsNoAnswer DEF HandlerInv, Replies

\* The executor may not send: its own synthetic failure, or an answer it got.
LEMMA AnswerKept ==
    ASSUME DispatchInv, NEW e \in Executors, DeadlineAtBoundary(e) \/ HandlerAnswers(e)
    PROVE  DispatchInv' /\ Lasting
  <1> DEFINE x == exec[e]
             y == exec'[e]
  <1>1. x \in Execution /\ HandlerInv(e) /\ exec \in [Executors -> Execution]
    BY DEF DispatchInv
  <1>2. UNCHANGED storeVars /\ UNCHANGED worldVars /\ UNCHANGED rows /\ faults' \in Nat
    BY DEF DeadlineAtBoundary, HandlerAnswers, Quiet, NoFault, DispatchInv, WorldTypeOK, storeVars
  <1>3. CASE DeadlineAtBoundary(e)
    <2>1. x.pc = "invoke" /\ x.key \in Keys /\ x.call = "NONE" /\ x.verdict = None
      BY <1>1, <1>3 DEF DeadlineAtBoundary, At, HandlerInv, ExecOK
    <2>2. y = [x EXCEPT !.pc = "observe", !.verdict = "DEFINITIVE", !.proof = TRUE]
          /\ exec' = [exec EXCEPT ![e] = y]
      BY <1>1, <1>3, Becomes DEF DeadlineAtBoundary
    <2>3. Learns(x, y) /\ y.pc = "observe" /\ y.verdict = "DEFINITIVE" /\ y.call = "NONE"
      BY <1>1, <2>1, <2>2, LearnsDeadline
    <2>4. Sends(x, x.key) /\ \A d \in Executors : Sends(exec[d], x.key) => d = e
      BY <2>1, OneSender DEF Sends
    <2>5. ~Sends(y, x.key) /\ \A d \in Executors \ {e} : exec'[d] = exec[d]
      BY <1>1, <2>2, <2>3 DEF Sends
    <2>6. Dead(x.key)'
      <3>1. Untouched(x.key) /\ rows[x.key].state \in PostDispatch
        BY <1>1, <2>1, <2>4 DEF DispatchInv, KeyInv, Sending, HandlerInv, Beyond
      <3>2. y.key = x.key /\ \A d \in Executors : ~Sends(exec'[d], x.key)
        BY <2>3, <2>4, <2>5 DEF Learns
      <3> QED BY <1>2, <3>1, <3>2 DEF Dead, Sending, Untouched, worldVars
    <2>7. "DEFINITIVE" \in Verdicts
      BY DEF Verdicts
    <2>8. HandlerInv(e)' /\ exec[e].pc \in Beyond /\ exec'[e].key = exec[e].key
      BY <1>1, <1>2, <2>1, <2>3, <2>6, <2>7, LearnerKept
    <2>9. \A k \in Keys : ~Sends(y, k)
      BY <2>3 DEF Sends
    <2> QED BY <1>2, <2>2, <2>8, <2>9, LocalKept
  <1>4. CASE HandlerAnswers(e)
    <2>1. PICK v \in Verdicts, p \in BOOLEAN, run \in {ProviderRun, None} :
            /\ x.pc = "await" /\ x.call \in {"APPLIED", "REJECTED", "UNSENT"}
            /\ v = "SUCCEEDED" => x.call = "APPLIED"
            /\ v = "DEFINITIVE" => x.call # "APPLIED"
            /\ Become(e, [x EXCEPT !.pc = "observe", !.verdict = v, !.proof = p, !.run = run])
      BY <1>4 DEF HandlerAnswers, At
    <2>2. y = [x EXCEPT !.pc = "observe", !.verdict = v, !.proof = p, !.run = run]
          /\ exec' = [exec EXCEPT ![e] = y]
      BY <1>1, <2>1, Becomes
    <2>3. run \in Runs \cup {None}
      BY ProviderConstants
    <2>4. Learns(x, y) /\ y.pc = "observe" /\ y.verdict = v /\ y.call = x.call
      <3>1. "observe" \in PCs
        BY DEF PCs
      <3> HIDE DEF x, y
      <3>2. y \in Execution
        BY <1>1, <2>2, <2>3, <3>1 DEF Execution
      <3> QED BY <1>1, <2>2, <3>2 DEF Learns, Execution
    <2>5. x.key \in Keys
      BY <1>1, <2>1 DEF HandlerInv, ExecOK
    <2>6. \A d \in Executors \ {e} : exec'[d] = exec[d]
      BY <1>1, <2>2
    <2>7. Dead(x.key) => \A k \in Keys : k = x.key => Dead(k)'
      BY <1>2, <2>1, <2>4, <2>6 DEF Dead, Sending, Sends, worldVars
    <2>8. (x.key \in Keys /\ \A k \in Keys : k = x.key => Dead(k)') => Dead(exec[e].key)'
      BY <2>4 DEF Dead, Sending, Learns
    <2>9. x.call \in {"REJECTED", "UNSENT"} => Dead(x.key)
      BY <1>1 DEF HandlerInv
    <2>10. x.call = "APPLIED" => applied'[x.key] = 1
      BY <1>1, <1>2 DEF HandlerInv, worldVars
    <2>11. HandlerInv(e)' /\ exec[e].pc \in Beyond /\ exec'[e].key = exec[e].key
      BY <1>1, <1>2, <2>1, <2>4, <2>5, <2>7, <2>8, <2>9, <2>10, LearnerKept
    <2>12. \A k \in Keys : ~Sends(y, k)
      BY <2>1, <2>4 DEF Sends
    <2> QED BY <1>2, <2>2, <2>11, <2>12, LocalKept
  <1> QED BY <1>3, <1>4

\* The handler is invoked with the request the row was admitted with.
LEMMA InvokeKept ==
    ASSUME DispatchInv, NEW e \in Executors, Invoke(e)
    PROVE  DispatchInv' /\ Lasting
  <1> DEFINE x == exec[e]
             y == exec'[e]
  <1>1. x \in Execution /\ HandlerInv(e) /\ exec \in [Executors -> Execution] /\ WorldTypeOK
    BY DEF DispatchInv
  <1>2. /\ UNCHANGED storeVars /\ UNCHANGED rows
        /\ UNCHANGED <<applied, rejected, stray>> /\ faults' \in Nat
    BY <1>1 DEF Invoke, NoFault, WorldTypeOK, storeVars
  <1>3. x.pc = "invoke" /\ x.key \in Keys /\ x.req \in Requests /\ x.verdict = None
    BY <1>1 DEF Invoke, At, HandlerInv, ExecOK
  <1>4. y = [x EXCEPT !.pc = "await", !.call = "PENDING"] /\ exec' = [exec EXCEPT ![e] = y]
    BY <1>1, Becomes DEF Invoke
  <1>5. Learns(x, y) /\ y.pc = "await" /\ y.verdict = None /\ y.call = "PENDING"
    BY <1>1, <1>3, <1>4, LearnsInvoked
  <1>6. asked' = [asked EXCEPT ![x.key] = asked[x.key] \cup {x.req}]
    BY DEF Invoke
  <1>7. \A d \in Executors \ {e} : exec'[d] = exec[d]
    BY <1>1, <1>4
  <1>8. \A k \in Keys : Sending(k)' <=> Sending(k)
    <2>1. \A k \in Keys : Sends(y, k) <=> Sends(x, k)
      BY <1>3, <1>5 DEF Sends, Learns
    <2> QED BY <1>7, <2>1 DEF Sending
  <1>9. AdmittedWith(rows[x.key], x.req) /\ rows[x.key].state \in PostDispatch
    BY <1>1, <1>3 DEF HandlerInv, Beyond
  <1>10. \A k \in Keys : Dead(k) => Dead(k)'
    BY <1>2, <1>8 DEF Dead
  <1>11. \A k \in Keys : KeyInv(k)'
    <2> SUFFICES ASSUME NEW k \in Keys PROVE KeyInv(k)'
      OBVIOUS
    <2>1. KeyInv(k)
      BY DEF DispatchInv
    <2>2. Untouched(k)' <=> Untouched(k)
      BY <1>2 DEF Untouched
    <2>3. CASE k = x.key
      <3>1. asked'[k] = asked[k] \cup {x.req} /\ rows[k].digest.req = x.req
        BY <1>1, <1>3, <1>6, <1>9, <2>3 DEF AdmittedWith, WorldTypeOK
      <3>2. asked'[k] \subseteq {rows'[k].digest.req}
        BY <1>2, <2>1, <3>1 DEF KeyInv
      <3> QED BY <1>2, <1>8, <1>9, <1>10, <2>1, <2>2, <2>3, <3>2 DEF KeyInv
    <2>4. CASE k # x.key
      <3>1. asked'[k] = asked[k]
        BY <1>1, <1>6, <2>4 DEF WorldTypeOK
      <3> QED BY <1>2, <1>8, <1>10, <2>1, <2>2, <3>1 DEF KeyInv
    <2> QED BY <2>3, <2>4
  <1>12. HandlerInv(e)' /\ exec[e].pc \in Beyond /\ exec'[e].key = exec[e].key
    BY <1>1, <1>2, <1>3, <1>5, NullIsNoAnswer, LearnerKept DEF Verdicts
  <1>13. WorldTypeOK'
    BY <1>1, <1>2, <1>3, <1>6 DEF WorldTypeOK
  <1>14. \A k \in Keys : applied[k] = 1 => applied'[k] = 1
    BY <1>2
  <1> QED BY <1>2, <1>4, <1>10, <1>11, <1>12, <1>13, <1>14, WorldKept

\* A key whose request leaves the executor that was sending it: what the world
\* may be afterwards.
LEMMA SentKept ==
    ASSUME DispatchInv, NEW e \in Executors, NEW k \in Keys, UNCHANGED rows, UNCHANGED asked,
           Sends(exec[e], k), \A d \in Executors \ {e} : exec'[d] = exec[d],
           ~Sends(exec'[e], k),
           \/ applied'[k] = 1 /\ rejected'[k] = rejected[k] /\ stray'[k] = stray[k]
           \/ applied'[k] = applied[k] /\ rejected'[k] \in BOOLEAN /\ stray'[k] = stray[k]
           \/ applied'[k] = applied[k] /\ rejected'[k] = rejected[k] /\ stray'[k] = stray[k] + 1
    PROVE  /\ KeyInv(k)'
           /\ ~Dead(k)
           /\ applied'[k] = applied[k] /\ stray'[k] = stray[k] => Dead(k)'
  <1>1. KeyInv(k) /\ Sending(k)
    BY DEF DispatchInv, Sending
  <1>2. applied[k] = 0 /\ stray[k] = 0 /\ ~rejected[k] /\ ~Dead(k)
    BY <1>1 DEF KeyInv, Untouched, Dead
  <1>3. rows[k].state \in PostDispatch /\ rows[k].state \notin Terminal
    <2>1. exec[e].pc \in Beyond /\ exec[e].key = k /\ HandlerInv(e)
      BY SenderBeyond DEF DispatchInv, HandlerInv, Sends
    <2> QED BY <1>1, <1>2, <2>1 DEF HandlerInv, KeyInv, Terminal
  <1>4. ~Sending(k)'
    <2>1. \A d \in Executors : Sends(exec[d], k) => d = e
      BY OneSender
    <2> QED BY <2>1 DEF Sending
  <1>5. asked'[k] \subseteq {rows'[k].digest.req}
    BY <1>1 DEF KeyInv
  <1> QED BY <1>2, <1>3, <1>4, <1>5 DEF KeyInv, Dead, Terminal

\* The other keys do not notice.
LEMMA AsideKept ==
    ASSUME DispatchInv, NEW e \in Executors, NEW k \in Keys, UNCHANGED rows, UNCHANGED asked,
           \A d \in Executors \ {e} : exec'[d] = exec[d],
           Sends(exec'[e], k) <=> Sends(exec[e], k),
           applied'[k] = applied[k] /\ rejected'[k] = rejected[k] /\ stray'[k] = stray[k]
    PROVE  KeyInv(k)' /\ (Dead(k) => Dead(k)')
  <1>1. Sending(k)' <=> Sending(k)
    BY DEF Sending
  <1>2. KeyInv(k)
    BY DEF DispatchInv
  <1>3. Dead(k)' <=> Dead(k)
    BY <1>1 DEF Dead
  <1>4. Untouched(k)' <=> Untouched(k)
    BY DEF Untouched
  <1> QED BY <1>1, <1>2, <1>3, <1>4 DEF KeyInv

\* What the provider may do, as updates of the world.
LEMMA ApplyUpdate ==
    ASSUME applied \in [Keys -> Nat], NEW k \in Keys, Apply(k)
    PROVE  /\ applied' \in [Keys -> Nat] /\ applied'[k] = applied[k] + 1
           /\ \A j \in Keys \ {k} : applied'[j] = applied[j]
  BY DEF Apply

\* Its refusal.
LEMMA RejectUpdate ==
    ASSUME rejected \in [Keys -> BOOLEAN], NEW k \in Keys, Reject(k)
    PROVE  /\ rejected' \in [Keys -> BOOLEAN] /\ rejected'[k] = TRUE
           /\ \A j \in Keys \ {k} : rejected'[j] = rejected[j]
  <1>1. rejected' = [rejected EXCEPT ![k] = TRUE]
    BY DEF Reject
  <1>2. rejected' \in [Keys -> BOOLEAN]
    BY <1>1
  <1>3. rejected'[k] = TRUE
    BY <1>1
  <1>4. \A j \in Keys \ {k} : rejected'[j] = rejected[j]
    BY <1>1
  <1> QED BY <1>2, <1>3, <1>4

\* The request reaches the provider, or dies on the way.
LEMMA ProviderKept ==
    ASSUME DispatchInv, NEW e \in Executors, ProviderActs(e)
    PROVE  DispatchInv' /\ Lasting
  <1> DEFINE x == exec[e]
             y == exec'[e]
  <1>1. x \in Execution /\ HandlerInv(e) /\ exec \in [Executors -> Execution] /\ WorldTypeOK
    BY DEF DispatchInv
  <1>2. UNCHANGED storeVars /\ UNCHANGED rows /\ UNCHANGED stray /\ UNCHANGED asked
        /\ faults' \in Nat
    BY <1>1 DEF ProviderActs, NoFault, WorldTypeOK, storeVars
  <1>3. x.pc = "await" /\ x.key \in Keys /\ x.call = "PENDING" /\ x.verdict = None
    BY <1>1 DEF ProviderActs, At, HandlerInv, ExecOK
  <1>4. PICK c \in {"APPLIED", "REJECTED", "UNSENT"} :
          /\ Become(e, [x EXCEPT !.call = c])
          /\ \/ c = "APPLIED" /\ Apply(x.key) /\ UNCHANGED rejected
             \/ c # "APPLIED" /\ Reject(x.key) /\ UNCHANGED applied
             \/ c # "APPLIED" /\ UNCHANGED <<applied, rejected>>
    BY DEF ProviderActs
  <1>5. y = [x EXCEPT !.call = c] /\ exec' = [exec EXCEPT ![e] = y] /\ c \in Calls
    BY <1>1, <1>4, Becomes DEF Calls
  <1>6. Learns(x, y) /\ y.pc = "await" /\ y.verdict = None /\ y.call = c
    BY <1>1, <1>3, <1>5, LearnsLanded
  <1>7. \A d \in Executors \ {e} : exec'[d] = exec[d]
    BY <1>1, <1>5
  <1>8. Sends(x, x.key) /\ (\A k \in Keys : ~Sends(y, k))
        /\ \A k \in Keys \ {x.key} : ~Sends(x, k)
    BY <1>3, <1>4, <1>6 DEF Sends
  <1>9. applied[x.key] = 0
    BY <1>3, <1>8 DEF DispatchInv, KeyInv, Sending, Untouched
  <1>10. /\ c = "APPLIED" => applied'[x.key] = 1 /\ rejected' = rejected
         /\ c # "APPLIED" => applied' = applied /\ rejected'[x.key] \in BOOLEAN
         /\ \A k \in Keys \ {x.key} : applied'[k] = applied[k] /\ rejected'[k] = rejected[k]
    <2>1. CASE c = "APPLIED" /\ Apply(x.key) /\ UNCHANGED rejected
      BY <1>1, <1>3, <1>9, <2>1, ApplyUpdate DEF WorldTypeOK
    <2>2. CASE c # "APPLIED" /\ Reject(x.key) /\ UNCHANGED applied
      BY <1>1, <1>3, <2>2, RejectUpdate DEF WorldTypeOK
    <2>3. CASE c # "APPLIED" /\ UNCHANGED <<applied, rejected>>
      BY <1>1, <1>3, <2>3 DEF WorldTypeOK
    <2> QED BY <1>4, <2>1, <2>2, <2>3
  <1>11. WorldTypeOK'
    BY <1>1, <1>2, <1>3, <1>4, ApplyUpdate, RejectUpdate DEF WorldTypeOK
  <1>12. \A k \in Keys : k = x.key =>
           KeyInv(k)' /\ ~Dead(k) /\ (c # "APPLIED" => Dead(k)')
    <2> SUFFICES ASSUME NEW k \in Keys, k = x.key
                 PROVE  KeyInv(k)' /\ ~Dead(k) /\ (c # "APPLIED" => Dead(k)')
      OBVIOUS
    <2>1. \/ applied'[k] = 1 /\ rejected'[k] = rejected[k] /\ stray'[k] = stray[k]
          \/ applied'[k] = applied[k] /\ rejected'[k] \in BOOLEAN /\ stray'[k] = stray[k]
      BY <1>2, <1>4, <1>10
    <2>2. ~Sends(exec'[e], k) /\ Sends(exec[e], k)
      BY <1>8
    <2>3. /\ KeyInv(k)' /\ ~Dead(k)
          /\ applied'[k] = applied[k] /\ stray'[k] = stray[k] => Dead(k)'
      BY <1>2, <1>7, <2>1, <2>2, SentKept
    <2> QED BY <1>2, <1>10, <2>3
  <1>13. \A k \in Keys \ {x.key} : KeyInv(k)' /\ (Dead(k) => Dead(k)')
    BY <1>2, <1>7, <1>8, <1>10, AsideKept
  <1>14. c # "APPLIED" => Dead(exec[e].key)'
    BY <1>3, <1>6, <1>12 DEF Dead, Sending, Learns
  <1>15. HandlerInv(e)' /\ exec[e].pc \in Beyond /\ exec'[e].key = exec[e].key
    BY <1>1, <1>2, <1>3, <1>4, <1>6, <1>10, <1>14, NullIsNoAnswer, LearnerKept DEF Verdicts
  <1>16. \A k \in Keys : applied[k] = 1 => applied'[k] = 1
    BY <1>9, <1>10
  <1> QED BY <1>2, <1>5, <1>11, <1>12, <1>13, <1>15, <1>16, WorldKept

\* An executor stops waiting, because the ceiling fires or because its process
\* dies: a request that is out becomes a stray one.
LEMMA LeftBehindKept ==
    ASSUME DispatchInv, NEW e \in Executors, CeilingFires(e) \/ Crash(e)
    PROVE  DispatchInv' /\ Lasting
  <1> DEFINE x == exec[e]
             y == exec'[e]
             n == IF x.call = "PENDING" THEN 1 ELSE 0
  <1>1. x \in Execution /\ HandlerInv(e) /\ exec \in [Executors -> Execution] /\ WorldTypeOK
    BY DEF DispatchInv
  <1>2. /\ UNCHANGED storeVars /\ UNCHANGED rows
        /\ UNCHANGED applied /\ UNCHANGED rejected /\ UNCHANGED asked
    BY DEF CeilingFires, Crash, storeVars
  <1>3. faults' \in Nat
    BY <1>1, FaultType DEF CeilingFires, Crash, WorldTypeOK
  <1>4. x.pc # "idle" /\ x.key \in Keys
    BY <1>1 DEF CeilingFires, Crash, At, HandlerInv, ExecOK
  <1>5. stray' = [stray EXCEPT ![x.key] = stray[x.key] + n]
    BY DEF CeilingFires, Crash
  <1>6. /\ stray' \in [Keys -> Nat] /\ stray'[x.key] = stray[x.key] + n
        /\ \A k \in Keys \ {x.key} : stray'[k] = stray[k]
    BY <1>1, <1>4, <1>5 DEF WorldTypeOK
  <1>7. WorldTypeOK'
    BY <1>1, <1>2, <1>3, <1>6 DEF WorldTypeOK
  <1>8. /\ exec' = [exec EXCEPT ![e] = y] /\ HandlerInv(e)'
        /\ y.pc \in Beyond => x.pc \in Beyond /\ y.key = x.key
        /\ \A k \in Keys : ~Sends(y, k)
    <2>1. CASE CeilingFires(e)
      <3>1. x.pc = "await"
        BY <2>1 DEF CeilingFires, At
      <3>2. y = [x EXCEPT !.pc = "observe", !.verdict = "UNKNOWN", !.call = "ENDED"]
            /\ exec' = [exec EXCEPT ![e] = y]
        BY <1>1, <2>1, Becomes DEF CeilingFires
      <3>3. Learns(x, y) /\ y.pc = "observe" /\ y.verdict = "UNKNOWN" /\ y.call = "ENDED"
        BY <1>1, <3>2, LearnsNothing
      <3>4. HandlerInv(e)' /\ x.pc \in Beyond /\ y.key = x.key
        BY <1>1, <1>2, <3>1, <3>3, LearnerKept DEF Verdicts
      <3> QED BY <3>2, <3>3, <3>4 DEF Sends
    <2>2. CASE Crash(e)
      <3>1. Become(e, IdleExecution(e, epoch)) /\ epoch \in Nat
        BY <2>2 DEF Crash, DispatchInv, RowsInv, TypeOK
      <3>2. y = IdleExecution(e, epoch) /\ exec' = [exec EXCEPT ![e] = y]
        BY <1>1, <3>1, Becomes
      <3>3. ExecOK(y) /\ y.call = "NONE" /\ y.verdict = None /\ y.reply = None /\ y.pc = "idle"
        BY <3>1, <3>2, IdleOK DEF IdleExecution
      <3>4. HandlerInv(e)'
        BY <3>3, FreshKept
      <3> QED BY <3>2, <3>3, <3>4 DEF Sends, Beyond, Settling
    <2> QED BY <2>1, <2>2
  <1>9. \A d \in Executors \ {e} : exec'[d] = exec[d]
    BY <1>1, <1>8
  <1>10. \A k \in Keys : KeyInv(k)' /\ (Dead(k) => Dead(k)')
    <2> SUFFICES ASSUME NEW k \in Keys PROVE KeyInv(k)' /\ (Dead(k) => Dead(k)')
      OBVIOUS
    <2>0. k # x.key => ~Sends(x, k) /\ stray'[k] = stray[k]
      BY <1>6 DEF Sends
    <2>1. CASE k = x.key /\ x.call = "PENDING"
      <3>1. Sends(exec[e], k) /\ ~Sends(exec'[e], k) /\ stray'[k] = stray[k] + 1
        BY <1>6, <1>8, <2>1 DEF Sends
      <3>2. applied'[k] = applied[k] /\ rejected'[k] = rejected[k]
        BY <1>2
      <3> QED BY <1>2, <1>9, <3>1, <3>2, SentKept
    <2>2. CASE k = x.key /\ x.call # "PENDING" /\ x.pc = "invoke"
      <3>1. Sends(exec[e], k) /\ ~Sends(exec'[e], k)
        BY <1>8, <2>2 DEF Sends
      <3>2. stray[k] \in Nat /\ stray'[k] = stray[k] + 0
        BY <1>1, <1>6, <2>2 DEF WorldTypeOK
      <3>3. stray'[k] = stray[k] /\ applied'[k] = applied[k] /\ rejected'[k] \in BOOLEAN
        BY <1>1, <1>2, <3>2 DEF WorldTypeOK
      <3> QED BY <1>2, <1>9, <3>1, <3>3, SentKept
    <2>3. CASE k # x.key \/ (x.call # "PENDING" /\ x.pc # "invoke")
      <3>1. ~Sends(exec[e], k) /\ ~Sends(exec'[e], k)
        BY <1>8, <2>3 DEF Sends
      <3>2. stray[k] \in Nat /\ (k = x.key => stray'[k] = stray[k] + 0)
        BY <1>1, <1>6, <2>3 DEF WorldTypeOK
      <3>3. stray'[k] = stray[k] /\ applied'[k] = applied[k] /\ rejected'[k] = rejected[k]
        BY <1>2, <2>0, <3>2
      <3> QED BY <1>2, <1>9, <3>1, <3>3, AsideKept
    <2> QED BY <2>1, <2>2, <2>3
  <1> QED BY <1>2, <1>7, <1>8, <1>10, WorldKept

\* A request without a waiting caller lands, or never does.
LEMMA StrayKept ==
    ASSUME DispatchInv, NEW k \in Keys, StrayLands(k), UNCHANGED exec
    PROVE  DispatchInv' /\ Lasting
  <1>1. WorldTypeOK /\ KeyInv(k)
    BY DEF DispatchInv
  <1>2. UNCHANGED storeVars /\ UNCHANGED rows /\ UNCHANGED asked /\ UNCHANGED faults
    BY DEF StrayLands, storeVars
  <1>3. stray[k] = 1 /\ applied[k] = 0 /\ ~rejected[k]
    BY <1>1 DEF StrayLands, KeyInv, WorldTypeOK
  <1>4. ~Sending(k)
    BY <1>1, <1>3 DEF KeyInv, Untouched
  <1>5. \A j \in Keys : Sending(j)' <=> Sending(j)
    BY DEF Sending
  <1>6. /\ stray' \in [Keys -> Nat] /\ stray'[k] = 0
        /\ \A j \in Keys \ {k} : stray'[j] = stray[j]
    <2>1. stray' = [stray EXCEPT ![k] = stray[k] - 1]
      BY DEF StrayLands
    <2> QED BY <1>1, <1>3, <2>1 DEF WorldTypeOK
  <1>7. /\ applied' \in [Keys -> Nat] /\ rejected' \in [Keys -> BOOLEAN]
        /\ \A j \in Keys \ {k} : applied'[j] = applied[j] /\ rejected'[j] = rejected[j]
        /\ applied'[k] <= 1 /\ (rejected'[k] => applied'[k] = 0)
    <2>1. CASE Apply(k) /\ UNCHANGED rejected
      BY <1>1, <1>3, <2>1, ApplyUpdate DEF WorldTypeOK
    <2>2. CASE Reject(k) /\ UNCHANGED applied
      <3>1. /\ rejected' \in [Keys -> BOOLEAN]
            /\ \A j \in Keys \ {k} : rejected'[j] = rejected[j]
        BY <1>1, <2>2, RejectUpdate DEF WorldTypeOK
      <3>2. applied' = applied /\ applied'[k] = 0 /\ applied \in [Keys -> Nat]
        BY <1>1, <1>3, <2>2 DEF WorldTypeOK
      <3> QED BY <3>1, <3>2
    <2>3. CASE UNCHANGED <<applied, rejected>>
      <3>1. applied' = applied /\ rejected' = rejected
        BY <2>3
      <3> QED BY <1>1, <1>3, <3>1 DEF WorldTypeOK
    <2> QED BY <2>1, <2>2, <2>3 DEF StrayLands
  <1>8. WorldTypeOK'
    BY <1>1, <1>2, <1>6, <1>7 DEF WorldTypeOK
  <1>9. KeyInv(k)' /\ ~Dead(k)
    <2>1. rows[k].state \in PostDispatch /\ rows[k].state \notin Terminal
      BY <1>1, <1>3 DEF KeyInv, Untouched, Dead, Terminal
    <2>2. asked'[k] \subseteq {rows'[k].digest.req}
      BY <1>1, <1>2 DEF KeyInv
    <2> QED BY <1>2, <1>3, <1>4, <1>5, <1>6, <1>7, <2>1, <2>2 DEF KeyInv, Dead, Terminal
  <1>10. \A j \in Keys \ {k} : KeyInv(j)' /\ (Dead(j) => Dead(j)')
    <2> SUFFICES ASSUME NEW j \in Keys \ {k} PROVE KeyInv(j)' /\ (Dead(j) => Dead(j)')
      OBVIOUS
    <2>1. KeyInv(j)
      BY DEF DispatchInv
    <2>2. /\ applied'[j] = applied[j] /\ rejected'[j] = rejected[j] /\ stray'[j] = stray[j]
          /\ Sending(j)' <=> Sending(j)
      BY <1>5, <1>6, <1>7
    <2>3. (Dead(j)' <=> Dead(j)) /\ (Untouched(j)' <=> Untouched(j))
      BY <1>2, <2>2 DEF Dead, Untouched
    <2> QED BY <1>2, <2>1, <2>2, <2>3 DEF KeyInv
  <1>11. RowsInv' /\ epoch' \in Epochs /\ \A j \in Keys : LaterRow(rows[j], rows'[j])
    <2>1. rows' = rows /\ nextToken' = nextToken /\ epoch' = epoch
          /\ recoveryRequired' = recoveryRequired /\ ledger' = ledger
      BY <1>2 DEF storeVars
    <2> QED BY <2>1 DEF DispatchInv, RowsInv, TypeOK, LaterRow
  <1>12. \A d \in Executors : HandlerInv(d)'
    <2> SUFFICES ASSUME NEW d \in Executors PROVE HandlerInv(d)'
      OBVIOUS
    <2>1. HandlerInv(d) /\ exec'[d] = exec[d]
      BY DEF DispatchInv
    <2>2. \A j \in Keys : applied[j] = 1 => applied'[j] = 1
      BY <1>3, <1>7
    <2> QED BY <1>9, <1>10, <1>11, <2>1, <2>2, OtherKept
  <1> QED BY <1>3, <1>7, <1>8, <1>9, <1>10, <1>11, <1>12 DEF DispatchInv, OneBeyond, Lasting

\* Every step of an executor keeps the invariant.
LEMMA ExecutorKept ==
    ASSUME DispatchInv, NEW e \in Executors, ExecutorStep(e)
    PROVE  DispatchInv' /\ Lasting
  <1>1. Ready(e)
    BY DEF DispatchInv, Ready, HandlerInv, WorldTypeOK
  <1>2. CASE AcquireStep(e) \/ BoundaryStep(e) \/ SettleStep(e)
    BY <1>1, <1>2, RunsQuietly, QuietKept
  <1>3. CASE HandlerStep(e) \/ ProviderStep(e) \/ Crash(e)
    BY <1>3, AnswerKept, InvokeKept, LeftBehindKept, ProviderKept DEF HandlerStep, ProviderStep
  <1>4. CASE Restart(e) \/ \E k \in Keys, q \in Requests : Submit(e, k, q)
    BY <1>4, SubmitKept
  <1> QED BY <1>2, <1>3, <1>4 DEF ExecutorStep, ExecutorRuns

\* The invariant holds at first.
LEMMA DispatchInit ==
    ASSUME StoreInit, WorldInit, ExecutorInit
    PROVE  DispatchInv
  <1>1. RowsInv
    BY RowsInit
  <1>2. epoch \in Epochs /\ epoch \in Nat /\ WorldTypeOK
    <2>1. epoch = 1
      BY DEF StoreInit
    <2> QED BY <2>1, StoreConstants DEF Epochs, WorldInit, WorldTypeOK
  <1>3. \A e \in Executors : exec[e] = IdleExecution(e, epoch)
    BY DEF ExecutorInit
  <1>4. \A e \in Executors : ExecOK(exec[e]) /\ exec[e] \in Execution
    BY <1>2, <1>3, IdleOK
  <1>5. \A e \in Executors : exec[e].pc = "idle" /\ exec[e].call = "NONE"
                             /\ exec[e].verdict = None /\ exec[e].reply = None
    <2> SUFFICES ASSUME NEW e \in Executors
                 PROVE  /\ exec[e].pc = "idle" /\ exec[e].call = "NONE"
                        /\ exec[e].verdict = None /\ exec[e].reply = None
      OBVIOUS
    <2> DEFINE i == IdleExecution(e, epoch)
    <2>1. i.pc = "idle" /\ i.call = "NONE" /\ i.verdict = None /\ i.reply = None
      BY DEF IdleExecution
    <2>2. exec[e] = i
      BY <1>3
    <2> HIDE DEF i
    <2> QED BY <2>1, <2>2
  <1>6. \A e \in Executors : HandlerInv(e)
    BY <1>4, <1>5, NullIsNoAnswer DEF HandlerInv, Beyond, Settling, Matched, Verdicts, Replies
  <1>7. \A k \in Keys : KeyInv(k)
    <2> SUFFICES ASSUME NEW k \in Keys PROVE KeyInv(k)
      OBVIOUS
    <2>1. rows[k].state = "ABSENT"
      BY DEF StoreInit, AbsentRow
    <2>2. ~Sending(k)
      BY <1>5 DEF Sending, Sends
    <2> QED BY <2>1, <2>2 DEF KeyInv, WorldInit, Untouched, PostDispatch, Terminal
  <1>8. exec \in [Executors -> Execution]
    BY <1>4 DEF ExecutorInit
  <1>9. OneBeyond
    BY <1>5 DEF OneBeyond, Beyond, Settling
  <1> QED BY <1>1, <1>2, <1>6, <1>7, <1>8, <1>9 DEF DispatchInv

-------------------------------------------------------------------------------
(* The ledger as the executors use it.                                     *)

\* An executor asks nothing of the ledger that StoreNext does not allow.
LEMMA ExecutorUsesStore ==
    ASSUME DispatchInv, NEW e \in Executors, ExecutorStep(e)
    PROVE  [StoreNext]_storeVars
  <1>1. Ready(e)
    BY DEF DispatchInv, Ready, HandlerInv, WorldTypeOK
  <1>2. CASE AcquireStep(e) \/ BoundaryStep(e) \/ SettleStep(e)
    BY <1>1, <1>2, RunsQuietly DEF QuietStep
  <1>3. CASE HandlerStep(e) \/ ProviderStep(e) \/ Crash(e) \/ Restart(e)
             \/ \E k \in Keys, q \in Requests : Submit(e, k, q)
    BY <1>3 DEF HandlerStep, ProviderStep, DeadlineAtBoundary, Invoke, CeilingFires, ProviderActs,
                HandlerAnswers, Crash, Restart, Submit, storeVars
  <1> QED BY <1>2, <1>3 DEF ExecutorStep, ExecutorRuns

\* The methods of a Store that the epoch has left behind match no row.
LEMMA StaleHolderFenced ==
    ASSUME NEW se, se # epoch, NEW k, NEW t, NEW g, NEW v, NEW d, NEW o, NEW rc
    PROVE  /\ ~InsertRow(se, k, d) /\ ~ReclaimExpiredLease(se, k, v)
           /\ ~MarkInFlightExpiredAsUnknown(se, k, v) /\ ~AcquireUnleased(se, k, v)
           /\ ~BeginExecution(se, k, t, g) /\ ~MarkInFlight(se, k, t, g)
           /\ ~AbandonPreDispatch(se, k, t, g) /\ ~Finalize(se, k, t, g, v, rc)
           /\ ~RecordProviderObservation(se, k, t, g, o)
           /\ ~EnterRecoveryWithObservation(se, k, v, o)
  BY DEF InsertRow, CanInsert, ReclaimExpiredLease, CanReclaim, MarkInFlightExpiredAsUnknown,
         CanMarkExpired, AcquireUnleased, CanAcquireUnleased, BeginExecution, CanBegin,
         MarkInFlight, CanMarkInFlight, AbandonPreDispatch, CanAbandon, Finalize, CanFinalize,
         RecordProviderObservation, CanRecordObservation, EnterRecoveryWithObservation,
         CanEnterRecoveryWithObservation, CanEnterRecovery, HoldsLease, EpochGuard

\* An executor of an older epoch writes nothing.
LEMMA StaleExecutorFenced ==
    ASSUME NEW e \in Executors, exec[e].se # epoch, ExecutorStep(e)
    PROVE  UNCHANGED rows
  <1>1. CASE AcquireStep(e)
    BY <1>1, StaleHolderFenced
       DEF AcquireStep, TryInsert, LookupByKey, TryReclaim, TryExpire, TryUnleased, TryCAS,
           StoreCall, storeVars
  <1>2. CASE BoundaryStep(e)
    BY <1>2, StaleHolderFenced DEF BoundaryStep, TryBegin, TryMark, Abandon, StoreCall, storeVars
  <1>3. CASE SettleStep(e)
    BY <1>3, StaleHolderFenced
       DEF SettleStep, Observe, LookupGeneration, FinalizeLookup, FinalizeCAS, FinalizeReread,
           RecoveryLookup, RecoveryCAS, RecoveryObserve, StoreCall, storeVars
  <1>4. CASE HandlerStep(e) \/ ProviderStep(e) \/ Crash(e) \/ Restart(e)
             \/ \E k \in Keys, q \in Requests : Submit(e, k, q)
    BY <1>4 DEF HandlerStep, ProviderStep, DeadlineAtBoundary, Invoke, CeilingFires, ProviderActs,
                HandlerAnswers, Crash, Restart, Submit, storeVars
  <1> QED BY <1>1, <1>2, <1>3, <1>4 DEF ExecutorStep, ExecutorRuns

\* An executor's step changes that executor only.
LEMMA ExecutorAlone ==
    ASSUME DispatchInv, NEW e \in Executors, ExecutorStep(e), NEW d \in Executors, d # e
    PROVE  exec'[d] = exec[d]
  <1>0. exec \in [Executors -> Execution] /\ Ready(e)
    BY DEF DispatchInv, Ready, HandlerInv, WorldTypeOK
  <1>1. CASE AcquireStep(e) \/ BoundaryStep(e) \/ SettleStep(e)
    BY <1>0, <1>1, RunsQuietly DEF QuietStep, Advances
  <1>2. CASE HandlerStep(e) \/ ProviderStep(e) \/ Crash(e) \/ Restart(e)
             \/ \E k \in Keys, q \in Requests : Submit(e, k, q)
    <2>1. ASSUME NEW x, Become(e, x) PROVE exec'[d] = exec[d]
      BY <1>0, <2>1 DEF Become
    <2> QED BY <1>2, <2>1
       DEF HandlerStep, ProviderStep, DeadlineAtBoundary, Invoke, CeilingFires, ProviderActs,
                HandlerAnswers, Crash, Restart, Submit
  <1> QED BY <1>1, <1>2 DEF ExecutorStep, ExecutorRuns
====
