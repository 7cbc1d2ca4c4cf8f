---------------------------- MODULE ExecutorProofs ----------------------------
(***************************************************************************)
(* What an executor does, step by step, whoever else uses the ledger.      *)
(***************************************************************************)
EXTENDS DispatchExecutor, EffectRowProofs

-------------------------------------------------------------------------------
(* The program counter and the local variables of an executor.             *)

Early    == {"insert", "lookup", "reclaim", "expire", "unleased", "begin", "mark", "abandon"}
Settling == {"observe", "genLookup", "finLookup", "finCAS", "finReread",
             "recLookup", "recCAS", "recObs"}
Deciding == {"genLookup", "finLookup", "finCAS", "finReread"}

\* The executor has compared its digest with the row's.
Matched(x) == \/ x.pc \in {"reclaim", "expire", "unleased", "begin", "mark", "abandon"}
              \/ x.pc = "lookup" /\ x.stage # 0

\* The local variables make sense where the program counter is.
ExecOK(x) ==
    /\ x \in Execution
    /\ x.pc # "idle" => x.key \in Keys /\ x.req \in Requests /\ x.reply = None
    /\ x.pc = "idle" => x.call \in {"NONE", "ENDED"} /\ x.verdict = None
    /\ x.pc \in {"invoke"} \cup Early => x.call = "NONE" /\ x.verdict = None
    /\ x.pc = "await" => x.call \in {"PENDING", "APPLIED", "REJECTED", "UNSENT"}
                         /\ x.verdict = None
    /\ x.pc \in Settling => x.verdict # None /\ x.call # "PENDING"
    /\ x.pc \in Deciding => classifyPostDispatch(x) # "UNKNOWN"
    /\ x.pc = "insert" => x.stage = 0

\* y goes on with the call that x serves.
Carried(x, y) ==
    /\ y \in Execution
    /\ y.key = x.key /\ y.req = x.req /\ y.reply = x.reply /\ y.call = x.call
    /\ y.verdict = x.verdict /\ y.proof = x.proof /\ y.run = x.run

\* An executor between two calls is well formed.
LEMMA IdleOK ==
    ASSUME NEW e \in Executors, NEW se \in Nat
    PROVE  IdleExecution(e, se) \in Execution /\ ExecOK(IdleExecution(e, se))
  BY DEF ExecOK, Execution, IdleExecution, PCs, Calls, Forms, OwnForm, Settling, Early, Deciding

\* Going on with a call before the boundary.
LEMMA EarlyOK ==
    ASSUME NEW x, NEW y, ExecOK(x), Carried(x, y), x.pc \in Early,
           y.pc \in Early \cup {"invoke"}, y.pc = "insert" => y.stage = 0
    PROVE  ExecOK(y)
  BY DEF ExecOK, Carried, Settling, Early, Deciding

\* Going on with a call after the handler's answer.
LEMMA SettlingOK ==
    ASSUME NEW x, NEW y, ExecOK(x), Carried(x, y), x.pc \in Settling, y.pc \in Settling,
           y.pc \in Deciding => classifyPostDispatch(x) # "UNKNOWN"
    PROVE  ExecOK(y)
  <1>1. classifyPostDispatch(y) = classifyPostDispatch(x)
    BY DEF Carried, classifyPostDispatch
  <1> QED BY <1>1 DEF ExecOK, Carried, Settling, Early, Deciding

\* What Reply leaves of a call.
Replied(x, y, status) ==
    /\ y.pc = "idle" /\ y.key = x.key /\ y.reply = status /\ y.verdict = None
    /\ y.req = None
    /\ y.call = IF x.call = "NONE" THEN "NONE" ELSE "ENDED"

\* An update of exec is an update of one executor.
LEMMA Becomes ==
    ASSUME exec \in [Executors -> Execution], NEW e \in Executors, NEW y, Become(e, y)
    PROVE  /\ exec'[e] = y
           /\ exec' = [exec EXCEPT ![e] = exec'[e]]
  BY DEF Become

\* The record that Reply leaves.
LEMMA ReplyRecord ==
    ASSUME NEW q \in Execution, NEW k \in Keys \cup {None}, NEW s \in Replies, NEW c \in Calls
    PROVE  [q EXCEPT !.key = k, !.reply = s, !.call = c] \in Execution
  BY DEF Execution

\* Reply ends a call.
LEMMA ReplyEnds ==
    ASSUME exec \in [Executors -> Execution], NEW e \in Executors, ExecOK(exec[e]),
           NEW status \in Replies, Reply(e, status)
    PROVE  /\ exec' = [exec EXCEPT ![e] = exec'[e]]
           /\ ExecOK(exec'[e]) /\ Replied(exec[e], exec'[e], status)
  <1> DEFINE x == exec[e]
             c == IF x.call = "NONE" THEN "NONE" ELSE "ENDED"
             q == IdleExecution(e, x.se)
             y == [q EXCEPT !.key = x.key, !.reply = status, !.call = c]
  <1>1. x.se \in Nat /\ x.key \in Keys \cup {None} /\ x \in Execution
    BY DEF Execution
  <1>2. q \in Execution /\ q.pc = "idle" /\ q.verdict = None /\ q.req = None
    BY <1>1, IdleOK DEF IdleExecution
  <1>3. exec'[e] = y /\ exec' = [exec EXCEPT ![e] = exec'[e]]
    BY Becomes DEF Reply
  <1>c. c \in Calls
    BY DEF Calls
  <1> HIDE DEF q, c
  <1>4. y \in Execution
    BY <1>1, <1>2, <1>c, ReplyRecord
  <1>5. y.pc = "idle" /\ y.verdict = None /\ y.key = x.key /\ y.reply = status /\ y.call = c
        /\ y.req = None
    BY <1>2 DEF Execution
  <1> HIDE DEF y
  <1> QED BY <1>3, <1>4, <1>5 DEF c, ExecOK, Replied, Settling, Early, Deciding

\* An executor with the lease it won.
WithLease(x, t, g) == [x EXCEPT !.pc = "begin", !.stage = 0, !.ver = 0, !.token = t, !.gen = g]

\* The lease an acquisition won changes nothing else.
LEMMA LeaseCarried ==
    ASSUME NEW x \in Execution, NEW t \in Nat, NEW g \in Nat
    PROVE  Carried(x, WithLease(x, t, g)) /\ WithLease(x, t, g).pc = "begin"
  <1> DEFINE y == WithLease(x, t, g)
  <1>y. y = [x EXCEPT !.pc = "begin", !.stage = 0, !.ver = 0, !.token = t, !.gen = g]
    BY DEF WithLease
  <1> HIDE DEF y
  <1>0. "begin" \in PCs /\ 0 \in Nat /\ 0 \in 0 .. 3
    BY DEF PCs
  <1>1. y \in Execution
    BY <1>0, <1>y DEF Execution
  <1>2. y.pc = "begin" /\ y.key = x.key /\ y.req = x.req
    BY <1>y DEF Execution
  <1>3. y.reply = x.reply /\ y.call = x.call
    BY <1>y DEF Execution
  <1>4. y.verdict = x.verdict /\ y.proof = x.proof /\ y.run = x.run
    BY <1>y DEF Execution
  <1> QED BY <1>1, <1>2, <1>3, <1>4 DEF Carried, y

\* Goto goes on with a call.
LEMMA Goes ==
    ASSUME exec \in [Executors -> Execution], NEW e \in Executors, NEW pc \in PCs, Goto(e, pc)
    PROVE  /\ exec' = [exec EXCEPT ![e] = exec'[e]]
           /\ Carried(exec[e], exec'[e]) /\ exec'[e].pc = pc /\ exec'[e].stage = exec[e].stage
  <1> DEFINE x == exec[e]
             y == [x EXCEPT !.pc = pc, !.ver = 0]
  <1>1. x \in Execution
    OBVIOUS
  <1>2. exec'[e] = y /\ exec' = [exec EXCEPT ![e] = exec'[e]]
    BY Becomes DEF Goto
  <1> HIDE DEF x
  <1>3. Carried(x, y) /\ y.pc = pc /\ y.stage = x.stage
    BY <1>1 DEF Carried, Execution
  <1> QED BY <1>2, <1>3 DEF x

-------------------------------------------------------------------------------
(* The methods an executor calls are steps of the store.                   *)

\* No row becomes terminal.
NoneSettled == \A k \in Keys : rows'[k].state \in Terminal => rows[k].state = rows'[k].state

\* A write of one row that does not settle it.
LEMMA PutNoneSettled ==
    ASSUME TypeOK, NEW k \in Keys, NEW r, PutRow(k, r),
           r.state \notin Terminal \/ r.state = rows[k].state
    PROVE  NoneSettled
  BY DEF TypeOK, PutRow, NoneSettled

\* AcquireWithAuthority's INSERT.
LEMMA InsertCall ==
    ASSUME TypeOK, epoch \in Epochs, NEW se, NEW k \in Keys, NEW d \in Digests, InsertRow(se, k, d)
    PROVE  StoreNext /\ NoneSettled /\ rows'[k].state = "PREPARED" /\ rows'[k].digest = d
  <1>1. se = epoch
    BY DEF InsertRow, CanInsert, EpochGuard
  <1>2. StoreNext
    BY <1>1 DEF StoreNext, AdmissionStep
  <1> DEFINE r == [AbsentRow EXCEPT !.state = "PREPARED", !.digest = d,
                                   !.token = NewToken, !.gen = 1,
                                   !.version = 1, !.lease = "LIVE"]
  <1>3. r.state = "PREPARED" /\ r.digest = d
    BY DEF AbsentRow
  <1>4. PutRow(k, r)
    BY DEF InsertRow
  <1> HIDE DEF r
  <1>5. rows'[k] = r
    BY <1>4 DEF PutRow, TypeOK
  <1> QED BY <1>2, <1>3, <1>4, <1>5, PutNoneSettled DEF Terminal

\* Its three CAS updates.
LEMMA CASCall ==
    ASSUME TypeOK, epoch \in Epochs, NEW se, NEW k \in Keys, NEW v,
           \/ ReclaimExpiredLease(se, k, v)
           \/ MarkInFlightExpiredAsUnknown(se, k, v)
           \/ AcquireUnleased(se, k, v)
    PROVE  StoreNext /\ NoneSettled
  <1>0. rows[k] \in Row /\ nextToken \in Nat
    BY DEF TypeOK
  <1>1. se = epoch /\ v = rows[k].version
    BY DEF ReclaimExpiredLease, CanReclaim, MarkInFlightExpiredAsUnknown, CanMarkExpired,
           AcquireUnleased, CanAcquireUnleased, EpochGuard
  <1>2. StoreNext
    BY <1>1 DEF StoreNext, AdmissionStep
  <1>3. Leased(rows[k]).state = rows[k].state /\ Leased(rows[k]) \in Row
    BY <1>0, LeasedRow, LeasedStory DEF SameStory
  <1>4. [Leased(rows[k]) EXCEPT !.state = "PREPARED"].state = "PREPARED"
    BY <1>3, StateSet DEF States, PreDispatch
  <1>5. [Relinquished(rows[k]) EXCEPT !.state = "UNKNOWN"].state = "UNKNOWN"
    BY <1>0, RelinquishedRow, StateSet DEF States, PostDispatch
  <1>6. NoneSettled
    BY <1>3, <1>4, <1>5, PutNoneSettled
       DEF ReclaimExpiredLease, MarkInFlightExpiredAsUnknown, AcquireUnleased, Terminal
  <1> QED BY <1>2, <1>6

\* The methods before the boundary, and MarkInFlight.
LEMMA BoundaryCall ==
    ASSUME TypeOK, epoch \in Epochs, NEW se, NEW k \in Keys, NEW t, NEW g,
           \/ BeginExecution(se, k, t, g)
           \/ MarkInFlight(se, k, t, g)
           \/ AbandonPreDispatch(se, k, t, g)
    PROVE  /\ StoreNext /\ NoneSettled
           /\ MarkInFlight(se, k, t, g) => /\ rows[k].state = "EXECUTING"
                                           /\ rows'[k].state = "IN_FLIGHT"
  <1>0. rows[k] \in Row
    BY DEF TypeOK
  <1>1. se = epoch /\ t = rows[k].token /\ g = rows[k].gen
    BY DEF BeginExecution, CanBegin, MarkInFlight, CanMarkInFlight, AbandonPreDispatch,
           CanAbandon, HoldsLease, EpochGuard
  <1>2. StoreNext
    BY <1>1 DEF StoreNext, HolderStep
  <1>3. Bumped([rows[k] EXCEPT !.state = "EXECUTING"]).state = "EXECUTING"
    BY <1>0 DEF Row, Bumped
  <1>4. Bumped([rows[k] EXCEPT !.state = "IN_FLIGHT", !.locator = TRUE]).state = "IN_FLIGHT"
    BY <1>0 DEF Row, Bumped
  <1>5. Bumped([Unleased(rows[k]) EXCEPT !.state = "PREPARED"]).state = "PREPARED"
    BY <1>0 DEF Row, Bumped, Unleased
  <1>6. NoneSettled
    BY <1>3, <1>4, <1>5, PutNoneSettled
       DEF BeginExecution, MarkInFlight, AbandonPreDispatch, Terminal
  <1>7. MarkInFlight(se, k, t, g) => rows[k].state = "EXECUTING" /\ rows'[k].state = "IN_FLIGHT"
    BY <1>4 DEF MarkInFlight, CanMarkInFlight, PutRow, TypeOK
  <1> QED BY <1>2, <1>6, <1>7

\* RecordProviderObservation and EnterRecoveryWithObservation.
LEMMA ObserveCall ==
    ASSUME TypeOK, epoch \in Epochs, NEW se, NEW k \in Keys, NEW t, NEW g, NEW v,
           NEW o \in Observations,
           \/ RecordProviderObservation(se, k, t, g, o)
           \/ EnterRecoveryWithObservation(se, k, v, o)
    PROVE  StoreNext /\ NoneSettled
  <1>0. rows[k] \in Row
    BY DEF TypeOK
  <1>1. CASE RecordProviderObservation(se, k, t, g, o)
    <2>1. RecordProviderObservation(epoch, k, rows[k].token, rows[k].gen, o)
      BY <1>1 DEF RecordProviderObservation, CanRecordObservation, EpochGuard
    <2>2. StoreNext
      BY <2>1 DEF StoreNext, HolderStep
    <2>3. Observed(rows[k], o).state = rows[k].state
      BY <1>0, ObservedState
    <2> QED BY <1>1, <2>2, <2>3, PutNoneSettled DEF RecordProviderObservation
  <1>2. CASE EnterRecoveryWithObservation(se, k, v, o)
    <2>1. se = epoch /\ v = rows[k].version
      BY <1>2 DEF EnterRecoveryWithObservation, CanEnterRecoveryWithObservation,
                  CanEnterRecovery, EpochGuard
    <2>2. StoreNext
      BY <1>2, <2>1 DEF StoreNext, RecoveryStep
    <2>3. [Observed(Relinquished(rows[k]), o) EXCEPT !.state = "UNKNOWN"].state = "UNKNOWN"
      BY <1>0, RelinquishedRow, ObservedRow, StateSet DEF States, PostDispatch
    <2> QED BY <1>2, <2>2, <2>3, PutNoneSettled DEF EnterRecoveryWithObservation, Terminal
  <1> QED BY <1>1, <1>2

\* Finalize settles the row as its receipt says.
LEMMA FinalizeCall ==
    ASSUME TypeOK, epoch \in Epochs, NEW se, NEW k \in Keys, NEW t, NEW g, NEW v,
           NEW rc \in Receipts, Finalize(se, k, t, g, v, rc)
    PROVE  /\ StoreNext
           /\ rows'[k].state = rc.status
           /\ \A j \in Keys \ {k} : rows'[j] = rows[j]
  <1>0. rows[k] \in Row
    BY DEF TypeOK
  <1>1. se = epoch /\ t = rows[k].token /\ g = rows[k].gen /\ v = rows[k].version
    BY DEF Finalize, CanFinalize, HoldsLease, EpochGuard
  <1>2. StoreNext
    BY <1>1 DEF StoreNext, HolderStep
  <1> DEFINE r == Bumped([Unleased(rows[k]) EXCEPT !.state = rc.status, !.receipt = rc,
                                   !.run = Fill(@, rc.run), !.locator = FALSE])
  <1>3. r.state = rc.status
    BY <1>0 DEF Row, Bumped, Unleased
  <1>4. PutRow(k, r)
    BY DEF Finalize
  <1> HIDE DEF r
  <1> QED BY <1>2, <1>3, <1>4 DEF PutRow, TypeOK
-------------------------------------------------------------------------------
(* What a step of an executor amounts to when it neither invokes the       *)
(* handler nor hears from it.                                              *)

\* A row becomes terminal only by this executor, and as its handler said.
SettlesTruly(x) == \A k \in Keys : rows'[k].state \in Terminal =>
    \/ rows[k].state = rows'[k].state
    \/ /\ k = x.key
       /\ rows'[k].state = "COMMITTED" => x.verdict = "SUCCEEDED"
       /\ rows'[k].state = "FAILED" => x.verdict = "DEFINITIVE"

\* A row that is there and was admitted with request q.
AdmittedWith(r, q) == r.state # "ABSENT" /\ r.digest.req = q

\* Where the executor goes: on before the boundary, over it with MarkInFlight,
\* on with the answer it has, or back to its caller with the truth.
Advance(x, y) ==
    \/ /\ Carried(x, y) /\ x.pc \in Early /\ y.pc \in Early
       /\ Matched(y) => Matched(x) \/ AdmittedWith(rows'[x.key], x.req)
    \/ /\ Carried(x, y) /\ x.pc = "mark" /\ y.pc = "invoke"
       /\ rows[x.key].state = "EXECUTING" /\ rows'[x.key].state = "IN_FLIGHT"
    \/ Carried(x, y) /\ x.pc \in Settling /\ y.pc \in Settling \ {"observe"}
    \/ \E status \in Replies :
          /\ x.pc # "idle" /\ Replied(x, y, status)
          /\ status = "SUCCEEDED" => rows'[x.key].state = "COMMITTED"
          /\ status \in {"FAILED", "DENIED"} => x.call = "NONE" \/ rows'[x.key].state = "FAILED"
          /\ status \in {"SUCCEEDED", "IN_FLIGHT"} =>
                Matched(x) \/ x.pc \in Settling \/ AdmittedWith(rows'[x.key], x.req)

Advances(e) ==
    /\ exec' = [exec EXCEPT ![e] = exec'[e]]
    /\ ExecOK(exec'[e]) /\ Advance(exec[e], exec'[e])

\* With what it does to the ledger, and no word to the handler.
QuietStep(e) ==
    /\ Advances(e)
    /\ [StoreNext]_storeVars /\ SettlesTruly(exec[e])
    /\ UNCHANGED worldVars /\ faults' \in Nat

\* What holds before the step.
Ready(e) ==
    /\ RowsInv /\ epoch \in Epochs /\ faults \in Nat
    /\ exec \in [Executors -> Execution] /\ ExecOK(exec[e])

\* A reply that needs no truth of the row.
LEMMA ReplyAdvances ==
    ASSUME NEW e \in Executors, Ready(e), NEW status \in Replies, Reply(e, status),
           exec[e].pc # "idle",
           status = "SUCCEEDED" => rows'[exec[e].key].state = "COMMITTED",
           status \in {"FAILED", "DENIED"} =>
              exec[e].call = "NONE" \/ rows'[exec[e].key].state = "FAILED",
           status \in {"SUCCEEDED", "IN_FLIGHT"} =>
              \/ Matched(exec[e]) \/ exec[e].pc \in Settling
              \/ AdmittedWith(rows'[exec[e].key], exec[e].req)
    PROVE  Advances(e)
  <1>1. /\ exec' = [exec EXCEPT ![e] = exec'[e]]
        /\ ExecOK(exec'[e]) /\ Replied(exec[e], exec'[e], status)
    BY ReplyEnds DEF Ready
  <1> QED BY <1>1 DEF Advances, Advance

\* An error before the boundary.
LEMMA ErrorAdvances ==
    ASSUME NEW e \in Executors, Ready(e), exec[e].pc \in Early, AcquireError(e)
    PROVE  Advances(e)
  <1>1. exec[e].call = "NONE" /\ exec[e].pc # "idle"
    BY DEF Ready, ExecOK, Early
  <1> QED BY <1>1, ReplyAdvances DEF AcquireError, Replies

\* Goto before the boundary.
LEMMA GotoEarly ==
    ASSUME NEW e \in Executors, Ready(e), exec[e].pc \in Early,
           NEW pc \in Early \ {"insert", "begin", "reclaim", "expire", "unleased"}, Goto(e, pc),
           pc = "lookup" => exec[e].stage = 0 \/ Matched(exec[e]),
           pc # "lookup" => Matched(exec[e])
    PROVE  Advances(e)
  <1>1. pc \in PCs
    BY DEF PCs, Early
  <1>2. /\ exec' = [exec EXCEPT ![e] = exec'[e]]
        /\ Carried(exec[e], exec'[e]) /\ exec'[e].pc = pc /\ exec'[e].stage = exec[e].stage
    BY <1>1, Goes DEF Ready
  <1>3. ExecOK(exec'[e])
    BY <1>2, EarlyOK DEF Ready
  <1> QED BY <1>2, <1>3 DEF Advances, Advance, Matched, Early

\* Goto after the handler's answer.
LEMMA GotoSettling ==
    ASSUME NEW e \in Executors, Ready(e), exec[e].pc \in Settling,
           NEW pc \in Settling \ {"observe"}, Goto(e, pc),
           pc \in Deciding => classifyPostDispatch(exec[e]) # "UNKNOWN"
    PROVE  Advances(e)
  <1>1. pc \in PCs
    BY DEF PCs, Settling
  <1>2. /\ exec' = [exec EXCEPT ![e] = exec'[e]]
        /\ Carried(exec[e], exec'[e]) /\ exec'[e].pc = pc
    BY <1>1, Goes DEF Ready
  <1>3. ExecOK(exec'[e])
    BY <1>2, SettlingOK DEF Ready
  <1> QED BY <1>2, <1>3 DEF Advances, Advance

\* A step that writes nothing settles nothing.
LEMMA NothingSettles ==
    ASSUME NEW x, UNCHANGED storeVars \/ (StoreNext /\ NoneSettled)
    PROVE  [StoreNext]_storeVars /\ SettlesTruly(x)
  BY DEF storeVars, NoneSettled, SettlesTruly

\* Faults are counted.
LEMMA FaultType ==
    ASSUME faults \in Nat, Fault \/ NoFault
    PROVE  faults' \in Nat
  BY DEF Fault, NoFault

\* The lease an acquisition won.
LEMMA AcquiredAdvances ==
    ASSUME NEW e \in Executors, Ready(e), exec[e].pc \in Early, Acquired(e),
           Matched(exec[e]) \/ AdmittedWith(rows'[exec[e].key], exec[e].req)
    PROVE  Advances(e)
  <1> DEFINE x == exec[e]
             t == NewToken
             g == rows[x.key].gen + 1
             y == WithLease(x, t, g)
  <1>1. x \in Execution /\ x.key \in Keys /\ t \in Nat
    BY DEF Ready, ExecOK, Early, RowsInv, TypeOK, NewToken
  <1>2. g \in Nat
    BY <1>1 DEF Ready, RowsInv, TypeOK, Row
  <1>3. exec'[e] = y /\ exec' = [exec EXCEPT ![e] = exec'[e]]
    BY Becomes DEF Acquired, Ready, WithLease
  <1> HIDE DEF t, g, x
  <1>4. Carried(x, y) /\ y.pc = "begin"
    BY <1>1, <1>2, LeaseCarried
  <1> HIDE DEF y
  <1>5. ExecOK(y)
    BY <1>4, EarlyOK DEF Ready, x, Early
  <1> QED BY <1>3, <1>4, <1>5 DEF x, Advances, Advance, Early

\* AcquireWithAuthority's INSERT.
LEMMA TryInsertQuiet ==
    ASSUME NEW e \in Executors, Ready(e), TryInsert(e)
    PROVE  QuietStep(e)
  <1> DEFINE x == exec[e]
             d == [req |-> x.req, form |-> x.form]
  <1>0. x.pc = "insert" /\ x.pc \in Early /\ x.key \in Keys /\ x.req \in Requests
        /\ x.form \in Forms /\ x.stage = 0
    BY DEF TryInsert, At, Ready, ExecOK, Early, Execution
  <1>1. d \in Digests /\ d.req = x.req
    BY <1>0 DEF Digests
  <1>2. UNCHANGED worldVars /\ faults' \in Nat
    BY FaultType DEF TryInsert, StoreCall, Quiet, Ready
  <1> HIDE DEF d
  <1>3. CASE InsertRow(x.se, x.key, d) /\ (Acquired(e) \/ AcquireError(e))
    <2>1. StoreNext /\ NoneSettled /\ AdmittedWith(rows'[x.key], x.req)
      BY <1>0, <1>1, <1>3, InsertCall DEF Ready, RowsInv, AdmittedWith
    <2> QED BY <1>0, <1>2, <1>3, <2>1, AcquiredAdvances, ErrorAdvances, NothingSettles DEF QuietStep
  <1>4. CASE UNCHANGED storeVars /\ AcquireError(e)
    BY <1>0, <1>2, <1>4, ErrorAdvances, NothingSettles DEF QuietStep
  <1>5. CASE UNCHANGED storeVars /\ Goto(e, "lookup")
    <2>1. "lookup" \in Early
      BY DEF Early
    <2> QED BY <1>0, <1>2, <1>5, <2>1, GotoEarly, NothingSettles DEF QuietStep
  <1> QED BY <1>3, <1>4, <1>5 DEF TryInsert, StoreCall, d

\* A CAS that AcquireWithAuthority goes on to try on the row it has read.
LEMMA TryAdvances ==
    ASSUME NEW e \in Executors, Ready(e), exec[e].pc = "lookup", UNCHANGED rows,
           NEW pc \in {"reclaim", "expire", "unleased"}, NEW i \in 0 .. 3,
           Become(e, [exec[e] EXCEPT !.pc = pc, !.stage = i, !.ver = rows[exec[e].key].version]),
           exec[e].stage # 0 \/ AdmittedWith(rows[exec[e].key], exec[e].req)
    PROVE  Advances(e)
  <1> DEFINE x == exec[e]
             v == rows[x.key].version
             y == exec'[e]
  <1>1. x \in Execution /\ x.key \in Keys /\ x.pc \in Early
    BY DEF Ready, ExecOK, Early
  <1>2. v \in Nat /\ pc \in PCs
    BY <1>1 DEF Ready, RowsInv, TypeOK, Row, PCs
  <1>3. y = [x EXCEPT !.pc = pc, !.stage = i, !.ver = v] /\ exec' = [exec EXCEPT ![e] = y]
    BY Becomes DEF Ready
  <1>4. Carried(x, y) /\ y.pc = pc /\ y.stage = i
    <2> HIDE DEF x, y, v
    <2> QED BY <1>1, <1>2, <1>3 DEF Carried, Execution
  <1>5. ExecOK(y)
    BY <1>1, <1>4, EarlyOK DEF Ready, Early
  <1> QED BY <1>1, <1>3, <1>4, <1>5 DEF Advances, Advance, Matched, Early

\* IdempotencyConflict.
LEMMA ConflictAdvances ==
    ASSUME NEW e \in Executors, Ready(e), exec[e].pc = "lookup", exec[e].stage = 0, Conflict(e)
    PROVE  Advances(e)
  <1>1. exec[e] \in Execution /\ exec[e].pc \in Early /\ exec[e].call = "NONE"
    BY DEF Ready, ExecOK, Early
  <1>2. CASE Reply(e, "DENIED")
    BY <1>1, <1>2, ReplyAdvances DEF Replies
  <1>3. CASE Become(e, [exec[e] EXCEPT !.pc = "insert", !.form = "LEGACY"])
    <2> DEFINE x == exec[e]
               y == exec'[e]
    <2>1. y = [x EXCEPT !.pc = "insert", !.form = "LEGACY"] /\ exec' = [exec EXCEPT ![e] = y]
      BY <1>3, Becomes DEF Ready
    <2>2. "insert" \in PCs /\ "LEGACY" \in Forms
      BY DEF PCs, Forms
    <2>3. Carried(x, y) /\ y.pc = "insert" /\ y.stage = 0
      <3>1. x \in Execution /\ x.stage = 0
        BY <1>1
      <3> HIDE DEF x, y
      <3> QED BY <2>1, <2>2, <3>1 DEF Carried, Execution
    <2>4. ExecOK(y)
      BY <1>1, <2>3, EarlyOK DEF Ready, Early
    <2> QED BY <1>1, <2>1, <2>3, <2>4 DEF Advances, Advance, Matched, Early
  <1> QED BY <1>2, <1>3 DEF Conflict

\* What AcquireWithAuthority makes of the row it has read.
LEMMA DecideAdvances ==
    ASSUME NEW e \in Executors, Ready(e), exec[e].pc = "lookup", UNCHANGED rows,
           Decide(e, rows[exec[e].key])
    PROVE  Advances(e)
  <1> DEFINE x == exec[e]
             r == rows[exec[e].key]
             try(pc, i) == Become(e, [exec[e] EXCEPT !.pc = pc, !.stage = i, !.ver = r.version])
  <1>1. x.pc \in Early /\ x.call = "NONE"
    BY DEF Ready, ExecOK, Early
  <1>2. \/ AcquireError(e)
        \/ x.stage = 0 /\ Conflict(e)
        \/ /\ x.stage # 0 \/ AdmittedWith(r, x.req)
           /\ \/ r.state \in Terminal /\ Replay(e, r)
              \/ Reply(e, "UNKNOWN") \/ Reply(e, "IN_FLIGHT")
              \/ try("reclaim", 1) \/ try("expire", 2) \/ try("unleased", 3)
    BY DEF Decide, AdmittedWith
  <1>3. CASE AcquireError(e)
    BY <1>1, <1>3, ErrorAdvances
  <1>4. CASE x.stage = 0 /\ Conflict(e)
    BY <1>4, ConflictAdvances
  <1>a. x.stage # 0 => Matched(x)
    BY DEF Matched
  <1>5. CASE (x.stage # 0 \/ AdmittedWith(r, x.req)) /\ r.state \in Terminal /\ Replay(e, r)
    BY <1>1, <1>5, <1>a, ReplyAdvances DEF Replay, Terminal, Replies, Early
  <1>6. CASE /\ x.stage # 0 \/ AdmittedWith(r, x.req)
             /\ Reply(e, "UNKNOWN") \/ Reply(e, "IN_FLIGHT")
    BY <1>1, <1>6, <1>a, ReplyAdvances DEF Replies
  <1>7. CASE /\ x.stage # 0 \/ AdmittedWith(r, x.req)
             /\ try("reclaim", 1) \/ try("expire", 2) \/ try("unleased", 3)
    <2>1. 1 \in 0 .. 3 /\ 2 \in 0 .. 3 /\ 3 \in 0 .. 3
      OBVIOUS
    <2>2. CASE try("reclaim", 1)
      BY <1>7, <2>1, <2>2, TryAdvances
    <2>3. CASE try("expire", 2)
      BY <1>7, <2>1, <2>3, TryAdvances
    <2>4. CASE try("unleased", 3)
      BY <1>7, <2>1, <2>4, TryAdvances
    <2> QED BY <1>7, <2>2, <2>3, <2>4
  <1> QED BY <1>2, <1>3, <1>4, <1>5, <1>6, <1>7

\* The lookup by key.
LEMMA LookupQuiet ==
    ASSUME NEW e \in Executors, Ready(e), LookupByKey(e)
    PROVE  QuietStep(e)
  <1>1. exec[e].pc = "lookup" /\ exec[e].pc \in Early
    BY DEF LookupByKey, At, Early
  <1>2. UNCHANGED rows /\ UNCHANGED storeVars /\ UNCHANGED worldVars /\ faults' \in Nat
    BY FaultType DEF LookupByKey, storeVars, Quiet, Ready
  <1>3. Advances(e)
    BY <1>1, <1>2, DecideAdvances, ErrorAdvances DEF LookupByKey
  <1> QED BY <1>2, <1>3, NothingSettles DEF QuietStep

\* The CAS updates that AcquireWithAuthority may try.
LEMMA TryCASQuiet ==
    ASSUME NEW e \in Executors, Ready(e), TryReclaim(e) \/ TryExpire(e) \/ TryUnleased(e)
    PROVE  QuietStep(e)
  <1> DEFINE x == exec[e]
  <1>1. x.pc \in {"reclaim", "expire", "unleased"}
    BY DEF TryReclaim, TryExpire, TryUnleased, At
  <1>2. x.pc \in Early /\ x.key \in Keys /\ Matched(x)
    BY <1>1 DEF Ready, ExecOK, Early, Matched
  <1>3. UNCHANGED worldVars /\ faults' \in Nat
    BY FaultType DEF TryReclaim, TryExpire, TryUnleased, TryCAS, Quiet, Ready
  <1>4. /\ \/ UNCHANGED storeVars
           \/ ReclaimExpiredLease(x.se, x.key, x.ver)
           \/ MarkInFlightExpiredAsUnknown(x.se, x.key, x.ver)
           \/ AcquireUnleased(x.se, x.key, x.ver)
        /\ Acquired(e) \/ AcquireError(e) \/ Reply(e, "UNKNOWN") \/ Goto(e, "lookup")
    BY DEF TryReclaim, TryExpire, TryUnleased, TryCAS, CASMiss
  <1>5. [StoreNext]_storeVars /\ SettlesTruly(x)
    BY <1>2, <1>4, CASCall, NothingSettles DEF Ready, RowsInv
  <1>6. "lookup" \in Early /\ "UNKNOWN" \in Replies /\ x.pc # "idle"
    BY <1>1 DEF Early, Replies
  <1>7. CASE Acquired(e) \/ AcquireError(e)
    BY <1>2, <1>7, AcquiredAdvances, ErrorAdvances, <1>3, <1>5 DEF QuietStep
  <1>8. CASE Reply(e, "UNKNOWN")
    BY <1>6, <1>8, ReplyAdvances, <1>3, <1>5 DEF QuietStep
  <1>9. CASE Goto(e, "lookup")
    BY <1>2, <1>6, <1>9, GotoEarly, <1>3, <1>5 DEF QuietStep
  <1> QED BY <1>4, <1>7, <1>8, <1>9

\* What is left to do when the ledger's part of a step is known.
LEMMA QuietFrom ==
    ASSUME NEW e \in Executors, Ready(e), Advances(e), UNCHANGED worldVars, Fault \/ NoFault,
           UNCHANGED storeVars \/ (StoreNext /\ NoneSettled)
    PROVE  QuietStep(e)
  <1>1. faults' \in Nat
    BY FaultType DEF Ready
  <1> QED BY <1>1, NothingSettles DEF QuietStep

\* BeginExecution, MarkInFlight and AbandonPreDispatch.
LEMMA BoundaryQuiet ==
    ASSUME NEW e \in Executors, Ready(e), BoundaryStep(e)
    PROVE  QuietStep(e)
  <1> DEFINE x == exec[e]
  <1>1. x.pc \in {"begin", "mark", "abandon"}
    BY DEF BoundaryStep, TryBegin, TryMark, Abandon, At
  <1>2. x.pc \in Early /\ x.key \in Keys /\ Matched(x) /\ x.call = "NONE"
    BY <1>1 DEF Ready, ExecOK, Early, Matched
  <1>3. UNCHANGED worldVars /\ (Fault \/ NoFault)
    BY DEF BoundaryStep, TryBegin, TryMark, Abandon, StoreCall, Quiet
  <1>4. \/ UNCHANGED storeVars
        \/ BeginExecution(x.se, x.key, x.token, x.gen)
        \/ MarkInFlight(x.se, x.key, x.token, x.gen)
        \/ AbandonPreDispatch(x.se, x.key, x.token, x.gen)
    BY DEF BoundaryStep, TryBegin, TryMark, Abandon, StoreCall
  <1>5. UNCHANGED storeVars \/ (StoreNext /\ NoneSettled)
    BY <1>2, <1>4, BoundaryCall DEF Ready, RowsInv
  <1>6. \/ Goto(e, "mark") \/ Goto(e, "abandon") \/ Reply(e, "FAILED")
        \/ x.pc = "mark" /\ MarkInFlight(x.se, x.key, x.token, x.gen) /\ Goto(e, "invoke")
    BY DEF BoundaryStep, TryBegin, TryMark, Abandon, StoreCall, At
  <1>7. CASE Goto(e, "mark") \/ Goto(e, "abandon")
    <2>1. Advances(e)
      BY <1>2, <1>7, GotoEarly DEF Early
    <2> QED BY <1>3, <1>5, <2>1, QuietFrom
  <1>8. CASE Reply(e, "FAILED")
    <2>1. Advances(e)
      BY <1>1, <1>2, <1>8, ReplyAdvances DEF Replies
    <2> QED BY <1>3, <1>5, <2>1, QuietFrom
  <1>9. CASE x.pc = "mark" /\ MarkInFlight(x.se, x.key, x.token, x.gen) /\ Goto(e, "invoke")
    <2>1. /\ exec' = [exec EXCEPT ![e] = exec'[e]]
          /\ Carried(exec[e], exec'[e]) /\ exec'[e].pc = "invoke"
      BY <1>9, Goes DEF Ready, PCs
    <2>2. ExecOK(exec'[e])
      BY <1>2, <2>1, EarlyOK DEF Ready
    <2>3. rows[x.key].state = "EXECUTING" /\ rows'[x.key].state = "IN_FLIGHT"
      BY <1>2, <1>9, BoundaryCall DEF Ready, RowsInv
    <2>4. Advances(e)
      BY <1>9, <2>1, <2>2, <2>3 DEF Advances, Advance
    <2> QED BY <1>3, <1>5, <2>4, QuietFrom
  <1> QED BY <1>6, <1>7, <1>8, <1>9

-------------------------------------------------------------------------------
(* The observation and the terminal decision.                              *)

\* What buildObservation makes of an answer.
LEMMA ObservationType ==
    ASSUME NEW x \in Execution, x.verdict # None
    PROVE  buildObservation(x) \in Observations
  BY DEF buildObservation, Observations, Execution, Verdicts, ProviderStatuses

\* classifyPostDispatch goes by what the handler said.
LEMMA ClassifyTrue ==
    ASSUME NEW x, classifyPostDispatch(x) # "UNKNOWN"
    PROVE  \/ classifyPostDispatch(x) = "COMMITTED" /\ x.verdict = "SUCCEEDED"
           \/ classifyPostDispatch(x) = "FAILED" /\ x.verdict = "DEFINITIVE"
  BY DEF classifyPostDispatch

\* A decided answer makes a receipt.
LEMMA ReceiptType ==
    ASSUME NEW x \in Execution, classifyPostDispatch(x) # "UNKNOWN"
    PROVE  ReceiptOf(x) \in Receipts /\ ReceiptOf(x).status = classifyPostDispatch(x)
  <1>1. classifyPostDispatch(x) \in Terminal /\ x.run \in Runs \cup {None}
    BY ClassifyTrue DEF Terminal, Execution
  <1> HIDE DEF classifyPostDispatch
  <1> DEFINE pf == ReceiptOf(x).proof
  <1>2. pf \in Proofs
    BY DEF ReceiptOf, Proofs
  <1> QED BY <1>1, <1>2 DEF ReceiptOf, Receipts, Captures

\* RecordProviderObservation, and the ways back from it.
LEMMA ObserveQuiet ==
    ASSUME NEW e \in Executors, Ready(e), Observe(e) \/ RecoveryObserve(e)
    PROVE  QuietStep(e)
  <1> DEFINE x == exec[e]
             o == buildObservation(x)
  <1>1. x.pc \in {"observe", "recObs"}
    BY DEF Observe, RecoveryObserve, At
  <1>2. x \in Execution /\ x.key \in Keys /\ x.pc \in Settling /\ o \in Observations
    BY <1>1, ObservationType DEF Ready, ExecOK, Settling
  <1>3. UNCHANGED worldVars /\ (Fault \/ NoFault)
    BY DEF Observe, RecoveryObserve, StoreCall, Quiet
  <1> HIDE DEF o
  <1>4. \/ UNCHANGED storeVars
        \/ RecordProviderObservation(x.se, x.key, x.token, x.gen, o)
        \/ RecordProviderObservation(x.se, x.key, 0, 0, o)
    BY DEF Observe, RecoveryObserve, StoreCall, o
  <1>5. UNCHANGED storeVars \/ (StoreNext /\ NoneSettled)
    BY <1>2, <1>4, ObserveCall DEF Ready, RowsInv
  <1>6. \/ Goto(e, "recLookup") \/ Reply(e, "UNKNOWN")
        \/ classifyPostDispatch(x) # "UNKNOWN" /\ Goto(e, "genLookup")
    BY DEF Observe, RecoveryObserve, StoreCall
  <1>7. Advances(e)
    BY <1>1, <1>2, <1>6, GotoSettling, ReplyAdvances DEF Replies, Settling, Deciding
  <1> QED BY <1>3, <1>5, <1>7, QuietFrom

\* Going on with the answer, at another place.
LEMMA SettlingAdvances ==
    ASSUME NEW e \in Executors, Ready(e), exec[e].pc \in Settling, NEW y, Become(e, y),
           Carried(exec[e], y), y.pc \in Settling \ {"observe"},
           y.pc \in Deciding => classifyPostDispatch(exec[e]) # "UNKNOWN"
    PROVE  Advances(e)
  <1>1. exec'[e] = y /\ exec' = [exec EXCEPT ![e] = exec'[e]]
    BY Becomes DEF Ready
  <1>2. ExecOK(y)
    BY SettlingOK DEF Ready
  <1> QED BY <1>1, <1>2 DEF Advances, Advance

\* The generation for the fence of Finalize.
LEMMA GenerationQuiet ==
    ASSUME NEW e \in Executors, Ready(e), LookupGeneration(e)
    PROVE  QuietStep(e)
  <1> DEFINE x == exec[e]
             g == rows[x.key].gen
  <1>1. x \in Execution /\ x.key \in Keys /\ x.pc = "genLookup" /\ x.pc \in Settling
    BY DEF LookupGeneration, At, Ready, ExecOK, Settling
  <1>2. classifyPostDispatch(x) # "UNKNOWN"
    BY <1>1 DEF Ready, ExecOK, Deciding
  <1>3. g \in Nat /\ "finLookup" \in PCs
    BY <1>1 DEF Ready, RowsInv, TypeOK, Row, PCs
  <1>4. UNCHANGED worldVars /\ UNCHANGED storeVars /\ (Fault \/ NoFault)
    BY DEF LookupGeneration, Quiet
  <1>5. CASE Become(e, [x EXCEPT !.pc = "finLookup", !.gen = g])
    <2> DEFINE y == [x EXCEPT !.pc = "finLookup", !.gen = g]
    <2>1. Carried(x, y) /\ y.pc = "finLookup"
      <3> HIDE DEF x, g
      <3> QED BY <1>1, <1>3 DEF Carried, Execution
    <2>2. Become(e, y)
      BY <1>5
    <2> HIDE DEF y
    <2>3. Advances(e)
      BY <1>1, <1>2, <2>1, <2>2, SettlingAdvances DEF Settling
    <2> QED BY <1>4, <2>3, QuietFrom
  <1>6. CASE Reply(e, "UNKNOWN") \/ Goto(e, "recLookup")
    <2>1. Advances(e)
      BY <1>1, <1>6, ReplyAdvances, GotoSettling DEF Replies, Settling, Deciding
    <2> QED BY <1>4, <2>1, QuietFrom
  <1> QED BY <1>5, <1>6 DEF LookupGeneration

\* The caller is told what the row says.
LEMMA SettledAdvances ==
    ASSUME NEW e \in Executors, Ready(e), exec[e].pc \in Deciding, Settled(e),
           rows'[exec[e].key].state = classifyPostDispatch(exec[e])
    PROVE  Advances(e)
  <1>1. classifyPostDispatch(exec[e]) \in {"COMMITTED", "FAILED"} /\ exec[e].pc # "idle"
    BY ClassifyTrue DEF Ready, ExecOK, Deciding
  <1>2. \/ Reply(e, "SUCCEEDED") /\ rows'[exec[e].key].state = "COMMITTED"
        \/ Reply(e, "FAILED") /\ rows'[exec[e].key].state = "FAILED"
    BY <1>1 DEF Settled
  <1>3. exec[e].pc \in Settling
    BY DEF Deciding, Settling
  <1> QED BY <1>1, <1>2, <1>3, ReplyAdvances DEF Replies

\* A receipt that is already in place is the row's.
LEMMA AlreadyFinalTrue ==
    ASSUME NEW e \in Executors, Ready(e), exec[e].pc \in Deciding, AlreadyFinal(exec[e])
    PROVE  rows[exec[e].key].state = classifyPostDispatch(exec[e])
  <1> DEFINE x == exec[e]
             r == rows[x.key]
  <1>1. x \in Execution /\ x.key \in Keys /\ classifyPostDispatch(x) # "UNKNOWN"
    BY DEF Ready, ExecOK, Deciding
  <1>2. ReceiptOf(x).status = classifyPostDispatch(x)
    BY <1>1, ReceiptType
  <1>3. RowInv(x.key, r, nextToken) /\ r.state \in Terminal /\ r.receipt = ReceiptOf(x)
    BY <1>1 DEF Ready, RowsInv, AlreadyFinal
  <1>4. r.receipt.status = r.state
    BY <1>3 DEF RowInv
  <1> QED BY <1>2, <1>3, <1>4

\* Finalize's own lookup.
LEMMA FinalizeLookupQuiet ==
    ASSUME NEW e \in Executors, Ready(e), FinalizeLookup(e)
    PROVE  QuietStep(e)
  <1> DEFINE x == exec[e]
             v == rows[x.key].version
  <1>1. x \in Execution /\ x.key \in Keys /\ x.pc = "finLookup" /\ x.pc \in Settling
    BY DEF FinalizeLookup, At, Ready, ExecOK, Settling
  <1>2. x.pc \in Deciding /\ classifyPostDispatch(x) # "UNKNOWN"
    BY <1>1 DEF Ready, ExecOK, Deciding
  <1>3. v \in Nat /\ "finCAS" \in PCs
    BY <1>1 DEF Ready, RowsInv, TypeOK, Row, PCs
  <1>4. UNCHANGED worldVars /\ UNCHANGED storeVars /\ UNCHANGED rows /\ (Fault \/ NoFault)
    BY DEF FinalizeLookup, Quiet, storeVars
  <1>5. CASE AlreadyFinal(x) /\ Settled(e)
    <2>1. Advances(e)
      BY <1>2, <1>4, <1>5, AlreadyFinalTrue, SettledAdvances
    <2> QED BY <1>4, <2>1, QuietFrom
  <1>6. CASE Become(e, [x EXCEPT !.pc = "finCAS", !.ver = v])
    <2> DEFINE y == [x EXCEPT !.pc = "finCAS", !.ver = v]
    <2>1. Carried(x, y) /\ y.pc = "finCAS"
      <3> HIDE DEF x, v
      <3> QED BY <1>1, <1>3 DEF Carried, Execution
    <2>2. Become(e, y)
      BY <1>6
    <2> HIDE DEF y
    <2>3. Advances(e)
      BY <1>1, <1>2, <2>1, <2>2, SettlingAdvances DEF Settling
    <2> QED BY <1>4, <2>3, QuietFrom
  <1>7. CASE Goto(e, "recLookup")
    <2>1. Advances(e)
      BY <1>1, <1>7, GotoSettling DEF Settling, Deciding
    <2> QED BY <1>4, <2>1, QuietFrom
  <1> QED BY <1>5, <1>6, <1>7 DEF FinalizeLookup

\* Finalize's CAS: the row becomes what the handler said of the effect.
LEMMA FinalizeCASQuiet ==
    ASSUME NEW e \in Executors, Ready(e), FinalizeCAS(e)
    PROVE  QuietStep(e)
  <1> DEFINE x == exec[e]
             rc == ReceiptOf(x)
  <1>1. x \in Execution /\ x.key \in Keys /\ x.pc = "finCAS" /\ x.pc \in Settling
    BY DEF FinalizeCAS, At, Ready, ExecOK, Settling
  <1>2. x.pc \in Deciding /\ classifyPostDispatch(x) # "UNKNOWN"
    BY <1>1 DEF Ready, ExecOK, Deciding
  <1>3. rc \in Receipts /\ rc.status = classifyPostDispatch(x)
    BY <1>1, <1>2, ReceiptType
  <1>4. UNCHANGED worldVars /\ (Fault \/ NoFault)
    BY DEF FinalizeCAS, Quiet
  <1>5. CASE UNCHANGED storeVars /\ (Goto(e, "finReread") \/ Goto(e, "recLookup"))
    <2>1. Advances(e)
      BY <1>1, <1>2, <1>5, GotoSettling DEF Settling, Deciding
    <2> QED BY <1>4, <1>5, <2>1, QuietFrom
  <1>6. CASE /\ Finalize(x.se, x.key, x.token, x.gen, x.ver, rc)
             /\ Settled(e) \/ Goto(e, "recLookup")
    <2> HIDE DEF rc
    <2>0. TypeOK /\ epoch \in Epochs
      BY DEF Ready, RowsInv
    <2>1. /\ StoreNext /\ rows'[x.key].state = rc.status
          /\ \A j \in Keys \ {x.key} : rows'[j] = rows[j]
      <3>1. x.key \in Keys /\ rc \in Receipts /\ Finalize(x.se, x.key, x.token, x.gen, x.ver, rc)
        BY <1>1, <1>3, <1>6
      <3> HIDE DEF x
      <3> QED BY <2>0, <3>1, FinalizeCall
    <2>2. SettlesTruly(x)
      BY <1>2, <1>3, <2>1, ClassifyTrue DEF SettlesTruly
    <2>3. Advances(e)
      BY <1>1, <1>2, <1>3, <1>6, <2>1, SettledAdvances, GotoSettling DEF Settling, Deciding
    <2>4. faults' \in Nat
      BY <1>4, FaultType DEF Ready
    <2> QED BY <1>4, <2>1, <2>2, <2>3, <2>4 DEF QuietStep
  <1> QED BY <1>5, <1>6 DEF FinalizeCAS

\* Finalize's read of the row it lost.
LEMMA FinalizeRereadQuiet ==
    ASSUME NEW e \in Executors, Ready(e), FinalizeReread(e)
    PROVE  QuietStep(e)
  <1>1. exec[e].pc \in Deciding /\ exec[e].pc \in Settling
    BY DEF FinalizeReread, At, Deciding, Settling
  <1>2. UNCHANGED worldVars /\ UNCHANGED storeVars /\ UNCHANGED rows /\ (NoFault \/ Fault)
    BY DEF FinalizeReread, Quiet, storeVars
  <1>3. CASE AlreadyFinal(exec[e]) /\ Settled(e)
    BY <1>1, <1>2, <1>3, AlreadyFinalTrue, SettledAdvances, QuietFrom
  <1>4. CASE Goto(e, "recLookup")
    <2>1. Advances(e)
      BY <1>1, <1>4, GotoSettling DEF Settling, Deciding
    <2> QED BY <1>2, <2>1, QuietFrom
  <1> QED BY <1>3, <1>4 DEF FinalizeReread

-------------------------------------------------------------------------------
(* enterRecoveryWithObservation.                                           *)

\* Its lookup.
LEMMA RecoveryLookupQuiet ==
    ASSUME NEW e \in Executors, Ready(e), RecoveryLookup(e)
    PROVE  QuietStep(e)
  <1> DEFINE x == exec[e]
             v == rows[x.key].version
  <1>1. x \in Execution /\ x.key \in Keys /\ x.pc = "recLookup" /\ x.pc \in Settling
    BY DEF RecoveryLookup, At, Ready, ExecOK, Settling
  <1>3. v \in Nat /\ "recCAS" \in PCs
    BY <1>1 DEF Ready, RowsInv, TypeOK, Row, PCs
  <1>4. UNCHANGED worldVars /\ UNCHANGED storeVars /\ (Fault \/ NoFault)
    BY DEF RecoveryLookup, Quiet
  <1>5. CASE Become(e, [x EXCEPT !.pc = "recCAS", !.ver = v])
    <2> DEFINE y == [x EXCEPT !.pc = "recCAS", !.ver = v]
    <2>1. Carried(x, y) /\ y.pc = "recCAS"
      <3> HIDE DEF x, v
      <3> QED BY <1>1, <1>3 DEF Carried, Execution
    <2>2. Become(e, y)
      BY <1>5
    <2> HIDE DEF y
    <2>3. Advances(e)
      BY <1>1, <2>1, <2>2, SettlingAdvances DEF Settling, Deciding
    <2> QED BY <1>4, <2>3, QuietFrom
  <1>6. CASE Goto(e, "recObs") \/ Reply(e, "UNKNOWN")
    <2>1. Advances(e)
      BY <1>1, <1>6, GotoSettling, ReplyAdvances DEF Settling, Deciding, Replies
    <2> QED BY <1>4, <2>1, QuietFrom
  <1> QED BY <1>5, <1>6 DEF RecoveryLookup

\* Its CAS.
LEMMA RecoveryCASQuiet ==
    ASSUME NEW e \in Executors, Ready(e), RecoveryCAS(e)
    PROVE  QuietStep(e)
  <1> DEFINE x == exec[e]
             o == buildObservation(x)
             n == x.tries + 1
  <1>1. x \in Execution /\ x.key \in Keys /\ x.pc = "recCAS" /\ x.pc \in Settling
    BY DEF RecoveryCAS, At, Ready, ExecOK, Settling
  <1>2. o \in Observations
    BY <1>1, ObservationType DEF Ready, ExecOK
  <1>3. n \in Nat /\ "recLookup" \in PCs
    BY <1>1 DEF Execution, PCs
  <1>4. UNCHANGED worldVars /\ (Fault \/ NoFault)
    BY DEF RecoveryCAS, StoreCall, Quiet
  <1>5. CASE /\ UNCHANGED storeVars
             /\ Become(e, [x EXCEPT !.pc = "recLookup", !.tries = n])
    <2> DEFINE y == [x EXCEPT !.pc = "recLookup", !.tries = n]
    <2>1. Carried(x, y) /\ y.pc = "recLookup"
      <3> HIDE DEF x, n
      <3> QED BY <1>1, <1>3 DEF Carried, Execution
    <2>2. Become(e, y)
      BY <1>5
    <2> HIDE DEF y
    <2>3. Advances(e)
      BY <1>1, <2>1, <2>2, SettlingAdvances DEF Settling, Deciding
    <2> QED BY <1>4, <1>5, <2>3, QuietFrom
  <1>6. CASE /\ UNCHANGED storeVars \/ EnterRecoveryWithObservation(x.se, x.key, x.ver, o)
             /\ Reply(e, "UNKNOWN")
    <2> HIDE DEF o
    <2>1. Advances(e)
      BY <1>1, <1>6, ReplyAdvances DEF Replies
    <2>2. UNCHANGED storeVars \/ (StoreNext /\ NoneSettled)
      BY <1>1, <1>2, <1>6, ObserveCall DEF Ready, RowsInv
    <2> QED BY <1>4, <2>1, <2>2, QuietFrom
  <1> QED BY <1>5, <1>6 DEF RecoveryCAS, StoreCall

\* Every step of an executor that neither invokes the handler nor hears from it.
LEMMA RunsQuietly ==
    ASSUME NEW e \in Executors, Ready(e), AcquireStep(e) \/ BoundaryStep(e) \/ SettleStep(e)
    PROVE  QuietStep(e)
  <1>1. CASE AcquireStep(e)
    BY <1>1, TryInsertQuiet, LookupQuiet, TryCASQuiet DEF AcquireStep
  <1>2. CASE BoundaryStep(e)
    BY <1>2, BoundaryQuiet
  <1>3. CASE SettleStep(e)
    BY <1>3, ObserveQuiet, GenerationQuiet, FinalizeLookupQuiet, FinalizeCASQuiet,
       FinalizeRereadQuiet, RecoveryLookupQuiet, RecoveryCASQuiet DEF SettleStep
  <1> QED BY <1>1, <1>2, <1>3

====
