--------------------------- MODULE DispatchExecutor ---------------------------
(***************************************************************************)
(* internal/execution/dispatch.go: ExecuteWithIdempotency, one call of it  *)
(* per executor at a time.  Each step of an executor is one database call  *)
(* or one handler event, so that everybody else may run in between.        *)
(***************************************************************************)
EXTENDS Provider

CONSTANTS Executors,
          OldExecutors,     \* those running the binary before descriptor digests
          RecoveryCASMaxAttempts \* enterRecoveryWithObservation's retry bound

ASSUME ExecutorConstants ==
    /\ OldExecutors \subseteq Executors
    /\ RecoveryCASMaxAttempts \in Nat \ {0}
    /\ None \notin Keys

VARIABLE exec

PCs == {"idle", "insert", "lookup", "reclaim", "expire", "unleased", "begin", "mark",
        "abandon", "invoke", "await", "observe", "genLookup", "finLookup", "finCAS",
        "finReread", "recLookup", "recCAS", "recObs"}

Calls    == {"NONE", "PENDING", "APPLIED", "REJECTED", "UNSENT", "ENDED"}
\* resp.Status; FAILED with DefinitiveFailure set is "DEFINITIVE".
Verdicts == {"SUCCEEDED", "DEFINITIVE", "FAILED", "UNKNOWN"}
Replies  == {"SUCCEEDED", "FAILED", "UNKNOWN", "IN_FLIGHT", "DENIED"}

ASSUME NullIsNoAnswer == None \notin Verdicts \cup Replies

Execution == [pc      : PCs,
              se      : Nat,                  \* the epoch its Store was built under
              key     : Keys \cup {None},
              req     : Requests \cup {None},
              form    : Forms,                \* the digest it acquires with
              stage   : 0 .. 3,               \* CAS paths of Acquire already tried
              token   : Nat,
              gen     : Nat,
              ver     : Nat,                  \* the version it last read
              tries   : Nat,                  \* recovery CAS attempts
              call    : Calls,                \* its handler invocation
              verdict : Verdicts \cup {None}, \* what the handler said
              proof   : BOOLEAN,              \* an evidence artifact came with it
              run     : Runs \cup {None},     \* the run identifier that came with it
              reply   : Replies \cup {None}]

ExecutorTypeOK == exec \in [Executors -> Execution]

OwnForm(e) == IF e \in OldExecutors THEN "LEGACY" ELSE "BOUND"

IdleExecution(e, se) ==
    [pc |-> "idle", se |-> se, key |-> None, req |-> None, form |-> OwnForm(e),
     stage |-> 0, token |-> 0, gen |-> 0, ver |-> 0, tries |-> 0, call |-> "NONE",
     verdict |-> None, proof |-> FALSE, run |-> None, reply |-> None]

ExecutorInit == exec = [e \in Executors |-> IdleExecution(e, epoch)]

-------------------------------------------------------------------------------
At(e, pc)   == exec[e].pc = pc
Become(e, x) == exec' = [exec EXCEPT ![e] = x]
Goto(e, pc) == Become(e, [exec[e] EXCEPT !.pc = pc, !.ver = 0])

\* The response; of the call only whether a handler ran is remembered.
Reply(e, status) ==
    Become(e, [IdleExecution(e, exec[e].se) EXCEPT
                  !.key = exec[e].key, !.reply = status,
                  !.call = IF exec[e].call = "NONE" THEN "NONE" ELSE "ENDED"])

Quiet == UNCHANGED worldVars

\* A request arrives under an idempotency key.
Submit(e, k, q) ==
    /\ At(e, "idle")
    /\ Become(e, [IdleExecution(e, exec[e].se) EXCEPT !.pc = "insert", !.key = k, !.req = q])
    /\ UNCHANGED storeVars /\ Quiet /\ NoFault

\* The process dies: a handler request already sent travels on.  The next
\* process builds its Store anew, under the epoch of that moment.
Crash(e) ==
    /\ ~At(e, "idle")
    /\ Fault
    /\ Become(e, IdleExecution(e, epoch))
    /\ stray' = [stray EXCEPT ![exec[e].key] = @ + IF exec[e].call = "PENDING" THEN 1 ELSE 0]
    /\ UNCHANGED <<storeVars, applied, rejected, asked>>

\* The operator restarts a service whose Store the epoch has left behind.
Restart(e) ==
    /\ At(e, "idle") /\ exec[e].se # epoch
    /\ Become(e, IdleExecution(e, epoch))
    /\ UNCHANGED storeVars /\ Quiet /\ NoFault

-------------------------------------------------------------------------------
(* Acquisition: AcquireWithAuthority and the legacy-digest retry.          *)

\* An error of the first acquisition is FAILED; one of the legacy retry
\* leaves the conflict of the first standing.
AcquireError(e) == Reply(e, IF exec[e].form = OwnForm(e) THEN "FAILED" ELSE "DENIED")

Acquired(e) ==
    Become(e, [exec[e] EXCEPT !.pc = "begin", !.stage = 0, !.ver = 0,
                              !.token = NewToken, !.gen = rows[exec[e].key].gen + 1])

TryInsert(e) ==
    LET x == exec[e] IN
    /\ At(e, "insert") /\ Quiet
    /\ \/ /\ CanInsert(x.se, x.key)
          /\ StoreCall(TRUE, InsertRow(x.se, x.key, [req |-> x.req, form |-> x.form]),
                       Acquired(e), AcquireError(e))
       \/ ~CanInsert(x.se, x.key) /\ Goto(e, "lookup") /\ NoFault /\ UNCHANGED storeVars
       \/ ~CanInsert(x.se, x.key) /\ AcquireError(e) /\ Fault /\ UNCHANGED storeVars

\* IdempotencyConflict: retry once with the legacy digest, then deny.
Conflict(e) ==
    IF exec[e].form = "BOUND"
    THEN Become(e, [exec[e] EXCEPT !.pc = "insert", !.form = "LEGACY"])
    ELSE Reply(e, "DENIED")

\* TerminalReplay answers with the stored outcome.
Replay(e, r) == Reply(e, IF r.state = "COMMITTED" THEN "SUCCEEDED" ELSE "FAILED")

\* Mutant: the stored digest is not compared.
DecideWithoutDigest(e, r) ==
    LET n == exec[e].stage
        try(pc, i) == Become(e, [exec[e] EXCEPT !.pc = pc, !.stage = i, !.ver = r.version])
    IN  CASE r.state = "ABSENT" -> AcquireError(e)
          [] r.state \in Terminal -> Replay(e, r)
          [] r.state = "UNKNOWN"  -> Reply(e, "UNKNOWN")
          [] n < 1 /\ r.state \in PreDispatch /\ r.lease # "NONE" -> try("reclaim", 1)
          [] n < 2 /\ r.state = "IN_FLIGHT" /\ r.lease # "NONE"   -> try("expire", 2)
          [] n < 3 /\ r.state = "PREPARED" /\ r.lease = "NONE"    -> try("unleased", 3)
          [] OTHER -> Reply(e, "IN_FLIGHT")

\* What AcquireWithAuthority does with the row it read, given the CAS paths
\* it has already lost.
Decide(e, r) ==
    LET n == exec[e].stage
        try(pc, i) == Become(e, [exec[e] EXCEPT !.pc = pc, !.stage = i, !.ver = r.version])
    IN  CASE r.state = "ABSENT" -> AcquireError(e)
          [] n = 0 /\ r.state # "ABSENT" /\
             r.digest # [req |-> exec[e].req, form |-> exec[e].form] -> Conflict(e)
          [] OTHER ->
             CASE r.state \in Terminal -> Replay(e, r)
               [] r.state = "UNKNOWN"  -> Reply(e, "UNKNOWN")
               [] n < 1 /\ r.state \in PreDispatch /\ r.lease # "NONE" -> try("reclaim", 1)
               [] n < 2 /\ r.state = "IN_FLIGHT" /\ r.lease # "NONE"   -> try("expire", 2)
               [] n < 3 /\ r.state = "PREPARED" /\ r.lease = "NONE"    -> try("unleased", 3)
               [] OTHER -> Reply(e, "IN_FLIGHT")

LookupByKey(e) ==
    /\ At(e, "lookup")
    /\ \/ Decide(e, rows[exec[e].key]) /\ NoFault
       \/ AcquireError(e) /\ Fault
    /\ UNCHANGED storeVars /\ Quiet

\* A CAS that hit no row: a fenced store gets a typed error, anybody else
\* reads the row again.
CASMiss(e, closed) ==
    IF exec[e].se # epoch \/ closed THEN AcquireError(e) ELSE Goto(e, "lookup")

TryCAS(e, can, write, won, closed) ==
    \/ can /\ write /\ won /\ NoFault
    \/ can /\ write /\ AcquireError(e) /\ Fault
    \/ ~can /\ CASMiss(e, closed) /\ NoFault /\ UNCHANGED storeVars
    \/ AcquireError(e) /\ Fault /\ UNCHANGED storeVars

TryReclaim(e) ==
    LET se == exec[e].se  k == exec[e].key  v == exec[e].ver IN
    /\ At(e, "reclaim") /\ Quiet
    /\ TryCAS(e, CanReclaim(se, k, v), ReclaimExpiredLease(se, k, v),
              Acquired(e), recoveryRequired)

TryExpire(e) ==
    LET se == exec[e].se  k == exec[e].key  v == exec[e].ver IN
    /\ At(e, "expire") /\ Quiet
    /\ TryCAS(e, CanMarkExpired(se, k, v), MarkInFlightExpiredAsUnknown(se, k, v),
              Reply(e, "UNKNOWN"), FALSE)

TryUnleased(e) ==
    LET se == exec[e].se  k == exec[e].key  v == exec[e].ver IN
    /\ At(e, "unleased") /\ Quiet
    /\ TryCAS(e, CanAcquireUnleased(se, k, v), AcquireUnleased(se, k, v),
              Acquired(e), FALSE)

-------------------------------------------------------------------------------
(* Up to the dispatch boundary: every failure abandons the reservation.    *)

\* The deadline preflight and the provider gate may refuse before
\* BeginExecution is tried.
TryBegin(e) ==
    LET x == exec[e] IN
    /\ At(e, "begin") /\ Quiet
    /\ \/ StoreCall(CanBegin(x.se, x.key, x.token, x.gen),
                    BeginExecution(x.se, x.key, x.token, x.gen),
                    Goto(e, "mark"), Goto(e, "abandon"))
       \/ Goto(e, "abandon") /\ NoFault /\ UNCHANGED storeVars

\* Mutant: an error of MarkInFlight is not looked at.
TryMarkIgnoringErrors(e) ==
    LET x == exec[e] IN
    /\ At(e, "mark") /\ Quiet
    /\ StoreCall(CanMarkInFlight(x.se, x.key, x.token, x.gen),
                 MarkInFlight(x.se, x.key, x.token, x.gen),
                 Goto(e, "invoke"), Goto(e, "invoke"))

\* prepareRecoveryLocator may refuse before MarkInFlight is tried.
TryMark(e) ==
    LET x == exec[e] IN
    /\ At(e, "mark") /\ Quiet
    /\ \/ StoreCall(CanMarkInFlight(x.se, x.key, x.token, x.gen),
                    MarkInFlight(x.se, x.key, x.token, x.gen),
                    Goto(e, "invoke"), Goto(e, "abandon"))
       \/ Goto(e, "abandon") /\ NoFault /\ UNCHANGED storeVars

\* Mutant: the row is reset to PREPARED by its key alone.
AbandonUnfenced(e) ==
    LET k == exec[e].key IN
    /\ At(e, "abandon") /\ Quiet /\ NoFault
    /\ PutRow(k, Bumped([Unleased(rows[k]) EXCEPT !.state = "PREPARED"]))
    /\ NoEvent /\ UNCHANGED nextToken /\ SameCluster
    /\ Reply(e, "FAILED")

\* The caller is told FAILED whether or not the row could be released.
Abandon(e) ==
    LET x == exec[e] IN
    /\ At(e, "abandon") /\ Quiet
    /\ StoreCall(CanAbandon(x.se, x.key, x.token, x.gen),
                 AbandonPreDispatch(x.se, x.key, x.token, x.gen),
                 Reply(e, "FAILED"), Reply(e, "FAILED"))

-------------------------------------------------------------------------------
(* dispatch(): the handler goroutine, the provider and the ceiling.        *)

\* The deadline passed in the residual window: the executor itself proves
\* that nothing was sent and synthesizes the evidence for it.
DeadlineAtBoundary(e) ==
    /\ At(e, "invoke")
    /\ Become(e, [exec[e] EXCEPT !.pc = "observe", !.verdict = "DEFINITIVE", !.proof = TRUE])
    /\ UNCHANGED storeVars /\ Quiet /\ NoFault

Invoke(e) ==
    /\ At(e, "invoke")
    /\ Become(e, [exec[e] EXCEPT !.pc = "await", !.call = "PENDING"])
    /\ asked' = [asked EXCEPT ![exec[e].key] = @ \cup {exec[e].req}]
    /\ UNCHANGED <<storeVars, applied, rejected, stray>> /\ NoFault

\* The request reaches the provider, or dies on the way.
ProviderActs(e) ==
    LET k == exec[e].key
        landed(call) == Become(e, [exec[e] EXCEPT !.call = call])
    IN
    /\ At(e, "await") /\ exec[e].call = "PENDING"
    /\ \/ Apply(k) /\ landed("APPLIED") /\ UNCHANGED rejected
       \/ Reject(k) /\ landed("REJECTED") /\ UNCHANGED applied
       \/ landed("UNSENT") /\ UNCHANGED <<applied, rejected>>
    /\ UNCHANGED <<storeVars, stray, asked>> /\ NoFault

\* The handler's answer.  It never claims an effect that did not happen or
\* a definitive failure of one that did; it may fail to tell (a timeout, a
\* non-definitive failure), and what artifact comes with that is of no use.
HandlerAnswers(e) ==
    \E v \in Verdicts, p \in BOOLEAN, run \in {ProviderRun, None} :
        /\ At(e, "await") /\ exec[e].call \in {"APPLIED", "REJECTED", "UNSENT"}
        /\ v = "SUCCEEDED" => exec[e].call = "APPLIED"
        /\ v = "DEFINITIVE" => exec[e].call # "APPLIED"
        /\ v \in {"FAILED", "UNKNOWN"} => ~p
        /\ run # None => exec[e].call # "UNSENT"
        /\ Become(e, [exec[e] EXCEPT !.pc = "observe", !.verdict = v, !.proof = p, !.run = run])
        /\ UNCHANGED storeVars /\ Quiet /\ NoFault

\* Mutant: the ceiling only bounds handlers whose request has gone out.
CeilingNeedsAnswer(e) ==
    /\ At(e, "await") /\ exec[e].call # "PENDING"
    /\ Become(e, [exec[e] EXCEPT !.pc = "observe", !.verdict = "UNKNOWN", !.call = "ENDED"])
    /\ UNCHANGED <<storeVars, worldVars>> /\ NoFault

\* The ceiling and its grace pass while the handler is still out: the call
\* is left running and its answer will be dropped.
CeilingFires(e) ==
    /\ At(e, "await")
    /\ Become(e, [exec[e] EXCEPT !.pc = "observe", !.verdict = "UNKNOWN", !.call = "ENDED"])
    /\ stray' = [stray EXCEPT ![exec[e].key] = @ + IF exec[e].call = "PENDING" THEN 1 ELSE 0]
    /\ UNCHANGED <<storeVars, applied, rejected, asked>> /\ NoFault

-------------------------------------------------------------------------------
(* The observation and the terminal decision.                              *)

buildObservation(x) ==
    [run |-> x.run, said |-> IF x.verdict = "DEFINITIVE" THEN "FAILED" ELSE x.verdict]

classifyPostDispatch(x) ==
    CASE x.verdict = "SUCCEEDED" /\ (x.key \in CriticalKeys => x.proof /\ x.run # None)
                                -> "COMMITTED"
      [] x.verdict = "DEFINITIVE" -> "FAILED"
      [] OTHER -> "UNKNOWN"

\* A failure always carries its error as a result payload; a success of a
\* non-CRITICAL key may come with nothing.
ReceiptOf(x) ==
    LET st == classifyPostDispatch(x) IN
    [status |-> st, capture |-> "dispatch", run |-> x.run,
     proof |-> IF x.key \in CriticalKeys
               THEN IF ~(SignerConfigured /\ x.proof) THEN "NONE"
                    ELSE IF st = "COMMITTED" THEN "COMPLETED" ELSE "NO_EFFECT"
               ELSE IF st = "FAILED" \/ x.proof THEN "RESULT" ELSE "NONE"]

\* Observation first, whatever it says; no terminal decision over one that
\* could not be stored.
Observe(e) ==
    LET x == exec[e] IN
    /\ At(e, "observe") /\ Quiet
    /\ StoreCall(CanRecordObservation(x.se, x.key, x.token, x.gen, buildObservation(x)),
                 RecordProviderObservation(x.se, x.key, x.token, x.gen, buildObservation(x)),
                 Goto(e, IF classifyPostDispatch(x) = "UNKNOWN" THEN "recLookup" ELSE "genLookup"),
                 Goto(e, "recLookup"))

\* Signing may fail; the generation for the fence is read from the row.
LookupGeneration(e) ==
    LET x == exec[e] IN
    /\ At(e, "genLookup")
    /\ \/ Become(e, [x EXCEPT !.pc = "finLookup", !.gen = rows[x.key].gen]) /\ NoFault
       \/ Reply(e, "UNKNOWN") /\ Fault
       \/ Goto(e, "recLookup") /\ x.key \in CriticalKeys /\ SignerConfigured /\ x.proof /\ Fault
    /\ UNCHANGED storeVars /\ Quiet

Settled(e) ==
    Reply(e, IF classifyPostDispatch(exec[e]) = "COMMITTED" THEN "SUCCEEDED" ELSE "FAILED")

\* An identical receipt already in place counts as success.
AlreadyFinal(x) == rows[x.key].state \in Terminal /\ rows[x.key].receipt = ReceiptOf(x)

\* Finalize's own lookup: identity of the receipt, replay or conflict, proof.
FinalizeLookup(e) ==
    LET x == exec[e]
        r == rows[x.key]
        sameDigest == r.digest = [req |-> x.req, form |-> OwnForm(e)]
    IN
    /\ At(e, "finLookup")
    /\ \/ sameDigest /\ AlreadyFinal(x) /\ Settled(e) /\ NoFault
       \/ /\ sameDigest /\ r.state \notin Terminal
          /\ ValidateTerminalTransition(x.key, ReceiptOf(x))
          /\ Become(e, [x EXCEPT !.pc = "finCAS", !.ver = r.version]) /\ NoFault
       \/ /\ \/ ~sameDigest
             \/ r.state \in Terminal /\ ~AlreadyFinal(x)
             \/ r.state \notin Terminal /\ ~ValidateTerminalTransition(x.key, ReceiptOf(x))
          /\ Goto(e, "recLookup") /\ NoFault
       \/ Goto(e, "recLookup") /\ Fault
    /\ UNCHANGED storeVars /\ Quiet

\* Mutant: a lost finalization is reported as if it had been won.
FinalizeCASIgnoringLoss(e) ==
    LET x == exec[e] IN
    /\ At(e, "finCAS") /\ Quiet
    /\ StoreCall(CanFinalize(x.se, x.key, x.token, x.gen, x.ver, ReceiptOf(x)),
                 Finalize(x.se, x.key, x.token, x.gen, x.ver, ReceiptOf(x)),
                 Settled(e), Settled(e))

FinalizeCAS(e) ==
    LET x     == exec[e]
        can   == CanFinalize(x.se, x.key, x.token, x.gen, x.ver, ReceiptOf(x))
        write == Finalize(x.se, x.key, x.token, x.gen, x.ver, ReceiptOf(x))
    IN
    /\ At(e, "finCAS") /\ Quiet
    /\ \/ can /\ write /\ Settled(e) /\ NoFault
       \/ can /\ write /\ Goto(e, "recLookup") /\ Fault
       \/ ~can /\ Goto(e, "finReread") /\ NoFault /\ UNCHANGED storeVars
       \/ Goto(e, "recLookup") /\ Fault /\ UNCHANGED storeVars

\* The read after a finalization that matched no row; it may fail as well.
FinalizeReread(e) ==
    /\ At(e, "finReread")
    /\ \/ AlreadyFinal(exec[e]) /\ Settled(e) /\ NoFault
       \/ ~AlreadyFinal(exec[e]) /\ Goto(e, "recLookup") /\ NoFault
       \/ Goto(e, "recLookup") /\ Fault
    /\ UNCHANGED storeVars /\ Quiet

-------------------------------------------------------------------------------
(* enterRecoveryWithObservation: the caller is told UNKNOWN in every case. *)

RecoveryLookup(e) ==
    LET x == exec[e]
        r == rows[x.key]
    IN
    /\ At(e, "recLookup")
    /\ \/ r.state = "IN_FLIGHT" /\ NoFault
          /\ Become(e, [x EXCEPT !.pc = "recCAS", !.ver = r.version])
       \/ r.state = "UNKNOWN" /\ Goto(e, "recObs") /\ NoFault
       \/ r.state \notin {"IN_FLIGHT", "UNKNOWN"} /\ Reply(e, "UNKNOWN") /\ NoFault
       \/ Reply(e, "UNKNOWN") /\ Fault
    /\ UNCHANGED storeVars /\ Quiet

\* A state or version miss is retried; a fenced epoch, a contradicted
\* observation or a database error is not.
RecoveryCAS(e) ==
    LET x   == exec[e]
        o   == buildObservation(x)
        can == CanEnterRecoveryWithObservation(x.se, x.key, x.ver, o)
        write == EnterRecoveryWithObservation(x.se, x.key, x.ver, o)
        retryable == /\ x.se = epoch
                     /\ ~CanEnterRecovery(x.se, x.key, x.ver)
                     /\ x.tries + 1 < RecoveryCASMaxAttempts
    IN
    /\ At(e, "recCAS") /\ Quiet
    /\ \/ StoreCall(can, write, Reply(e, "UNKNOWN"), Reply(e, "UNKNOWN")) /\ (can \/ ~retryable)
       \/ /\ ~can /\ retryable
          /\ Become(e, [x EXCEPT !.pc = "recLookup", !.tries = @ + 1])
          /\ NoFault /\ UNCHANGED storeVars

\* Somebody else moved the row to UNKNOWN: add the observation, unfenced.
RecoveryObserve(e) ==
    LET x == exec[e] IN
    /\ At(e, "recObs") /\ Quiet
    /\ StoreCall(CanRecordObservation(x.se, x.key, 0, 0, buildObservation(x)),
                 RecordProviderObservation(x.se, x.key, 0, 0, buildObservation(x)),
                 Reply(e, "UNKNOWN"), Reply(e, "UNKNOWN"))

-------------------------------------------------------------------------------
AcquireStep(e) ==
    TryInsert(e) \/ LookupByKey(e) \/ TryReclaim(e) \/ TryExpire(e) \/ TryUnleased(e)

BoundaryStep(e) == TryBegin(e) \/ TryMark(e) \/ Abandon(e)

HandlerStep(e) == DeadlineAtBoundary(e) \/ Invoke(e) \/ CeilingFires(e)
ProviderStep(e) == ProviderActs(e) \/ HandlerAnswers(e)

SettleStep(e) ==
    \/ Observe(e) \/ LookupGeneration(e)
    \/ FinalizeLookup(e) \/ FinalizeCAS(e) \/ FinalizeReread(e)
    \/ RecoveryLookup(e) \/ RecoveryCAS(e) \/ RecoveryObserve(e)

\* What the code does by itself once it has a request: no crash, no caller,
\* no provider.
ExecutorRuns(e) ==
    AcquireStep(e) \/ BoundaryStep(e) \/ HandlerStep(e) \/ SettleStep(e)

ExecutorStep(e) ==
    \/ \E k \in Keys, q \in Requests : Submit(e, k, q)
    \/ ExecutorRuns(e) \/ ProviderStep(e)
    \/ Crash(e) \/ Restart(e)
===============================================================================
