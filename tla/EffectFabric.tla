----------------------------- MODULE EffectFabric -----------------------------
(***************************************************************************)
(* Executors, reconciliation workers, the operator, the clock and the      *)
(* provider around one effect ledger: the durable-execution fabric of       *)
(* docs/spec/durable-execution-contract.md as internal/execution, reconcile *)
(* and idempotency build it.                                                *)
(***************************************************************************)
EXTENDS DispatchExecutor, ReconcileWorker

fabricVars == <<storeVars, worldVars, faults, exec, workVars>>

FabricInit == StoreInit /\ WorldInit /\ ExecutorInit /\ WorkerInit

Everyone == <<worldVars, faults, exec, workVars>>

FabricNext ==
    \/ \E e \in Executors : ExecutorStep(e) /\ UNCHANGED workVars
    \/ \E w \in Owners : WorkerStep(w) /\ UNCHANGED exec
    \/ \E k \in Keys : StrayLands(k) /\ UNCHANGED <<exec, workVars>>
    \/ (OperatorStep \/ ClockStep) /\ UNCHANGED Everyone

FabricSpec == FabricInit /\ [][FabricNext]_fabricVars

-------------------------------------------------------------------------------
(* Fairness: a process that is up makes progress; a lease nobody renews, a  *)
(* claim nobody renews and a backoff run out.  No caller has to come back,  *)
(* no operator to act, no provider to answer, and faults are finitely many. *)

\* leaseHeartbeat runs from MarkInFlight until the call returns.
Heartbeating(k) == \E e \in Executors :
    /\ exec[e].key = k /\ exec[e].token # 0 /\ exec[e].token = rows[k].token
    /\ exec[e].pc \notin {"begin", "mark", "abandon"}

\* batchClaimHeartbeat and claimHeartbeat run while a worker has the job.
ClaimHeartbeating(k) == \E w \in Owners :
    \E j \in work[w].todo \cup ({work[w].job} \ {None}) : j.key = k /\ j.ver = rows[k].version

Fairness ==
    /\ \A e \in Executors : WF_fabricVars(ExecutorRuns(e) /\ UNCHANGED workVars)
    /\ \A w \in Owners : WF_fabricVars(WorkerCycle(w) /\ UNCHANGED exec)
    /\ \A k \in Keys :
         /\ WF_fabricVars(LeaseExpires(k) /\ ~Heartbeating(k) /\ UNCHANGED Everyone)
         /\ WF_fabricVars(ClaimExpires(k) /\ ~ClaimHeartbeating(k) /\ UNCHANGED Everyone)
         /\ WF_fabricVars(BackoffElapses(k) /\ UNCHANGED Everyone)

FairFabricSpec == FabricSpec /\ Fairness

-------------------------------------------------------------------------------
(* Safety.                                                                 *)

FabricTypeOK == TypeOK /\ WorldTypeOK /\ ExecutorTypeOK /\ WorkerTypeOK

\* Executors whose handler request may still reach the provider.
Waiting(k) == {e \in Executors : exec[e].key = k /\ exec[e].call = "PENDING"}

\* Exactly-once in the only sense the fabric can give it: whatever crashes,
\* retries, takeovers and late requests happen, the effect of a key happens
\* at most once.
AtMostOneEffect == \A k \in Keys : applied[k] <= 1

\* A handler is never invoked for a key whose row does not durably say so,
\* nor with another request than the one the row was admitted with.
DispatchIsOnRecord == \A k \in Keys : asked[k] # {} =>
    /\ rows[k].state \in PostDispatch
    /\ asked[k] = {rows[k].digest.req}

\* A terminal row tells the truth about the world, and nothing that is still
\* under way can make it a lie later.
SettledTruthfully == \A k \in Keys :
    /\ rows[k].state = "COMMITTED" => applied[k] = 1
    /\ rows[k].state = "FAILED" => applied[k] = 0 /\ stray[k] = 0 /\ Waiting(k) = {}

\* What a caller is told: SUCCEEDED only for a row that is COMMITTED, and
\* FAILED or DENIED only if the row is FAILED or this call sent nothing.
RepliesTruthful == \A e \in Executors :
    /\ exec[e].reply = "SUCCEEDED" => rows[exec[e].key].state = "COMMITTED"
    /\ exec[e].reply \in {"FAILED", "DENIED"} =>
           rows[exec[e].key].state = "FAILED" \/ exec[e].call = "NONE"

\* Between MarkInFlight and its reply an executor is alone with its key,
\* whatever leases expired and were taken over meanwhile.
PastBoundary == {"invoke", "await", "observe", "genLookup", "finLookup", "finCAS",
                 "finReread", "recLookup", "recCAS", "recObs"}
OneDispatcher == \A d, e \in Executors :
    /\ exec[d].pc \in PastBoundary /\ exec[e].pc \in PastBoundary
    /\ exec[d].key = exec[e].key
    => d = e

\* At most one worker holds a copy of a row at its current version, so at
\* most one can still resolve, release or suspend it.
OneClaimHolder == \A k \in Keys, v, w \in Owners :
    (\A x \in {v, w} : \E j \in work[x].todo \cup ({work[x].job} \ {None}) :
                          j.key = k /\ j.ver = rows[k].version)
    => v = w

\* The attempt ceiling bounds provider lookups, crashed cycles, lost claims
\* and several workers included.
LookupsBounded == MaxAttempts > 0 => \A k \in Keys : lookups[k] <= MaxAttempts

\* A process whose Store was built before the last AdvanceClusterEpoch can
\* no longer move any row, whatever it read, leased or claimed before; only
\* what the clock does to rows goes on.
StaleProcessesAreFenced == [][
    (\/ \E e \in Executors : exec[e].se # epoch /\ exec'[e] # exec[e]
     \/ \E w \in Owners : work[w].se # epoch /\ work'[w] # work[w])
    => UNCHANGED rows]_fabricVars

\* Executors and workers ask nothing of the ledger that EffectStore's open
\* callers do not: what is proved of StoreSpec holds of the fabric.
UsesTheStore == StoreSpec

-------------------------------------------------------------------------------
(* Liveness.                                                               *)

\* A dispatched effect does not stay in limbo: it is settled, or given up
\* on visibly (dead-lettered) after the attempt ceiling.
DispatchIsSettled == \A k \in Keys :
    rows[k].state \in {"IN_FLIGHT", "UNKNOWN"} ~>
        \/ rows[k].state \in Terminal
        \/ rows[k].state = "UNKNOWN" /\ rows[k].due = "PARKED"

\* Every call of ExecuteWithIdempotency returns, a provider that never
\* answers included.
CallsReturn == \A e \in Executors :
    exec[e].pc # "idle" ~> exec[e].pc = "idle"

-------------------------------------------------------------------------------
(* What the documentation says and the code does not do.                   *)

\* dispatch.go, on the digest of the request: the legacy-digest retry covers
\* records created before descriptor identity existed.  Then a record the
\* retry acquired must be one whose receipt Finalize accepts.
LegacyRetryCovers == \A e \in Executors :
    At(e, "finLookup") =>
        rows[exec[e].key].digest = [req |-> exec[e].req, form |-> OwnForm(e)]

\* docs/architecture/effect-lifecycle.md, T10: a recovery decision is fenced by
\* claim ownership, and nothing is committed under a lost claim.
CommitsUnderClaim == [][\A k \in Keys :
    rows[k].state = "UNKNOWN" /\ rows'[k].state \in Terminal =>
        rows[k].claim = "LIVE"]_storeVars
===============================================================================
