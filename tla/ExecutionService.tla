--------------------------- MODULE ExecutionService ---------------------------
(***************************************************************************)
(* A request from the client's socket to the ledger and back:              *)
(* internal/execution client.go, service.go and router.go, with            *)
(* internal/capability's admission, around the dispatch executor and the   *)
(* authority store.                                                        *)
(*                                                                         *)
(* Every request is for the same arguments under the same idempotency key; *)
(* what tells two of them apart is the authority generation the service    *)
(* binds into their digest.  A connection carries one request, and each    *)
(* executor serves one connection.                                         *)
(***************************************************************************)
EXTENDS DispatchExecutor, AuthorityStore

\* The request as executed under a generation: its digest differs from the
\* digest under any other.
Bound == CHOOSE f \in [Generations -> Requests] :
            \A g, h \in Generations : f[g] = f[h] => g = h

ASSUME ServiceConstants ==
    \E f \in [Generations -> Requests] : \A g, h \in Generations : f[g] = f[h] => g = h

VARIABLES conn,  \* the connection each executor serves
          seen   \* history: the generations that resolved while it was waiting

serviceVars == <<conn, seen>>

\* A client's conclusion: a response's status, or a transport error that is
\* PRE_DISPATCH (safe to retry) or ambiguous (POST_DISPATCH and PROTOCOL).
Conclusions == Replies \cup {"PRE_DISPATCH", "AMBIGUOUS"}

Connection == [pc     : {"idle", "received", "verified", "running", "closed"},
               gen    : Generations \cup {0},
               client : {"NONE", "WAITING"} \cup Conclusions]

ServiceTypeOK ==
    /\ conn \in [Executors -> Connection] /\ seen \in [Executors -> SUBSET Generations]
    /\ AuthorityTypeOK /\ ExecutorTypeOK

ServiceInit ==
    /\ StoreInit /\ WorldInit /\ ExecutorInit /\ AuthorityInit
    /\ conn = [e \in Executors |-> [pc |-> "idle", gen |-> 0, client |-> "NONE"]]
    /\ seen = [e \in Executors |-> {}]

fabricPart == <<storeVars, worldVars, faults, exec>>

-------------------------------------------------------------------------------
(* The client: Invoke.                                                     *)

\* Encoding, dialling or a short write failed: no complete frame was sent.
InvokeFails(e) ==
    /\ conn[e].client = "NONE"
    /\ conn' = [conn EXCEPT ![e].client = "PRE_DISPATCH", ![e].pc = "closed"]
    /\ UNCHANGED <<fabricPart, authorityVars, seen>>

InvokeWrites(e) ==
    /\ conn[e].client = "NONE"
    /\ conn' = [conn EXCEPT ![e].client = "WAITING", ![e].pc = "received"]
    /\ seen' = [seen EXCEPT ![e] = Resolvable]
    /\ UNCHANGED <<fabricPart, authorityVars>>

-------------------------------------------------------------------------------
(* The service: handleConnection.                                          *)

\* The connection ends: the client reads the frame, or its deadline passed, its
\* caller cancelled, or the connection or the frame broke.  The service does
\* not notice, so when that happened makes no difference.
Deliver(e, status) ==
    \E c \in {status, "AMBIGUOUS"} :
        conn' = [conn EXCEPT ![e].pc = "closed", ![e].client = c]

\* Mutant: what cannot be framed is reported as failed.
writeResponseAsFailed(e, status) == Deliver(e, status) \/ Deliver(e, "FAILED")

\* After execution of a MUTATION or CRITICAL: an oversized response is UNKNOWN.
writeResponse(e, status) == Deliver(e, status) \/ Deliver(e, "UNKNOWN")

\* Refused before anything is executed: the invocation ABI, peer
\* authentication, Admit, availability, deadline, schema; after VerifyAuthority
\* the route, the provider's capabilities or a digest that cannot be computed.
Refuse(e) ==
    /\ conn[e].pc \in {"received", "verified"}
    /\ \E status \in {"DENIED", "FAILED"} : Deliver(e, status)
    /\ UNCHANGED <<fabricPart, authorityVars, seen>>

\* Mutant: an older generation that is still valid resurfaces.
VerifyAuthorityAnyValid(e) ==
    /\ conn[e].pc = "received"
    /\ \/ \E g \in Issued : grants[g] = "OURS"
                            /\ conn' = [conn EXCEPT ![e].pc = "verified", ![e].gen = g]
       \/ Deliver(e, "DENIED")
    /\ UNCHANGED <<fabricPart, authorityVars, seen>>

\* VerifyAuthority, and the binding of what it resolved.  A failed lookup,
\* material that does not verify, or a capability or resource out of the
\* grant's scope is a denial.
VerifyAuthority(e) ==
    /\ conn[e].pc = "received"
    /\ \/ \E g \in Resolvable : conn' = [conn EXCEPT ![e].pc = "verified", ![e].gen = g]
       \/ Deliver(e, "DENIED")
    /\ UNCHANGED <<fabricPart, authorityVars, seen>>

\* The durable route: ExecuteWithIdempotency.
Execute(e) ==
    /\ conn[e].pc = "verified"
    /\ \E k \in Keys : Submit(e, k, Bound[conn[e].gen])
    /\ conn' = [conn EXCEPT ![e].pc = "running"]
    /\ UNCHANGED <<authorityVars, seen>>

Respond(e) ==
    /\ conn[e].pc = "running" /\ At(e, "idle") /\ exec[e].reply # None
    /\ writeResponse(e, exec[e].reply)
    /\ UNCHANGED <<fabricPart, authorityVars, seen>>

-------------------------------------------------------------------------------
ConnectionStep(e) ==
    \/ InvokeFails(e) \/ InvokeWrites(e)
    \/ Refuse(e) \/ VerifyAuthority(e) \/ Execute(e) \/ Respond(e)

\* What resolves while a request waits for its authority is remembered.
Administration ==
    /\ AuthorityStep
    /\ seen' = [e \in Executors |->
                   seen[e] \cup IF conn[e].pc = "received" THEN Resolvable' ELSE {}]
    /\ UNCHANGED <<fabricPart, conn>>

\* A service that dies is one that takes no further step: its client waits
\* until it gives up, its lease expires.
ServiceNext ==
    \/ \E e \in Executors : ConnectionStep(e)
    \/ \E e \in Executors : /\ ExecutorRuns(e) \/ ProviderStep(e)
                            /\ UNCHANGED <<authorityVars, serviceVars>>
    \/ \E k \in Keys : StrayLands(k) /\ UNCHANGED <<exec, authorityVars, serviceVars>>
    \/ \E k \in Keys : /\ LeaseExpires(k)
                       /\ UNCHANGED <<worldVars, faults, exec, authorityVars, serviceVars>>
    \/ Administration

ServiceSpec == ServiceInit /\ [][ServiceNext]_<<fabricPart, authorityVars, serviceVars>>

-------------------------------------------------------------------------------
(* Properties.                                                             *)

\* An issuer that has read the head of a reference still finds it so when it
\* writes: concurrent issuers never collide on a generation, and none issues
\* into a reference that was closed meanwhile.
IssueNeverCollides == \A a \in Admins : tx[a].open =>
    tx[a].next \notin Issued /\ tx[a].next = HeadNext /\ tx[a].closed = head.closed

\* Whatever is executed was resolved from a generation that was the latest,
\* unrevoked, unexpired and ours at some moment after the client sent the
\* request: authority that ended before that admits nothing, and a revocation
\* that comes later stops nothing that was admitted.
ExecutedUnderLiveAuthority ==
    /\ \A e \in Executors : exec[e].req # None =>
          \E g \in seen[e] : exec[e].req = Bound[g]
    /\ \A k \in Keys, q \in Requests : q \in asked[k] =>
          \E e \in Executors : \E g \in seen[e] : q = Bound[g]

\* A reissued grant never reinterprets a key: the effect runs under the
\* generation the row was admitted with, and an outcome is only told to a
\* request that was admitted under that generation.
OneAuthorityPerKey ==
    /\ \A k \in Keys : asked[k] # {} => asked[k] = {rows[k].digest.req}
    /\ \A e \in Executors : conn[e].client \in {"SUCCEEDED", "IN_FLIGHT"} =>
          rows[exec[e].key].digest.req = Bound[conn[e].gen]

\* What a client may conclude of the key it asked for: SUCCEEDED only if the
\* effect happened; FAILED, DENIED or PRE_DISPATCH only if this request caused
\* none and never will.
ConclusionsTruthful == \A e \in Executors :
    LET k == exec[e].key IN
    /\ conn[e].client = "SUCCEEDED" => applied[k] = 1
    /\ conn[e].client \in {"FAILED", "DENIED", "PRE_DISPATCH"} =>
          exec[e].call = "NONE" \/ (applied[k] = 0 /\ stray[k] = 0)
===============================================================================
