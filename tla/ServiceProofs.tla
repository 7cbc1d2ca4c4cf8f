---------------------------- MODULE ServiceProofs -----------------------------
(***************************************************************************)
(* The request path, from the client's socket to the ledger and back, with *)
(* administrators issuing and revoking the authority that requests need.   *)
(*                                                                         *)
(* DispatchInv carries over: the service adds connections around the       *)
(* executors and never touches the ledger but through them.  What is added *)
(* here is what ties a connection to the call it makes, the call to the    *)
(* generation it was resolved from, and the head of the reference to the   *)
(* generations issued.                                                     *)
(***************************************************************************)
EXTENDS ExecutionService, DispatchProofs

-------------------------------------------------------------------------------
(* The authority store.                                                    *)

\* The head row is ahead of every generation issued, and missing only as long
\* as there is none; whoever has it locked has read it as it still is.
AuthorityInv ==
    /\ AuthorityTypeOK
    /\ head.next = 0 => Issued = {}
    /\ head.next # 0 => \A g \in Issued : g < head.next
    /\ \A a, b \in Admins : tx[a].open /\ tx[b].open => a = b
    /\ \A a \in Admins : tx[a].open => tx[a].next = HeadNext /\ tx[a].closed = head.closed

\* The next generation is past every one issued.
LEMMA NextIsFresh ==
    ASSUME AuthorityInv
    PROVE  /\ HeadNext \in 1 .. MaxIssued + 1
           /\ \A g \in Issued : g < HeadNext
           /\ HeadNext \notin Issued
  <1>1. Issued \subseteq Nat /\ MaxIssued \in Nat /\ MaxIssued >= 1
    BY AuthorityConstants DEF Issued, Generations
  <1>2. CASE head.next = 0
    <2>1. HeadNext = 1 /\ Issued = {}
      BY <1>2 DEF AuthorityInv, HeadNext, SeededNext
    <2> QED BY <1>1, <2>1
  <1>3. CASE head.next # 0
    <2>1. HeadNext = head.next /\ head.next \in 0 .. MaxIssued + 1
      BY <1>3 DEF AuthorityInv, AuthorityTypeOK, HeadNext
    <2>2. \A g \in Issued : g < head.next
      BY <1>3 DEF AuthorityInv
    <2> QED BY <1>1, <1>3, <2>1, <2>2
  <1> QED BY <1>2, <1>3

\* The end of a transaction: nobody has the head locked any more.
LEMMA TxEnds ==
    ASSUME AuthorityInv, NEW a \in Admins, tx[a].open, tx' = [tx EXCEPT ![a] = NoTx]
    PROVE  /\ tx' \in [Admins -> [open : BOOLEAN, next : 0 .. MaxIssued + 1, closed : BOOLEAN]]
           /\ \A b \in Admins : ~tx'[b].open
  <1>1. NoTx \in [open : BOOLEAN, next : 0 .. MaxIssued + 1, closed : BOOLEAN] /\ ~NoTx.open
    BY AuthorityConstants DEF NoTx
  <1>2. tx \in [Admins -> [open : BOOLEAN, next : 0 .. MaxIssued + 1, closed : BOOLEAN]]
    BY DEF AuthorityInv, AuthorityTypeOK
  <1>3. \A b \in Admins : b # a => ~tx[b].open
    BY DEF AuthorityInv
  <1> QED BY <1>1, <1>2, <1>3

\* A write under the lock: the head moves to n, past every generation.
LEMMA WriteKept ==
    ASSUME AuthorityInv, NEW a \in Admins, tx[a].open, tx' = [tx EXCEPT ![a] = NoTx],
           grants' \in [Generations -> GrantStates],
           head' \in [next : 1 .. MaxIssued + 1, closed : BOOLEAN],
           \A g \in Issued' : g < head'.next
    PROVE  AuthorityInv'
  <1>1. /\ tx' \in [Admins -> [open : BOOLEAN, next : 0 .. MaxIssued + 1, closed : BOOLEAN]]
        /\ \A b \in Admins : ~tx'[b].open
    BY TxEnds
  <1>2. head'.next # 0 /\ head' \in [next : 0 .. MaxIssued + 1, closed : BOOLEAN]
    BY AuthorityConstants
  <1>3. AuthorityTypeOK'
    BY <1>1, <1>2 DEF AuthorityTypeOK
  <1> QED BY <1>1, <1>2, <1>3 DEF AuthorityInv

\* A transaction that commits.
LEMMA CommitKept ==
    ASSUME AuthorityInv, NEW a \in Admins, Commit(a)
    PROVE  AuthorityInv'
  <1>1. tx[a].open /\ tx' = [tx EXCEPT ![a] = NoTx]
    BY DEF Commit, IssueGrant, RevokeGeneration, RevokeGrant, CloseAuthorityRef
  <1>2. /\ HeadNext \in 1 .. MaxIssued + 1
        /\ \A g \in Issued : g < HeadNext
        /\ tx[a].next = HeadNext
    BY <1>1, NextIsFresh DEF AuthorityInv
  <1>3. /\ grants \in [Generations -> GrantStates]
        /\ head \in [next : 0 .. MaxIssued + 1, closed : BOOLEAN]
    BY DEF AuthorityInv, AuthorityTypeOK
  <1> DEFINE n == HeadNext
  <1> HIDE DEF n
  <1>4. CASE IssueGrant(a)
    <2>1. PICK s \in {"OURS", "OTHERS"} : grants' = [grants EXCEPT ![n] = s]
      BY <1>2, <1>4 DEF IssueGrant, n
    <2>2. n \in Generations /\ n + 1 \in 1 .. MaxIssued + 1 /\ n \in Nat
      BY <1>2, <1>4, AuthorityConstants DEF IssueGrant, n, Generations
    <2>3. head' = [head EXCEPT !.next = n + 1]
      BY <1>4 DEF IssueGrant, n
    <2>4. grants' \in [Generations -> GrantStates] /\ Issued' = Issued \cup {n}
      BY <1>3, <2>1, <2>2 DEF Issued, GrantStates
    <2>5. head' \in [next : 1 .. MaxIssued + 1, closed : BOOLEAN] /\ head'.next = n + 1
      BY <1>3, <2>2, <2>3
    <2>6. \A g \in Issued : g \in Nat /\ g < n
      BY <1>2, AuthorityConstants DEF Issued, Generations, n
    <2>7. \A g \in Issued' : g < head'.next
      BY <2>2, <2>4, <2>5, <2>6
    <2> QED BY <1>1, <2>4, <2>5, <2>7, WriteKept
  <1>5. CASE RevokeGeneration(a)
    <2>1. PICK g \in Issued : grants' = [grants EXCEPT ![g] = "ENDED"]
      BY <1>5 DEF RevokeGeneration
    <2>2. grants' \in [Generations -> GrantStates] /\ Issued' = Issued
      BY <1>3, <2>1 DEF Issued, GrantStates
    <2>3. head' \in [next : 1 .. MaxIssued + 1, closed : BOOLEAN] /\ head'.next = HeadNext
      BY <1>2, <1>3, <1>5 DEF RevokeGeneration
    <2> QED BY <1>1, <1>2, <2>2, <2>3, WriteKept
  <1>6. CASE RevokeGrant(a)
    <2>1. grants' = [g \in Generations |-> IF g \in Issued THEN "ENDED" ELSE "NONE"]
      BY <1>6 DEF RevokeGrant
    <2>2. grants' \in [Generations -> GrantStates] /\ Issued' = Issued
      BY <1>3, <2>1 DEF Issued, GrantStates
    <2>3. head' \in [next : 1 .. MaxIssued + 1, closed : BOOLEAN] /\ head'.next = HeadNext
      BY <1>2, <1>3, <1>6 DEF RevokeGrant
    <2> QED BY <1>1, <1>2, <2>2, <2>3, WriteKept
  <1>7. CASE CloseAuthorityRef(a)
    <2>1. grants' = grants /\ Issued' = Issued
      BY <1>7 DEF CloseAuthorityRef, Issued
    <2>2. head' \in [next : 1 .. MaxIssued + 1, closed : BOOLEAN] /\ head'.next = HeadNext
      BY <1>2, <1>7 DEF CloseAuthorityRef
    <2> QED BY <1>1, <1>2, <1>3, <2>1, <2>2, WriteKept
  <1> QED BY <1>4, <1>5, <1>6, <1>7 DEF Commit

\* Every administrative step, and the clock, keep the head ahead.
LEMMA AuthorityKept ==
    ASSUME AuthorityInv, AuthorityStep
    PROVE  AuthorityInv'
  <1>0. /\ AuthorityTypeOK
        /\ tx \in [Admins -> [open : BOOLEAN, next : 0 .. MaxIssued + 1, closed : BOOLEAN]]
    BY DEF AuthorityInv, AuthorityTypeOK
  <1>1. ASSUME NEW a \in Admins, lockAuthorityHead(a)
        PROVE  AuthorityInv'
    <2>1. /\ tx' = [tx EXCEPT ![a] = [open |-> TRUE, next |-> HeadNext, closed |-> head.closed]]
          /\ \A b \in Admins : ~tx[b].open
          /\ grants' = grants /\ head' = head
      BY <1>1 DEF lockAuthorityHead
    <2>2. HeadNext \in 0 .. MaxIssued + 1 /\ head.closed \in BOOLEAN
      BY <1>0, NextIsFresh, AuthorityConstants DEF AuthorityTypeOK
    <2>3. HeadNext' = HeadNext /\ Issued' = Issued
      BY <2>1 DEF HeadNext, SeededNext, Issued
    <2>4. /\ tx' \in [Admins -> [open : BOOLEAN, next : 0 .. MaxIssued + 1, closed : BOOLEAN]]
          /\ tx'[a].next = HeadNext /\ tx'[a].closed = head.closed
          /\ \A b \in Admins : b # a => ~tx'[b].open
      BY <1>0, <2>1, <2>2
    <2> QED BY <1>0, <2>1, <2>3, <2>4 DEF AuthorityInv, AuthorityTypeOK
  <1>2. ASSUME NEW a \in Admins, Commit(a)
        PROVE  AuthorityInv'
    BY <1>2, CommitKept
  <1>3. ASSUME NEW a \in Admins, Rollback(a)
        PROVE  AuthorityInv'
    <2>1. grants' = grants /\ head' = head /\ tx[a].open /\ tx' = [tx EXCEPT ![a] = NoTx]
      BY <1>3 DEF Rollback
    <2>2. Issued' = Issued
      BY <2>1 DEF Issued
    <2>3. /\ tx' \in [Admins -> [open : BOOLEAN, next : 0 .. MaxIssued + 1, closed : BOOLEAN]]
          /\ \A b \in Admins : ~tx'[b].open
      BY <2>1, TxEnds
    <2> QED BY <1>0, <2>1, <2>2, <2>3 DEF AuthorityInv, AuthorityTypeOK
  <1>4. ASSUME NEW g \in Generations, GrantExpires(g)
        PROVE  AuthorityInv'
    <2>1. grants[g] = "OURS" /\ grants' = [grants EXCEPT ![g] = "ENDED"] /\ head' = head /\ tx' = tx
      BY <1>4 DEF GrantExpires
    <2>2. grants' \in [Generations -> GrantStates] /\ Issued' = Issued
      BY <1>0, <2>1 DEF AuthorityTypeOK, Issued, GrantStates
    <2>3. HeadNext' = HeadNext
      BY <2>1, <2>2 DEF HeadNext, SeededNext
    <2> QED BY <1>0, <2>1, <2>2, <2>3 DEF AuthorityInv, AuthorityTypeOK
  <1> QED BY <1>1, <1>2, <1>3, <1>4 DEF AuthorityStep

-------------------------------------------------------------------------------
(* The call an executor makes for its connection.                          *)

\* A call goes on with the request it was given, or ends with a reply, which
\* tells of the row only to a request the row was admitted with.
Serves(x, y) ==
    /\ x.pc # "idle" /\ y.key = x.key
    /\ y.pc # "idle" => y.req = x.req
    /\ y.pc = "idle" => y.req = None /\ y.reply # None
    /\ y.reply \in {"SUCCEEDED", "IN_FLIGHT"} => AdmittedWith(rows'[x.key], x.req)

\* What an executor does by itself, and what its handler does.
LEMMA ExecutorServes ==
    ASSUME DispatchInv, NEW e \in Executors, ExecutorRuns(e) \/ ProviderStep(e)
    PROVE  Serves(exec[e], exec'[e])
  <1> DEFINE x == exec[e]
             y == exec'[e]
  <1>0. /\ exec \in [Executors -> Execution] /\ x \in Execution /\ HandlerInv(e) /\ ExecOK(x)
        /\ Ready(e)
    BY DEF DispatchInv, Ready, HandlerInv, WorldTypeOK
  <1>1. None \notin Replies
    BY NullIsNoAnswer
  <1>2. CASE AcquireStep(e) \/ BoundaryStep(e) \/ SettleStep(e)
    <2>1. QuietStep(e)
      BY <1>0, <1>2, RunsQuietly
    <2>2. Advance(x, y) /\ [StoreNext]_storeVars
      BY <2>1 DEF QuietStep, Advances
    <2>3. CASE Carried(x, y) /\ x.pc # "idle" /\ y.pc # "idle"
      BY <1>0, <1>1, <2>3 DEF Serves, Carried, ExecOK, Replies
    <2>4. ASSUME NEW status \in Replies, x.pc # "idle", Replied(x, y, status),
                 status \in {"SUCCEEDED", "IN_FLIGHT"} =>
                    Matched(x) \/ x.pc \in Settling \/ AdmittedWith(rows'[x.key], x.req)
          PROVE  Serves(x, y)
      <3>1. x.key \in Keys
        BY <1>0, <2>4 DEF ExecOK
      <3>2. LaterRow(rows[x.key], rows'[x.key])
        BY <2>2, <3>1, RowsGoOn DEF DispatchInv
      <3>3. Matched(x) \/ x.pc \in Settling => AdmittedWith(rows[x.key], x.req)
        BY <1>0 DEF HandlerInv, Beyond
      <3>4. AdmittedWith(rows[x.key], x.req) => AdmittedWith(rows'[x.key], x.req)
        BY <3>2 DEF LaterRow, AdmittedWith
      <3> QED BY <1>1, <2>4, <3>3, <3>4 DEF Serves, Replied
    <2> QED BY <2>2, <2>3, <2>4 DEF Advance, Early, Settling
  <1>3. CASE HandlerStep(e) \/ ProviderStep(e)
    <2>1. /\ x.pc \in {"invoke", "await"}
          /\ y.pc # "idle" /\ y.key = x.key /\ y.req = x.req /\ y.reply = x.reply
      <3>1. CASE DeadlineAtBoundary(e)
        BY <1>0, <3>1 DEF DeadlineAtBoundary, At, Become, Execution
      <3>2. CASE Invoke(e)
        BY <1>0, <3>2 DEF Invoke, At, Become, Execution
      <3>3. CASE CeilingFires(e)
        BY <1>0, <3>3 DEF CeilingFires, At, Become, Execution
      <3>4. CASE ProviderActs(e)
        <4>1. x.pc = "await" /\ \E c \in Calls : y = [x EXCEPT !.call = c]
          BY <1>0, <3>4 DEF ProviderActs, At, Become, Calls
        <4> QED BY <1>0, <4>1 DEF Execution
      <3>5. CASE HandlerAnswers(e)
        <4>0. PICK v \in Verdicts, p \in BOOLEAN, run \in {ProviderRun, None} :
                 Become(e, [x EXCEPT !.pc = "observe", !.verdict = v, !.proof = p, !.run = run])
          BY <3>5 DEF HandlerAnswers
        <4>1. y = [x EXCEPT !.pc = "observe", !.verdict = v, !.proof = p, !.run = run]
          BY <1>0, <4>0 DEF Become
        <4>2. x.pc = "await"
          BY <3>5 DEF HandlerAnswers, At
        <4> QED BY <1>0, <4>1, <4>2 DEF Execution
      <3> QED BY <1>3, <3>1, <3>2, <3>3, <3>4, <3>5 DEF HandlerStep, ProviderStep
    <2> QED BY <1>0, <1>1, <2>1 DEF Serves, ExecOK, Replies
  <1> QED BY <1>2, <1>3 DEF ExecutorRuns

\* A handler is only ever asked for the request of its executor.
LEMMA ExecutorAsks ==
    ASSUME DispatchInv, NEW e \in Executors, ExecutorRuns(e) \/ ProviderStep(e)
    PROVE  \A k \in Keys : asked'[k] \subseteq asked[k] \cup ({exec[e].req} \ {None})
  <1>0. Ready(e) /\ asked \in [Keys -> SUBSET Requests] /\ None \notin Requests /\ ExecOK(exec[e])
    BY StoreConstants DEF DispatchInv, Ready, HandlerInv, WorldTypeOK
  <1>1. CASE AcquireStep(e) \/ BoundaryStep(e) \/ SettleStep(e)
    <2>1. UNCHANGED worldVars
      BY <1>0, <1>1, RunsQuietly DEF QuietStep
    <2> QED BY <2>1 DEF worldVars
  <1>2. CASE Invoke(e)
    <2>1. exec[e].req \in Requests /\ exec[e].pc = "invoke"
      BY <1>0, <1>2 DEF Invoke, At, ExecOK
    <2>2. asked' = [asked EXCEPT ![exec[e].key] = asked[exec[e].key] \cup {exec[e].req}]
      BY <1>2 DEF Invoke
    <2> QED BY <1>0, <2>1, <2>2
  <1>3. CASE DeadlineAtBoundary(e) \/ CeilingFires(e) \/ ProviderStep(e)
    BY <1>3 DEF DeadlineAtBoundary, CeilingFires, ProviderStep, ProviderActs, HandlerAnswers,
                Quiet, worldVars
  <1> QED BY <1>1, <1>2, <1>3 DEF ExecutorRuns, HandlerStep

-------------------------------------------------------------------------------
(* A connection and its call.                                              *)

Waiting == {"received", "verified", "running"}

\* c is the connection, x the call, s the generations that resolved while it
\* waited for its authority.
CallInv(c, x, s) ==
    /\ c \in Connection /\ s \subseteq Generations
    /\ c.pc \in {"idle", "received", "verified"} => x.pc = "idle" /\ x.reply = None /\ x.call = "NONE"
    /\ x.pc = "idle" => x.req = None
    /\ x.pc # "idle" => c.pc = "running" /\ x.req = Bound[c.gen]
    /\ c.pc = "running" /\ x.pc = "idle" => x.reply # None
    /\ c.pc \in {"verified", "running"} => c.gen \in s
    /\ c.pc = "idle" => s = {}

\* What the client was told is what the executor replied, or less.
ClientInv(c, x) ==
    /\ c.pc = "idle" <=> c.client = "NONE"
    /\ c.pc \in Waiting <=> c.client = "WAITING"
    /\ c.client = "SUCCEEDED" => x.reply = "SUCCEEDED"
    /\ c.client = "IN_FLIGHT" => x.reply = "IN_FLIGHT"
    /\ c.client \in {"FAILED", "DENIED", "PRE_DISPATCH"} =>
          x.call = "NONE" \/ x.reply \in {"FAILED", "DENIED"}

\* A reply that tells of the row is to a request the row was admitted with.
ToldInv(c, x) == \A k \in Keys :
    x.reply \in {"SUCCEEDED", "IN_FLIGHT"} /\ x.key = k => AdmittedWith(rows[k], Bound[c.gen])

ServiceInv ==
    /\ DispatchInv /\ AuthorityInv
    /\ conn \in [Executors -> Connection] /\ seen \in [Executors -> SUBSET Generations]
    /\ \A e \in Executors : /\ CallInv(conn[e], exec[e], seen[e])
                            /\ ClientInv(conn[e], exec[e])
                            /\ ToldInv(conn[e], exec[e])
                            /\ conn[e].pc = "received" => Resolvable \subseteq seen[e]
    /\ \A k \in Keys : \A q \in asked[k] : \E e \in Executors : \E g \in seen[e] : q = Bound[g]

\* A generation has a request of its own.
LEMMA BoundType == Bound \in [Generations -> Requests]
  BY ServiceConstants DEF Bound

\* The executors, the world and the clock go on: no connection moves.
LEMMA CallsGoOn ==
    ASSUME ServiceInv, DispatchInv',
           \A k \in Keys : LaterRow(rows[k], rows'[k]),
           UNCHANGED <<authorityVars, serviceVars>>,
           \A d \in Executors : exec'[d] = exec[d] \/ Serves(exec[d], exec'[d]),
           \A k \in Keys : \A q \in asked'[k] \ asked[k] :
              q # None /\ \E d \in Executors : q = exec[d].req
    PROVE  ServiceInv'
  <1>1. grants' = grants /\ head' = head /\ tx' = tx /\ conn' = conn /\ seen' = seen
    BY DEF authorityVars, serviceVars
  <1>2. AuthorityInv' /\ Resolvable' = Resolvable
    BY <1>1 DEF ServiceInv, AuthorityInv, AuthorityTypeOK, Issued, HeadNext, SeededNext, Resolvable
  <1>3. ASSUME NEW d \in Executors
        PROVE  /\ CallInv(conn[d], exec'[d], seen[d]) /\ ClientInv(conn[d], exec'[d])
               /\ ToldInv(conn[d], exec[d])'
    <2> DEFINE c == conn[d]
               x == exec[d]
               y == exec'[d]
    <2>1. CallInv(c, x, seen[d]) /\ ClientInv(c, x) /\ ToldInv(c, x)
      BY DEF ServiceInv
    <2>2. CASE y = x
      <3>1. \A k \in Keys : AdmittedWith(rows[k], Bound[c.gen]) => AdmittedWith(rows'[k], Bound[c.gen])
        BY DEF LaterRow, AdmittedWith
      <3>2. ToldInv(conn[d], exec[d])'
        BY <1>1, <2>1, <2>2, <3>1 DEF ToldInv
      <3> QED BY <2>1, <2>2, <3>2
    <2>3. CASE Serves(x, y)
      <3>1. c.pc = "running" /\ x.req = Bound[c.gen] /\ c.client = "WAITING"
        BY <2>1, <2>3 DEF Serves, CallInv, ClientInv, Waiting
      <3>2. CallInv(c, y, seen[d])
        BY <2>1, <2>3, <3>1 DEF Serves, CallInv
      <3>3. ClientInv(c, y)
        BY <2>1, <3>1 DEF ClientInv
      <3>4. ToldInv(conn[d], exec[d])'
        BY <1>1, <2>3, <3>1 DEF Serves, ToldInv
      <3> QED BY <3>2, <3>3, <3>4
    <2> QED BY <2>2, <2>3
  <1>4. ASSUME NEW k \in Keys, NEW q \in asked'[k]
        PROVE  \E d \in Executors : \E g \in seen[d] : q = Bound[g]
    <2>1. CASE q \in asked[k]
      BY <2>1 DEF ServiceInv
    <2>2. CASE q \notin asked[k]
      <3>1. PICK d \in Executors : q = exec[d].req /\ q # None
        BY <1>4, <2>2
      <3>2. CallInv(conn[d], exec[d], seen[d])
        BY DEF ServiceInv
      <3>3. conn[d].gen \in seen[d] /\ q = Bound[conn[d].gen]
        BY <3>1, <3>2 DEF CallInv
      <3> QED BY <3>3
    <2> QED BY <2>1, <2>2
  <1> QED BY <1>1, <1>2, <1>3, <1>4 DEF ServiceInv

\* One connection moves from c to d, with its call, under the rows as they are.
LEMMA ConnectionKept ==
    ASSUME ServiceInv, DispatchInv', NEW e \in Executors, NEW d \in Connection,
           UNCHANGED authorityVars, rows' = rows, asked' = asked,
           conn' = [conn EXCEPT ![e] = d],
           \A f \in Executors : f # e => exec'[f] = exec[f] /\ seen'[f] = seen[f],
           seen' \in [Executors -> SUBSET Generations], seen[e] \subseteq seen'[e],
           CallInv(d, exec'[e], seen'[e]), ClientInv(d, exec'[e]),
           exec'[e].reply \in {"SUCCEEDED", "IN_FLIGHT"} => exec'[e] = exec[e] /\ d.gen = conn[e].gen,
           d.pc = "received" => Resolvable \subseteq seen'[e]
    PROVE  ServiceInv'
  <1>1. grants' = grants /\ head' = head /\ tx' = tx
    BY DEF authorityVars
  <1>2. AuthorityInv' /\ Resolvable' = Resolvable
    BY <1>1 DEF ServiceInv, AuthorityInv, AuthorityTypeOK, Issued, HeadNext, SeededNext, Resolvable
  <1>3. /\ conn' \in [Executors -> Connection] /\ conn'[e] = d
        /\ \A f \in Executors : f # e => conn'[f] = conn[f]
    BY DEF ServiceInv
  <1>4. \A f \in Executors : /\ CallInv(conn'[f], exec'[f], seen'[f]) /\ ClientInv(conn'[f], exec'[f])
                             /\ conn'[f].pc = "received" => Resolvable \subseteq seen'[f]
    BY <1>3 DEF ServiceInv
  <1>5. \A f \in Executors : ToldInv(conn[f], exec[f])'
    <2> SUFFICES ASSUME NEW f \in Executors PROVE ToldInv(conn[f], exec[f])'
      OBVIOUS
    <2>1. ToldInv(conn[f], exec[f])
      BY DEF ServiceInv
    <2> QED BY <1>3, <2>1 DEF ToldInv
  <1>6. \A f \in Executors : seen[f] \subseteq seen'[f]
    OBVIOUS
  <1>7. \A k \in Keys : \A q \in asked'[k] : \E f \in Executors : \E g \in seen'[f] : q = Bound[g]
    BY <1>6 DEF ServiceInv
  <1> QED BY <1>2, <1>3, <1>4, <1>5, <1>7 DEF ServiceInv

\* The fabric stands still while a connection is read, refused or answered.
LEMMA FabricStill ==
    ASSUME DispatchInv, UNCHANGED fabricPart
    PROVE  DispatchInv' /\ rows' = rows /\ asked' = asked /\ exec' = exec
  <1>1. UNCHANGED storeVars /\ UNCHANGED worldVars /\ faults' = faults /\ exec' = exec
    BY DEF fabricPart
  <1>2. rows' = rows /\ asked' = asked
    BY <1>1 DEF storeVars, worldVars
  <1>3. faults' \in Nat
    BY <1>1 DEF DispatchInv, WorldTypeOK
  <1>4. DispatchInv'
    BY <1>1, <1>2, <1>3, LedgerStepKept
  <1> QED BY <1>1, <1>2, <1>4

\* The connection is closed and its client concludes s.
LEMMA CloseKept ==
    ASSUME ServiceInv, NEW e \in Executors, UNCHANGED fabricPart, UNCHANGED authorityVars,
           UNCHANGED seen, NEW s \in Conclusions, exec[e].pc = "idle",
           conn' = [conn EXCEPT ![e].pc = "closed", ![e].client = s],
           s = "SUCCEEDED" => exec[e].reply = "SUCCEEDED",
           s = "IN_FLIGHT" => exec[e].reply = "IN_FLIGHT",
           s \in {"FAILED", "DENIED", "PRE_DISPATCH"} =>
              exec[e].call = "NONE" \/ exec[e].reply \in {"FAILED", "DENIED"}
    PROVE  ServiceInv'
  <1> DEFINE c == conn[e]
             d == [c EXCEPT !.pc = "closed", !.client = s]
  <1>1. DispatchInv' /\ rows' = rows /\ asked' = asked /\ exec' = exec /\ seen' = seen
    BY FabricStill DEF ServiceInv
  <1>2. c \in Connection /\ CallInv(c, exec[e], seen[e]) /\ conn \in [Executors -> Connection]
        /\ seen \in [Executors -> SUBSET Generations]
    BY DEF ServiceInv
  <1>3. conn' = [conn EXCEPT ![e] = d]
    BY <1>2
  <1> HIDE DEF c
  <1>4. d \in Connection /\ d.pc = "closed" /\ d.client = s /\ d.gen = c.gen
    BY <1>2 DEF Connection
  <1> HIDE DEF d
  <1>5. CallInv(d, exec[e], seen[e])
    BY <1>2, <1>4 DEF CallInv
  <1>6. ClientInv(d, exec[e])
    <2>1. s # "NONE" /\ s # "WAITING"
      BY DEF Conclusions, Replies
    <2> QED BY <1>4, <2>1 DEF ClientInv, Waiting
  <1> QED BY <1>1, <1>2, <1>3, <1>4, <1>5, <1>6, ConnectionKept DEF c

\* The answer reaches the client, or is lost.
LEMMA DeliverKept ==
    ASSUME ServiceInv, NEW e \in Executors, UNCHANGED fabricPart, UNCHANGED authorityVars,
           UNCHANGED seen, NEW s \in Replies, exec[e].pc = "idle", Deliver(e, s),
           s = "SUCCEEDED" => exec[e].reply = "SUCCEEDED",
           s = "IN_FLIGHT" => exec[e].reply = "IN_FLIGHT",
           s \in {"FAILED", "DENIED"} =>
              exec[e].call = "NONE" \/ exec[e].reply \in {"FAILED", "DENIED"}
    PROVE  ServiceInv'
  <1>1. PICK c \in {s, "AMBIGUOUS"} : conn' = [conn EXCEPT ![e].pc = "closed", ![e].client = c]
    BY DEF Deliver
  <1>2. c \in Conclusions /\ (s = "PRE_DISPATCH" => FALSE)
    BY DEF Conclusions, Replies
  <1> QED BY <1>1, <1>2, CloseKept

\* A connection goes on waiting, its call not made yet.
LEMMA WaitKept ==
    ASSUME ServiceInv, NEW e \in Executors, UNCHANGED fabricPart, UNCHANGED authorityVars,
           NEW d \in Connection, conn' = [conn EXCEPT ![e] = d],
           conn[e].pc \in {"idle", "received"}, d.pc \in {"received", "verified"},
           d.client = "WAITING", NEW s \in SUBSET Generations, seen' = [seen EXCEPT ![e] = s],
           seen[e] \subseteq s, d.pc = "verified" => d.gen \in s,
           d.pc = "received" => Resolvable \subseteq s
    PROVE  ServiceInv'
  <1>1. DispatchInv' /\ rows' = rows /\ asked' = asked /\ exec' = exec
    BY FabricStill DEF ServiceInv
  <1>2. CallInv(conn[e], exec[e], seen[e]) /\ seen \in [Executors -> SUBSET Generations]
    BY DEF ServiceInv
  <1>3. seen' \in [Executors -> SUBSET Generations] /\ seen'[e] = s
        /\ \A f \in Executors : f # e => seen'[f] = seen[f]
    BY <1>2
  <1>4. exec[e].pc = "idle" /\ exec[e].reply = None /\ exec[e].call = "NONE" /\ exec[e].req = None
    BY <1>2 DEF CallInv
  <1>5. CallInv(d, exec[e], s)
    BY <1>4 DEF CallInv
  <1>6. ClientInv(d, exec[e])
    BY DEF ClientInv, Waiting
  <1>7. exec[e].reply \notin {"SUCCEEDED", "IN_FLIGHT"}
    BY <1>4, NullIsNoAnswer DEF Replies
  <1> QED BY <1>1, <1>3, <1>5, <1>6, <1>7, ConnectionKept

\* The client's write, refusal, authority: everything before the call is made.
LEMMA BeforeCallKept ==
    ASSUME ServiceInv, NEW e \in Executors,
           InvokeFails(e) \/ InvokeWrites(e) \/ Refuse(e) \/ VerifyAuthority(e)
    PROVE  ServiceInv'
  <1>0. /\ conn \in [Executors -> Connection] /\ conn[e] \in Connection
        /\ CallInv(conn[e], exec[e], seen[e]) /\ ClientInv(conn[e], exec[e])
        /\ seen \in [Executors -> SUBSET Generations]
    BY DEF ServiceInv
  <1>1. CASE InvokeFails(e)
    <2>1. /\ conn[e].client = "NONE" /\ UNCHANGED fabricPart /\ UNCHANGED authorityVars /\ UNCHANGED seen
          /\ conn' = [conn EXCEPT ![e].pc = "closed", ![e].client = "PRE_DISPATCH"]
      BY <1>0, <1>1 DEF InvokeFails, authorityVars
    <2>2. exec[e].pc = "idle" /\ exec[e].call = "NONE"
      BY <1>0, <2>1 DEF CallInv, ClientInv
    <2> QED BY <2>1, <2>2, CloseKept DEF Conclusions
  <1>2. CASE InvokeWrites(e)
    <2> DEFINE d == [conn[e] EXCEPT !.pc = "received", !.client = "WAITING"]
    <2>1. d \in Connection /\ d.pc = "received" /\ d.client = "WAITING"
      BY <1>0 DEF Connection
    <2>2. conn' = [conn EXCEPT ![e] = d]
      BY <1>0, <1>2 DEF InvokeWrites
    <2>3. conn[e].pc = "idle" /\ seen[e] = {}
      BY <1>0, <1>2 DEF InvokeWrites, CallInv, ClientInv
    <2>4. Resolvable \in SUBSET Generations
      BY DEF Resolvable, Issued
    <2>5. seen' = [seen EXCEPT ![e] = Resolvable] /\ UNCHANGED fabricPart /\ UNCHANGED authorityVars
      BY <1>2 DEF InvokeWrites, authorityVars
    <2> HIDE DEF d
    <2> QED BY <2>1, <2>2, <2>3, <2>4, <2>5, WaitKept
  <1>3. CASE Refuse(e)
    <2>1. conn[e].pc \in {"received", "verified"}
          /\ UNCHANGED fabricPart /\ UNCHANGED authorityVars /\ UNCHANGED seen
      BY <1>3 DEF Refuse, authorityVars
    <2>2. PICK s \in {"DENIED", "FAILED"} : Deliver(e, s)
      BY <1>3 DEF Refuse
    <2>3. exec[e].pc = "idle" /\ exec[e].call = "NONE" /\ s \in Replies
      BY <1>0, <2>1 DEF CallInv, Replies
    <2> QED BY <2>1, <2>2, <2>3, DeliverKept
  <1>4. CASE VerifyAuthority(e)
    <2>1. conn[e].pc = "received"
          /\ UNCHANGED fabricPart /\ UNCHANGED authorityVars /\ UNCHANGED seen
      BY <1>4 DEF VerifyAuthority, authorityVars
    <2>2. exec[e].pc = "idle" /\ exec[e].call = "NONE" /\ "DENIED" \in Replies
      BY <1>0, <2>1 DEF CallInv, Replies
    <2>3. CASE Deliver(e, "DENIED")
      BY <2>1, <2>2, <2>3, DeliverKept
    <2>4. ASSUME NEW g \in Resolvable, conn' = [conn EXCEPT ![e].pc = "verified", ![e].gen = g]
          PROVE  ServiceInv'
      <3> DEFINE d == [conn[e] EXCEPT !.pc = "verified", !.gen = g]
      <3>1. g \in Generations /\ g \in seen[e]
        BY <2>1 DEF Resolvable, Issued, ServiceInv
      <3>2. d \in Connection /\ d.pc = "verified" /\ d.gen = g /\ d.client = conn[e].client
        BY <1>0, <3>1 DEF Connection
      <3>3. conn' = [conn EXCEPT ![e] = d]
        BY <1>0, <2>4
      <3>4. conn[e].client = "WAITING"
        BY <1>0, <2>1 DEF ClientInv, Waiting
      <3>5. seen' = [seen EXCEPT ![e] = seen[e]] /\ seen[e] \in SUBSET Generations
        BY <1>0, <2>1
      <3> HIDE DEF d
      <3> QED BY <2>1, <3>1, <3>2, <3>3, <3>4, <3>5, WaitKept
    <2> QED BY <1>4, <2>3, <2>4 DEF VerifyAuthority
  <1> QED BY <1>1, <1>2, <1>3, <1>4

\* The call is made, bound to the generation that was resolved.
LEMMA ExecuteKept ==
    ASSUME ServiceInv, NEW e \in Executors, Execute(e)
    PROVE  ServiceInv'
  <1>0. /\ conn \in [Executors -> Connection] /\ conn[e] \in Connection
        /\ CallInv(conn[e], exec[e], seen[e]) /\ ClientInv(conn[e], exec[e])
        /\ DispatchInv /\ exec \in [Executors -> Execution]
        /\ seen \in [Executors -> SUBSET Generations]
    BY DEF ServiceInv, DispatchInv
  <1>1. /\ conn[e].pc = "verified" /\ UNCHANGED authorityVars /\ seen' = seen
        /\ conn[e].gen \in seen[e] /\ conn[e].gen \in Generations
    BY <1>0 DEF Execute, CallInv, authorityVars
  <1> DEFINE q == Bound[conn[e].gen]
  <1>2. q \in Requests
    BY <1>1, BoundType
  <1>3. PICK k \in Keys : Submit(e, k, q)
    BY DEF Execute
  <1>4. DispatchInv'
    BY <1>0, <1>2, <1>3, SubmitKept
  <1>5. rows' = rows /\ asked' = asked
    BY <1>3 DEF Submit, Quiet, storeVars, worldVars
  <1> HIDE DEF q
  <1>6. /\ exec'[e].pc = "insert" /\ exec'[e].req = q /\ exec'[e].reply = None
        /\ \A f \in Executors : f # e => exec'[f] = exec[f]
    <2> DEFINE i == IdleExecution(e, exec[e].se)
               y == [i EXCEPT !.pc = "insert", !.key = k, !.req = q]
    <2>1. exec' = [exec EXCEPT ![e] = y]
      BY <1>3 DEF Submit, Become
    <2>2. exec[e].se \in Nat
      BY <1>0 DEF Execution
    <2>3. i \in Execution
      BY <2>2, IdleOK
    <2>4. i.reply = None
      BY DEF IdleExecution
    <2> HIDE DEF i
    <2>5. y.pc = "insert" /\ y.req = q /\ y.reply = None
      BY <2>3, <2>4 DEF Execution
    <2> HIDE DEF y
    <2> QED BY <1>0, <2>1, <2>5
  <1> DEFINE d == [conn[e] EXCEPT !.pc = "running"]
  <1>7. d \in Connection /\ d.pc = "running" /\ d.gen = conn[e].gen /\ d.client = conn[e].client
    BY <1>0 DEF Connection
  <1>8. conn' = [conn EXCEPT ![e] = d]
    BY <1>0 DEF Execute
  <1> HIDE DEF d
  <1>9. conn[e].client = "WAITING"
    BY <1>0, <1>1 DEF ClientInv, Waiting
  <1>10. CallInv(d, exec'[e], seen'[e])
    BY <1>0, <1>1, <1>6, <1>7 DEF CallInv, q
  <1>11. ClientInv(d, exec'[e])
    BY <1>7, <1>9 DEF ClientInv, Waiting
  <1>12. exec'[e].reply \notin {"SUCCEEDED", "IN_FLIGHT"}
    BY <1>6, NullIsNoAnswer DEF Replies
  <1> QED BY <1>0, <1>1, <1>4, <1>5, <1>6, <1>7, <1>8, <1>10, <1>11, <1>12, ConnectionKept

\* The reply is framed, or reported as UNKNOWN when it cannot be.
LEMMA RespondKept ==
    ASSUME ServiceInv, NEW e \in Executors, Respond(e)
    PROVE  ServiceInv'
  <1>1. /\ exec[e].pc = "idle" /\ exec[e].reply # None /\ exec[e] \in Execution
        /\ UNCHANGED fabricPart /\ UNCHANGED authorityVars /\ UNCHANGED seen
    BY DEF Respond, At, ServiceInv, DispatchInv, authorityVars
  <1>2. exec[e].reply \in Replies /\ "UNKNOWN" \in Replies
    BY <1>1 DEF Execution, Replies
  <1>3. CASE Deliver(e, exec[e].reply)
    BY <1>1, <1>2, <1>3, DeliverKept
  <1>4. CASE Deliver(e, "UNKNOWN")
    BY <1>1, <1>2, <1>4, DeliverKept
  <1> QED BY <1>3, <1>4 DEF Respond, writeResponse

\* An administrative step changes what resolves, and is noticed by every
\* request that waits for its authority.
LEMMA AdministrationKept ==
    ASSUME ServiceInv, Administration
    PROVE  ServiceInv'
  <1>1. AuthorityInv'
    BY AuthorityKept DEF ServiceInv, Administration
  <1>2. DispatchInv' /\ rows' = rows /\ asked' = asked /\ exec' = exec /\ conn' = conn
    BY FabricStill DEF ServiceInv, Administration
  <1>3. /\ seen' \in [Executors -> SUBSET Generations]
        /\ \A e \in Executors : /\ seen[e] \subseteq seen'[e]
                                /\ conn[e].pc = "received" => Resolvable' \subseteq seen'[e]
                                /\ conn[e].pc # "received" => seen'[e] = seen[e]
    <2>1. Resolvable' \subseteq Generations
      BY DEF Resolvable, Issued
    <2>2. seen \in [Executors -> SUBSET Generations]
      BY DEF ServiceInv
    <2> QED BY <2>1, <2>2 DEF Administration
  <1>4. \A e \in Executors : CallInv(conn'[e], exec'[e], seen'[e]) /\ ClientInv(conn'[e], exec'[e])
    BY <1>2, <1>3 DEF ServiceInv, CallInv
  <1>5. \A e \in Executors : ToldInv(conn[e], exec[e])'
    BY <1>2 DEF ServiceInv, ToldInv
  <1>6. \A k \in Keys : \A q \in asked'[k] : \E f \in Executors : \E g \in seen'[f] : q = Bound[g]
    BY <1>2, <1>3 DEF ServiceInv
  <1> QED BY <1>1, <1>2, <1>3, <1>4, <1>5, <1>6 DEF ServiceInv

\* The executors run, strays land and leases expire as in the fabric.
LEMMA RunningKept ==
    ASSUME ServiceInv,
           \/ \E e \in Executors : /\ ExecutorRuns(e) \/ ProviderStep(e)
                                   /\ UNCHANGED <<authorityVars, serviceVars>>
           \/ \E k \in Keys : StrayLands(k) /\ UNCHANGED <<exec, authorityVars, serviceVars>>
           \/ \E k \in Keys : /\ LeaseExpires(k)
                              /\ UNCHANGED <<worldVars, faults, exec, authorityVars, serviceVars>>
    PROVE  ServiceInv'
  <1>0. DispatchInv /\ RowsInv
    BY DEF ServiceInv, DispatchInv
  <1>1. ASSUME NEW e \in Executors, ExecutorRuns(e) \/ ProviderStep(e),
               UNCHANGED <<authorityVars, serviceVars>>
        PROVE  ServiceInv'
    <2>1. ExecutorStep(e)
      BY <1>1 DEF ExecutorStep
    <2>2. DispatchInv' /\ [StoreNext]_storeVars
      BY <1>0, <2>1, ExecutorKept, ExecutorUsesStore
    <2>3. \A k \in Keys : LaterRow(rows[k], rows'[k])
      BY <1>0, <2>2, RowsGoOn
    <2>4. \A d \in Executors : exec'[d] = exec[d] \/ Serves(exec[d], exec'[d])
      BY <1>0, <1>1, <2>1, ExecutorAlone, ExecutorServes
    <2>5. \A k \in Keys : asked'[k] \subseteq asked[k] \cup ({exec[e].req} \ {None})
      BY <1>0, <1>1, ExecutorAsks
    <2> QED BY <1>1, <2>2, <2>3, <2>4, <2>5, CallsGoOn
  <1>2. ASSUME NEW k \in Keys, StrayLands(k), UNCHANGED <<exec, authorityVars, serviceVars>>
        PROVE  ServiceInv'
    <2>1. UNCHANGED exec /\ UNCHANGED storeVars /\ asked' = asked /\ rows' = rows
          /\ UNCHANGED <<authorityVars, serviceVars>>
      BY <1>2 DEF StrayLands, storeVars
    <2>2. DispatchInv'
      BY <1>0, <1>2, <2>1, StrayKept
    <2>3. \A j \in Keys : LaterRow(rows[j], rows'[j])
      BY <2>1 DEF LaterRow
    <2> QED BY <2>1, <2>2, <2>3, CallsGoOn
  <1>3. ASSUME NEW k \in Keys, LeaseExpires(k),
               UNCHANGED <<worldVars, faults, exec, authorityVars, serviceVars>>
        PROVE  ServiceInv'
    <2>1. UNCHANGED worldVars /\ UNCHANGED exec /\ faults' = faults
          /\ UNCHANGED <<authorityVars, serviceVars>>
      BY <1>3
    <2>2. StoreNext /\ asked' = asked /\ faults' \in Nat
      BY <1>0, <1>3, <2>1 DEF StoreNext, ClockStep, worldVars, DispatchInv, WorldTypeOK
    <2>3. \A j \in Keys : rows'[j].state = rows[j].state
      <3>1. rows \in [Keys -> Row]
        BY <1>0 DEF RowsInv, TypeOK
      <3>2. [rows[k] EXCEPT !.lease = "EXPIRED"].state = rows[k].state
        BY <3>1 DEF Row
      <3> QED BY <1>3, <3>1, <3>2 DEF LeaseExpires, PutRow
    <2>4. DispatchInv' /\ \A j \in Keys : LaterRow(rows[j], rows'[j])
      BY <1>0, <2>1, <2>2, <2>3, LedgerStepKept, RowsGoOn
    <2> QED BY <2>1, <2>2, <2>4, CallsGoOn
  <1> QED BY <1>1, <1>2, <1>3

\* Every step of the service keeps the invariant.
LEMMA ServiceKept ==
    ASSUME ServiceInv, [ServiceNext]_<<fabricPart, authorityVars, serviceVars>>
    PROVE  ServiceInv'
  <1>1. ASSUME NEW e \in Executors, ConnectionStep(e)
        PROVE  ServiceInv'
    BY <1>1, BeforeCallKept, ExecuteKept, RespondKept DEF ConnectionStep
  <1>2. CASE Administration
    BY <1>2, AdministrationKept
  <1>3. CASE UNCHANGED <<fabricPart, authorityVars, serviceVars>>
    <2>1. DispatchInv' /\ rows' = rows /\ asked' = asked /\ exec' = exec
      BY <1>3, FabricStill DEF ServiceInv
    <2>2. \A k \in Keys : LaterRow(rows[k], rows'[k])
      BY <2>1 DEF LaterRow
    <2>3. UNCHANGED <<authorityVars, serviceVars>>
      BY <1>3
    <2> QED BY <2>1, <2>2, <2>3, CallsGoOn
  <1> QED BY <1>1, <1>2, <1>3, RunningKept DEF ServiceNext

\* It holds at first.
LEMMA ServiceStarts == ServiceInit => ServiceInv
  <1> SUFFICES ASSUME ServiceInit PROVE ServiceInv
    OBVIOUS
  <1>1. DispatchInv
    BY DispatchInit DEF ServiceInit
  <1>2. AuthorityInv /\ Resolvable = {}
    <2>1. grants = [g \in Generations |-> "NONE"] /\ head = [next |-> 0, closed |-> FALSE]
          /\ tx = [a \in Admins |-> NoTx]
      BY DEF ServiceInit, AuthorityInit
    <2>2. Issued = {} /\ Resolvable = {}
      BY <2>1 DEF Issued, Resolvable
    <2>3. AuthorityTypeOK
      BY <2>1, AuthorityConstants DEF AuthorityTypeOK, GrantStates, NoTx
    <2>4. \A a \in Admins : ~tx[a].open
      BY <2>1 DEF NoTx
    <2> QED BY <2>1, <2>2, <2>3, <2>4 DEF AuthorityInv
  <1> DEFINE c == [pc |-> "idle", gen |-> 0, client |-> "NONE"]
  <1>3. c \in Connection /\ c.pc = "idle" /\ c.client = "NONE"
    BY DEF Connection
  <1>4. conn = [e \in Executors |-> c] /\ seen = [e \in Executors |-> {}]
    BY DEF ServiceInit
  <1> HIDE DEF c
  <1>5. \A e \in Executors : /\ exec[e].pc = "idle" /\ exec[e].req = None
                             /\ exec[e].reply = None /\ exec[e].call = "NONE"
    <2> SUFFICES ASSUME NEW e \in Executors
                 PROVE  /\ exec[e].pc = "idle" /\ exec[e].req = None
                        /\ exec[e].reply = None /\ exec[e].call = "NONE"
      OBVIOUS
    <2> DEFINE i == IdleExecution(e, epoch)
    <2>1. i.pc = "idle" /\ i.req = None /\ i.reply = None /\ i.call = "NONE"
      BY DEF IdleExecution
    <2>2. exec[e] = i
      BY DEF ServiceInit, ExecutorInit
    <2> HIDE DEF i
    <2> QED BY <2>1, <2>2
  <1>6. \A e \in Executors : CallInv(conn[e], exec[e], seen[e])
    BY <1>3, <1>4, <1>5 DEF CallInv
  <1>7. \A e \in Executors : ClientInv(conn[e], exec[e])
    BY <1>3, <1>4, <1>5 DEF ClientInv, Waiting
  <1>8. \A e \in Executors : ToldInv(conn[e], exec[e])
    BY <1>5, NullIsNoAnswer DEF ToldInv, Replies
  <1>9. \A k \in Keys : asked[k] = {}
    BY DEF ServiceInit, WorldInit
  <1>10. conn \in [Executors -> Connection] /\ seen \in [Executors -> SUBSET Generations]
    BY <1>3, <1>4
  <1> QED BY <1>1, <1>2, <1>3, <1>4, <1>6, <1>7, <1>8, <1>9, <1>10 DEF ServiceInv

-------------------------------------------------------------------------------
\* The connections, their calls, the ledger and the authority store agree, in
\* every behaviour of the request path.
THEOREM ServiceAgrees == ServiceSpec => []ServiceInv
  <1>1. ServiceInv /\ [ServiceNext]_<<fabricPart, authorityVars, serviceVars>> => ServiceInv'
    BY ServiceKept
  <1> QED BY <1>1, ServiceStarts, PTL DEF ServiceSpec

\* Every variable of the request path keeps to its type.
THEOREM ServiceTyped == ServiceSpec => []ServiceTypeOK
  <1>1. ServiceInv => ServiceTypeOK
    BY DEF ServiceInv, DispatchInv, AuthorityInv, ServiceTypeOK, ExecutorTypeOK
  <1> QED BY <1>1, ServiceAgrees, PTL

\* Concurrent issuers never collide on a generation, and none issues into a
\* reference that was closed meanwhile.
THEOREM IssuersApart == ServiceSpec => []IssueNeverCollides
  <1>1. ServiceInv => IssueNeverCollides
    BY NextIsFresh DEF ServiceInv, AuthorityInv, IssueNeverCollides
  <1> QED BY <1>1, ServiceAgrees, PTL

\* Nothing is executed but under a generation that resolved at some moment
\* after the client sent its request.
THEOREM ExecutedLive == ServiceSpec => []ExecutedUnderLiveAuthority
  <1>1. ServiceInv => ExecutedUnderLiveAuthority
    BY DEF ServiceInv, CallInv, ExecutedUnderLiveAuthority
  <1> QED BY <1>1, ServiceAgrees, PTL

\* A key is executed under the authority it was admitted with, and its outcome
\* is told to requests under that authority only.
THEOREM KeyKeepsAuthority == ServiceSpec => []OneAuthorityPerKey
  <1>1. ASSUME ServiceInv PROVE OneAuthorityPerKey
    <2>1. ASSUME NEW k \in Keys, asked[k] # {} PROVE asked[k] = {rows[k].digest.req}
      BY <1>1, <2>1 DEF ServiceInv, DispatchInv, KeyInv
    <2>2. ASSUME NEW e \in Executors, conn[e].client \in {"SUCCEEDED", "IN_FLIGHT"}
          PROVE  rows[exec[e].key].digest.req = Bound[conn[e].gen]
      <3>1. exec[e].reply \in {"SUCCEEDED", "IN_FLIGHT"} /\ ToldInv(conn[e], exec[e]) /\ HandlerInv(e)
        BY <1>1, <2>2 DEF ServiceInv, ClientInv, DispatchInv
      <3>2. exec[e].key \in Keys
        BY <3>1, NullIsNoAnswer DEF HandlerInv, Replies
      <3> QED BY <3>1, <3>2 DEF ToldInv, AdmittedWith
    <2> QED BY <2>1, <2>2 DEF OneAuthorityPerKey
  <1> QED BY <1>1, ServiceAgrees, PTL

\* What a client concludes from its answer, or from none, is true.
THEOREM ClientsKnow == ServiceSpec => []ConclusionsTruthful
  <1>1. ASSUME ServiceInv PROVE ConclusionsTruthful
    <2> SUFFICES ASSUME NEW e \in Executors
                 PROVE  /\ conn[e].client = "SUCCEEDED" => applied[exec[e].key] = 1
                        /\ conn[e].client \in {"FAILED", "DENIED", "PRE_DISPATCH"} =>
                              \/ exec[e].call = "NONE"
                              \/ applied[exec[e].key] = 0 /\ stray[exec[e].key] = 0
      BY DEF ConclusionsTruthful
    <2>1. HandlerInv(e) /\ ClientInv(conn[e], exec[e]) /\ \A k \in Keys : KeyInv(k)
      BY <1>1 DEF ServiceInv, DispatchInv
    <2>2. exec[e].reply \in Replies => exec[e].key \in Keys
      BY <2>1, NullIsNoAnswer DEF HandlerInv
    <2>3. CASE conn[e].client = "SUCCEEDED"
      <3>1. exec[e].reply = "SUCCEEDED" /\ exec[e].key \in Keys
        BY <2>1, <2>2, <2>3 DEF ClientInv, Replies
      <3> QED BY <2>1, <2>3, <3>1 DEF HandlerInv, KeyInv
    <2>4. CASE conn[e].client \in {"FAILED", "DENIED", "PRE_DISPATCH"} /\ exec[e].call # "NONE"
      <3>1. exec[e].reply \in {"FAILED", "DENIED"} /\ exec[e].key \in Keys
        BY <2>1, <2>2, <2>4 DEF ClientInv, Replies
      <3> QED BY <2>1, <2>4, <3>1 DEF HandlerInv, KeyInv, Dead
    <2> QED BY <2>3, <2>4
  <1> QED BY <1>1, ServiceAgrees, PTL
===============================================================================
