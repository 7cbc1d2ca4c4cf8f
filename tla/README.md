# Crabedence: TLA+ models and proofs

This directory specifies, model-checks and proves properties of the two parts of
Crabedence that keep durable state machines of their own:

- **durable execution**, which decides whether an external effect happens once,
  twice or not at all: the effect ledger (`src/internal/idempotency`), the
  dispatch executor, its provider gate and the service around it
  (`src/internal/execution`), the authority store (`src/internal/authority`),
  admission (`src/internal/capability`) and the reconciliation worker
  (`src/internal/reconcile`);
- the **workspace adapter** (`src/internal/cli/controller_*.go`), which creates
  and destroys paid machines on request and must not forget one.

## 1. The system

A caller submits a request under an idempotency key over a socket. The
**execution service** admits it, resolves the authority it names and binds the
grant's generation into its digest. The **dispatch executor**
reserves the key in the **effect ledger**, crosses a durable dispatch boundary,
calls a provider through a **handler**, stores what the provider said, and
settles the row with a receipt. When it cannot tell what happened, the row goes
to `UNKNOWN` and a **reconciliation worker** asks the provider later.

    client -> ExecutionService -> (Admit, VerifyAuthority <-- AuthorityStore)
                   |
                   v
              DispatchExecutor --(admission, lease, CAS)--> effect ledger
                   |    \--(slot, circuit)--> ProviderGate        ^
                   v                                              |
               handler -> provider <-- resolver <-- ReconcileWorker (claims)

| Component | State | Operations | Interacts through |
|---|---|---|---|
| Effect ledger (`store.go`, `sqlite.go`) | one row per (principal, capability, key): state, digest, lease token, generation and expiry, version, claim, due time, attempts, provider columns, locator, receipt; `cluster_meta`; the event ledger | admission (insert, reclaim, take an unleased row, expire), begin, mark in flight, abandon, finalize, observe, enter recovery, resolve, claim, release, suspend, scrub, epoch advance, end of recovery mode | SQL transactions guarded by state, version, token + generation, and epoch |
| Terminal policy (`evidence_verify.go`) | none | `ValidateTerminalTransition` | called by finalize and resolve |
| Dispatch executor (`dispatch.go`) | one call: what it read, its lease, the handler's answer | `ExecuteWithIdempotency` | ledger, gate, handler goroutine, caller |
| Provider gate (`provider_gate.go`) | slots, wedged count, failure streak, circuit, probe flag | acquire, release, mark wedged, record success or ambiguity | executor goroutine and handler goroutine |
| Reconciliation worker (`worker.go`) | a batch of claimed row copies | claim, resolve, commit, release, recover, scrub | ledger, resolver |
| Supervisor (`supervisor.go`) | cycle times, failure count, readiness | run a cycle per tick, evaluate readiness | worker |
| Authority store (`internal/authority`) | grant generations, closed references | issue, revoke, close, resolve | admission, before the ledger |
| Capability registry and admission (`internal/capability`) | descriptors, availability | admit | executor |
| Service, router, transport, client (`service.go`, `serve.go`, ...) | connections | decode, route, reply | executor |
| Workspace adapter (`controller_service.go`) | one record per workspace in one state file; the durability barrier; running commands; timers; memory of failed revocations | POST, GET and DELETE a workspace, desktop connection, reconcile (provision, watch, stop), restart | state file (write, rename, flush), child commands, HTTP |
| Adapter runner (`controller_subprocess.go`, `controller_acquire_identity.go`) | child processes behind a launch gate and an identity gate | warmup, inspect, stop, list, stop local, desktop | provider, the adapter |
| Evidence receipts (`internal/evidence`) | keys | sign, verify | executor, worker, policy |

The workspace adapter runs one reconcile goroutine per workspace. It saves a
record, then runs a command outside its locks, then saves what the command said.
Creating a machine is three such steps: the attempt is prepared, the child's
launch is recorded, and the child reports the raw identity of the machine and
waits until that is durable. Stopping revokes the desktop bridge, records that a
release was asked for, releases, and waits until the machine has been absent
from the inventory long enough.

The rest of the repository (the other crabbox commands, some eighty machine
providers, the TypeScript coordinator, the NeMo runtime, VM helpers) takes part
in neither. `PROJECT.json` lists every part with the reason it is or is not
modelled.

**What is hard.** Leases, claims and epochs change hands while their former
holder is still running. Every database call can commit without the caller
learning of it. Requests outlive the process that sent them. A handler has a
ceiling, and its answer can come just after. Observations arrive in any order.
Two goroutines share a gate lease. A grant is revoked while a request admitted
under it is under way. A state file is installed but not flushed, and a power
loss takes back what commands already rely on. A provider lists a machine only
some time after it accepted the create. `PROJECT.json` lists these hazards with the
line at which each one bites.

**What makes each part correct.** The ledger: one crossing of the dispatch
boundary and one settlement per key, terminal rows immutable and proven. The
executor: no dispatch that is not on record, no reply the row does not support,
every call returns. The worker: one usable claim per row, bounded lookups, no
settlement that a request still under way can make a lie. The gate: exact
slots, no hanging handler unaccounted for, no circuit that locks itself out.
The authority store: no generation issued twice, none after closure. The
service: no execution without authority that was live when asked, no
conclusion a lost reply makes false. The adapter: no machine and no credential
bridge without a record that still has work to do, nothing a client was told
undone, every workspace settled.

## 2. The modules

| Module | Models | State and actions |
|---|---|---|
| `EffectContract` | what the ledger promises of a key | `phase`; `Admit`, `Dispatch`, `Settle` |
| `EffectStore` | `store.go`, `contract.go`, `evidence_verify.go`, `forensic.go` | `rows`, `nextToken`, `epoch`, `recoveryRequired`, `ledger`. A method `M` is a pair: `CanM` is its WHERE clause, `M` its UPDATE |
| `Provider` | the outside world (external) | `applied`, `rejected`, `stray`, `asked`, `faults`; `StoreCall` is a database call as its caller experiences it |
| `DispatchExecutor` | `dispatch.go` | `exec`; one action per database call or handler event, `pc` naming the next one |
| `ReconcileWorker` | `worker.go` | `work`, `lookups`; one action per database call or provider lookup |
| `EffectFabric` | all of the above around one ledger | fairness, end-to-end properties |
| `ProviderGate` | `provider_gate.go` as `dispatch()` drives it | the counters of one provider, `calls` with an executor half and a handler half |
| `AuthorityStore` | `authority/store.go` | `grants`, `head`, `tx`; an administrative call is `lockAuthorityHead` and a `Commit` or `Rollback` |
| `ExecutionService` | `service.go`, `client.go`, `router.go`, `admission.go`, composed with `DispatchExecutor` and `AuthorityStore` | `conn`, `seen`; one action per step of a connection |
| `ControllerState` | the state file: `updateRecord`, `ensureDurableState`, side-effect cancellation | `rec`, `stable`, `barrier`, `cancelled`; operators for one save |
| `ControllerRunner` | `controller_subprocess.go`, the provider and the bridge (largely external) | `res`, `child`, `bridge`; what commands do outside |
| `ControllerReconcile` | `enqueue`, `reconcile`, `reconcileProvisioning`, the identity gate | `rc` and the scheduling state; an action ends where the code leaves the gate or starts a command |
| `ControllerCleanup` | `reconcileReady`, `stopWorkspace` and what they call | the rest of the goroutine |
| `WorkspaceController` | HTTP handlers, `desktopConnection`, timers, crash, power loss, restart, composed with all of the above | fairness, properties |
| `EffectStoreProofs` | theorems about `EffectStore`: types, states and events, refinement | |
| `EffectRowProofs` | theorems about the columns of a row | extends `EffectStoreProofs` |
| `ExecutorProofs` | lemmas: what one step of an executor does, whoever else uses the ledger | extends `DispatchExecutor`, `EffectRowProofs` |
| `DispatchProofs` | lemmas: ledger, executors and the outside world | extends `ExecutorProofs` |
| `FabricProofs` | theorems about `EffectFabric` | extends `DispatchProofs` |
| `ServiceProofs` | theorems about `AuthorityStore` and `ExecutionService` | extends `DispatchProofs` |
| `GateProofs` | theorems about `ProviderGate` | |
| `ControllerProofs` | theorems about `WorkspaceController` | |
| `MCEffectStore`, `MCEffectFabric`, `MCProviderGate`, `MCExecutionService`, `MCWorkspaceController` | what TLC instantiates | |

Decisions a reader should know:

- **Time.** A lease or claim is `NONE`, `LIVE` or `EXPIRED` and may expire at
  any moment. That includes every timing real clocks can produce, so safety
  does not depend on durations. Renewal moves an expiry that is still in the
  future, so it changes no flag; it appears only in fairness (section 4).
- **Store calls.** `StoreCall` has four outcomes: the write lands; it lands and
  the acknowledgement is lost; its guard matches no row; it never arrives. The
  second and fourth are faults and are counted.
- **Open callers.** `StoreSpec` lets anybody call any method with matching
  credentials, so what is proved of it does not depend on the executor or the
  worker. `UsesTheStore` checks that the fabric is such a caller.
- **Digests.** A digest is the request and whether the descriptor is bound into
  it; rows from an older binary have the legacy form, which never equals the
  bound form. `OldExecutors` run that older binary.
- **Proof.** A receipt carries what it proves (`NONE`, `RESULT`, `COMPLETED`,
  `NO_EFFECT`), who captured it and the provider run. Signatures are assumed to
  be sound.
- **Handlers and resolvers.** The handler is modelled after `github_handler.go`,
  the mutating one that is in production use (the counter and qualification
  handlers serve tests). It does not report an effect that did not happen, nor
  a definitive failure of one that did: a definitive failure is a request that
  was never sent, or one that GitHub rejected with a 4xx status. Anything else it
  reports as not known. That GitHub rejects nothing it carried out is
  assumed. A resolver reports what the provider shows at that instant; an
  operation it does not find is a failure without an artifact, although the
  request may still be travelling.
- **Observations** are the provider run and status. Result bytes and evidence
  digests follow the same fill-but-never-change rule and are left out.
- **Left out** of the executor: PURE and READ capabilities, which bypass the
  ledger; metrics; the wording of errors; dispatch with the ceiling disabled
  (a non-positive `ProviderMaxExecution`), under which `CallsReturn` would not
  hold.
- **Authority.** One reference. A generation is ours, another principal's, or
  ended (revoked or expired: neither is undone and `Resolve` treats them
  alike). All requests carry the same arguments under the same key; what tells
  them apart is the generation bound into the digest. A retry after a reissue is
  therefore a conflict and is denied, as is one after revocation:
  `ConclusionsTruthful` is about the request the answer was given to. Every
  request needs a grant. For a descriptor without `GrantRequired` the service
  skips `VerifyAuthority` and binds generation 0 (`service.go:439`, 462-467);
  only `system.info` (READ) and `system.echo` (PURE) are such, and they bypass
  the ledger.
- **Connections.** The service does not notice when its client gives up, so the
  moment is chosen when the response is delivered. A service that dies is one
  that takes no further step.
- **The state file.** `rec` is the record in memory and in the installed file.
  `stable` is the set of records a power loss may leave: a save that reached the
  rename but not the directory flush adds to it. A process crash keeps `rec`, a
  power loss picks from `stable`. Saves for other workspaces go through the same
  file and raise or clear the same barrier (`OtherSave`).
- **Adapter time** is discrete: ages of recorded instants, counted up to the
  longest timeout compared with them. `TTL` is the effective expiry. Time
  may pass between any two steps, also between an inventory answer and the save
  that records what it said.
- **Commands** take effect at any moment while they run, and also after the
  adapter died, until the next start kills them. They may fail of themselves
  (counted) or because they were cancelled (not counted). Machines appear up to
  `ProviderLag` ticks after the create was accepted. Fixed lease IDs are
  idempotent: the adapter refuses to start for a provider that does not
  guarantee it.
- **Left out** of the adapter: more than one desktop request at a time and the
  limits `desktopSetups` and `MaxConcurrent`; request validation, messages, URLs;
  `markProvisionFailed`, whose branches need an identity that was acknowledged
  and is not on record. A shutdown is a crash.

## 3. The runs

| Run | Bounds | Shows |
|---|---|---|
| `store` | 1 key, 2 provider runs, 2 generations, versions to 7, 2 epochs | `LedgerAgrees`, `LeaseFollowsState`, `SettledIsProven`, `LocatorCoversDispatch`, `SettledForever`, `ObservationMonotone`, `VersionTellsAll`, `TakeoverIsFenced`; the ledger implements `EffectContract` |
| `fabric_takeover` | 2 executors, one old; 1 worker; 2 generations, claims to version 8 | only one executor is ever past the boundary with a key (`OneDispatcher`), and handlers only see the request the row was admitted with (`DispatchIsOnRecord`) |
| `fabric_faults` | 1 executor, 1 worker, 2 requests, 1 fault, 2 attempts, CRITICAL | `AtMostOneEffect`, `SettledTruthfully`, `RepliesTruthful`, `LookupsBounded` under a crash or a lost call anywhere |
| `fabric_settles` | 1 executor, 1 worker, 1 fault, 2 attempts, not CRITICAL, fairness | `DispatchIsSettled`, `CallsReturn`, `SettledTruthfully`, `UsesTheStore` |
| `fabric_workers` | 1 executor, 2 workers (symmetric), 2 epochs, claims to version 6, 2 attempts | `OneClaimHolder`, `StaleProcessesAreFenced` |
| `gate` | 3 calls, 2 slots, circuit opens after 2, fairness | `SlotsExact`, `HangingIsCounted`, `ProbeEnds` |
| `admission` | 2 connections, 2 administrators (both symmetric), 2 generations of one reference, 2 lease generations | `IssueNeverCollides`, `ExecutedUnderLiveAuthority`, `OneAuthorityPerKey`, `ConclusionsTruthful` |
| `controller` | create timeout 3, retry delay 1, provider lag 2, a provider that may lose the machine; 2 save faults, 2 failing commands, 2 crashes or power losses | `NoKnownOrphan`, `LateCreateAwaited`, `IdentityIsDurable`, `ReleaseIsRecorded`, `AcknowledgedIsDurable`, `CommandsAreCurrent` |
| `controller_desktop` | desktop requests, create timeout 2, retry delay 1, TTL 1, saves that may fail for ever, 1 failing command, fairness | `BridgeRevoked`, `NoLostWakeup`, `ExpiredBridgeRevoked` |
| `controller_settles` | desktop requests, create timeout 2, retry delay 1, provider lag 1, a provider that may lose the machine; 1 save fault, 1 failing command, 1 crash, fairness | `StoppingSettles`, `ProvisioningSettles` |

Why the bounds are enough. Rows never refer to each other, so one key shows
everything a key can do; batches of several rows only repeat it. Two
generations are one takeover, and each further one is a takeover from a
holder that is already fenced. Two runs are needed for a contradiction. Two
attempts are needed for a dead letter that is not the first claim; claims to
version 6 are a claim, its expiry and the claim of the other worker, both at
their lookup. A process of an older epoch that tries to take over a lease, which
needs a second generation, is left to the theorem (`StaleFenced`). One fault
puts a failure at every step; an executor still meets the consequences of an
earlier one through expiry, which is not counted. Three calls through two slots
give a full gate, an open circuit and a probe beside a wedged call. Two
generations of a reference are a reissue, two administrators a race, two
connections a retry of the same key. In the adapter, two of each fault let one
strike while the consequences of another are being cleaned up; the liveness runs
take one of each. The retry delay is shorter than the create timeout, as in
the code (a fixed 2 seconds against 60 minutes), so that both clauses of
`StableAbsent` decide; in the `controller` run the lag lies between them, so
that a machine may show up after an absence that is old enough to be believed.

The bounds are `MaxGeneration`, `MaxVersion`, `MaxEpoch`, `MaxFaults`,
`MaxWedged`, `MaxIssued`, `MaxSaveFaults`, `MaxErrors` and `MaxCrashes`. `MaxVersion` bounds claims (in the `store` run releases and
suspensions too) and nothing else; it is out of reach (99) where the attempt
ceiling already bounds the run. Deadlock is
checked in the fabric and adapter runs. It is not in the `store`, `gate` and
`admission` runs: a settled key of an isolated ledger, a gate with every call
hanging, or a service whose connections are all answered really stops.

Two further runs state what the documentation says and find the code doing
something else (`findings` in `PROJECT.json`):

| Run | Property | The code |
|---|---|---|
| `store_recovery_mode` | `RecoveryModeAdmitsNothing` | `acquireUnleased` does not look at `recovery_required`, although `docs/spec/durable-execution-operations.md:131-141` gates every admission on it |
| `controller_late` | `NoOrphan` | `docs/commands/adapter.md:428-432` and `466-469` say that stable absence spans the create timeout, so that a late resource can still be found and stopped; `providerAbsenceNotBefore` (`controller_service.go:2114`) asks the absence to span the retry delay and counts the create timeout from the preparation of the create |

In `controller_late` nothing fails. A DELETE comes while the warmup runs; one
tick after the preparation the provider accepts the create and the child is
cancelled. An inventory without the machine is recorded, and two ticks later,
at the create timeout, confirmed by another. The absence has spanned two ticks
of a create timeout of three. The workspace is declared stopped, and the
machine, listed two ticks after the create at the latest, shows up with nobody
to look for it. The clause of `providerAbsenceNotBefore` that is meant for this
case does what it says (`LateCreateAwaited`), but it measures from too early an
instant. What is left of `NoOrphan` without it is `NoKnownOrphan`: workspaces
whose machine was acknowledged, or for which none was asked. That part needs
nothing of the provider.

Four more disagreements between a document or comment and the code were met
while modelling. They are of less consequence, and are kept as configurations
beside the runs: `tlc -config <cfg> <module>` finds each one violated.

| Configuration, module | Property | The code |
|---|---|---|
| `MCFabricLegacy.cfg`, `MCEffectFabric` | `LegacyRetryCovers` | `dispatch.go:116-117` says the legacy-digest retry covers older records; a row acquired by it is finalized with the bound digest (`dispatch.go:782`) and refused (`store.go:1956`) |
| `MCFabricClaim.cfg`, `MCEffectFabric` | `CommitsUnderClaim` | `docs/architecture/effect-lifecycle.md:58` gives claim ownership as a fence of `ResolveRecovery`; the UPDATE (`store.go:2734`) checks the version, not the claim |
| `MCProviderGateOneProbe.cfg`, `MCProviderGate` | `OneProbe` | `provider_gate.go:175-177` says exactly one probe; the late end of an earlier one (305-307), or another call's outcome (213-224), clears the flag |
| `MCProviderGateWedgedIsRunning.cfg`, `MCProviderGate` | `WedgedIsRunning` | `provider_gate.go:24-26` says wedged calls are still running; `MarkWedged` after `Release` counts a call that is over |

They break no safety property above. In particular `OneClaimHolder`
shows why the missing claim check is harmless (a second claim raises the
version); and `fabric_takeover`, which has an old executor, shows that a legacy
row is still dispatched once and as admitted, its refused receipt costing only a
reconciliation.

`TypeOK` is checked in `store`. The type invariants of the composed modules
(`FabricTypeOK`, `GateTypeOK`, `ServiceTypeOK`, `ControllerTypeOK`) declare their
state for the reader. All five are proved.

Every property has a mutant: a plausible slip in the code, written next to the
definition it changes, under which TLC finds the property violated.

## 4. Fairness

`FairFabricSpec` assumes that a live process makes progress (the executor's own
steps; a worker's cycle, driven by the supervisor's ticker), that a lease or
claim nobody renews runs out (database time passes), and that a backoff
elapses. A heartbeat runs in `dispatch()` from `MarkInFlight` to the return of
the call, and in the worker while it has the job: while one is running, expiry
may happen and need not. Nothing is assumed of callers, the operator, the
provider or strays. A provider may never answer; the ceiling, which is a step
of the executor, ends the call. Faults are finitely many.

`FairController` assumes that the reconcile goroutine and a desktop request are
scheduled, that commands take effect and return, that timers fire, that time
passes and that a dead adapter is started again. The connection slot is a
channel and serves waiters in order, hence strong fairness for taking it. No
client is assumed to send anything. `ExpiredBridgeRevoked` assumes nothing of
the state file: every save may fail.

In `ProviderGate` the executor half of a call goes on; the handler half may
hang for ever, but not between its answer and its deferred `Release`.

## 5. The proofs

Every safety property of the passing runs, invariant or action property, and both
refinements are theorems: they hold for every value of the constants, where the
runs show them on a small instance. The bounds are constants too, so a theorem
covers any number of lease generations, epochs, faults, crashes and failing
saves. `PROJECT.json` pairs each theorem with the property it states.

### What is proved, and along which argument

**The ledger** (`EffectStoreProofs`, `EffectRowProofs`), for any callers.
`LegalMove` tabulates the transitions a row may make and the event each leaves
(the code's `legalTransitions`). `StoreMoves`, from one lemma per group of
methods, shows that a step moves one row along that table (`RowMove`) or leaves
state, receipt, settled provider columns and events of every row alone
(`QuietMove`). `TypeCorrect`, `LedgerSafe`, `SettledStays` and `Refinement` (the
ledger implements `EffectContract`) follow from the table. `RowInv` adds the
columns: lease, locator, receipt, version. Two of its parts serve the induction
only: an absent row is the row nobody wrote, so that an INSERT loses no column,
and no row holds a token that was not handed out, so that a new token differs
from every old one. One lemma per UPDATE statement shows that it keeps `RowInv`
and is a `RowStep`; `LeaseSafe`, `ProofSafe`, `LocatorSafe`, `ObservationsStay`,
`VersionsTell` and `TakeoversFenced` follow.

**Ledger, executors and the world** (`ExecutorProofs`, `DispatchProofs`).
`ExecOK` says which local variables an executor may rely on where its program
counter is, `Advance` where a step may take it. `DispatchInv` ties every claim
about an effect (a handler's answer, a terminal row, a reply) to the world.
`AtMostOneEffect` and `SettledTruthfully` are far from inductive: a row that says
FAILED stays true only if nothing can still apply the effect. `Dead(k)` states
that: the boundary is behind us, nothing was applied, no request is travelling and
nobody is about to send one. `OneBeyond` (no two executors past the boundary
of one key) is what keeps it.

**The fabric** (`FabricProofs`). `FabricInv` adds the workers: their jobs are
copies of rows at a version the row has reached (`WorkerOK`), one worker at most
holds a row at its current version (`OneHolds`), and every lookup, spent or about
to be, was paid for by a claim (`Budget`). Without the last, `LookupsBounded` is
not inductive, since the counter moves when the answer comes and not when the
row is claimed. `FabricUsesStore` shows that every step of the fabric is a step
of the open ledger, so the ledger's theorems hold of it.

**Admission** (`ServiceProofs`). `AuthorityInv` says that the head row is ahead
of every generation issued and that whoever has it locked has read it as it is.
`ServiceInv` adds, per connection, which generation its call is bound to and
what the client may have been told; `DispatchInv` carries over, as the service
touches the ledger only through the executors.

**The gate** (`GateProofs`). `GateInv` counts sets of calls. Between
`MarkWedged`'s flag and its count a release may take a unit off the count that
is added only later, so it is flagged leases that are counted, not hanging ones.
The sets are finite because they grow by one call at a time, although the set of
calls need not be.

**The adapter** (`ControllerProofs`). `ControllerInv` has one part per concern:
what a record on disk may look like and that the installed one is among them
(`FileInv`), what the goroutine may rely on at each point although DELETE and
desktop requests change the record meanwhile (`PcInv`), mutual exclusion on the
connection slot, the child and its command, what clients were told, the bridge,
the wakeups. `FileMoves` shows that every step but the passing of time and a
power loss only adds to what was learnt (`Grows`); most parts then follow from
what few actions begin.

`KnownMachinesStay` (`NoKnownOrphan`) and `LateCreatesAwaited` rest on
`MachineInv`. A machine whose identity is on record is listed as long as it
exists, so that an inventory without it is final, however old it is when it is
used. For a machine nobody acknowledged, no absence on record is older than the
preparation of the create, and one is believed only when the preparation is as
old as the create timeout. All nine theorems hold of any provider: of any lag,
and whether or not it loses machines. `NoOrphan` itself is not a theorem, since
the code does not have it (`controller_late`).

### Assumptions

Named in the modules that declare the constants, and evaluated by TLC in every
run: `StoreConstants`, `ExecutorConstants`, `WorkerConstants`, `GateConstants`,
`AuthorityConstants`, `ControllerTimes`, `RunnerConstants`, `TTLAssumption` and
`ControllerConstants` give the bounds their types (positive where a zero has no
meaning; `RetryDelay` at most `CreateTimeout`). `ProviderConstants` says that the
provider's run is one of the runs. `NullIsNoValue`, `NullIsNoAnswer` and
`NullIsNoJob` say that NULL differs from every value. `ServiceConstants` says that there are as
many requests as generations, since a digest binds the generation. The sets of
keys, executors, workers, connections and calls may be of any size.

### What the proofs changed in the models

- Guards of `CASE` arms that overlapped, which TLC resolves by order and the logic
  does not, were made disjoint.
- `OneAuthorityPerKey` and `ConclusionsTruthful` speak of the key of the call,
  not of any key.
- `NoLostWakeup` had an exception for a desktop request under way. The invariant
  needed for the proof did not, so the exception is gone.
- Updates of several columns of an adapter's record have names (`ToStopping`,
  `LocallyStopped`, ...), which say at each save what is recorded.

### Only model-checked

Liveness: `DispatchIsSettled`, `CallsReturn`, `ProbeEnds`, `StoppingSettles`,
`ProvisioningSettles`, `ExpiredBridgeRevoked`. Fairness and ENABLED are out of
the prover's reach.

## 6. Not modelled, and the plan

Not modelled: result payloads and their canonical form, signatures, schema
migrations, metrics, frames and peer credentials, and everything outside the two
state machines above. By lines that is most of the repository: configuration and
flag handling, some eighty adapters to cloud and VM APIs, SSH and VNC plumbing,
generated clients, the NeMo bindings. Such code calls an API and formats what it
returns; it has no states for a model to explore, and a module written for it
would restate it line by line. The TypeScript coordinator (`worker/`), which
brokers machine leases in a Durable Object, does have such states and is a
project of its own. Reasons for every part are in `PROJECT.json`.

Done, in this order: `EffectContract`, `EffectStore` and its run; `Provider`,
`DispatchExecutor`, `ReconcileWorker` composed in `EffectFabric`;
`ProviderGate`; `EffectStoreProofs`; the workspace adapter; `AuthorityStore` and
`ExecutionService`; the other proofs.

Next:

1. `Supervisor`: cycles, failures and the readiness policy, over an abstract
   worker; that a reconciler which stopped working is eventually reported.
2. `LeaseClock`: an explicit clock and renewal interval behind the
   `LIVE`/`EXPIRED` flags, shown to refine them.
3. Safety behind the liveness runs: what each leads-to property needs at every
   step (a variant that decreases) as an action property that can be proved.
