----------------------------- MODULE ProviderGate -----------------------------
(***************************************************************************)
(* internal/execution/provider_gate.go for one provider: the bound on      *)
(* concurrent provider calls, the count of wedged calls and the circuit    *)
(* with its probe, driven the way DispatchExecutor.dispatch drives them.    *)
(* A call has two goroutines: the executor's, which waits, gives up at the  *)
(* ceiling and records the outcome, and the handler's, which owns the lease *)
(* until the provider call really ends.  Every step under gate.mu is one    *)
(* action.                                                                  *)
(***************************************************************************)
EXTENDS Naturals, FiniteSets

CONSTANTS CallIds,       \* calls that may be under way at once
          MaxConcurrent, \* dispatch slots
          OpenAfter,     \* consecutive ambiguous outcomes that open the circuit
          MaxWedged      \* bound: no new calls above this wedged count

ASSUME GateConstants ==
    MaxConcurrent \in Nat \ {0} /\ OpenAfter \in Nat \ {0} /\ MaxWedged \in Nat

VARIABLES inFlight, wedged, failures, opened, probeInFlight,
          calls

gateState == <<inFlight, wedged, failures, opened, probeInFlight>>
gateVars  == <<gateState, calls>>

Call == [exec    : {"idle", "held", "waiting", "grace", "wedging", "answered", "gaveUp", "done"},
         handler : {"none", "running", "sent", "released"},
         probe   : BOOLEAN,
         flag    : BOOLEAN]   \* ProviderLease.wedged

\* failures is kept up to OpenAfter: the code only compares it with that.
\* opened is openedAt against the cooldown: zero, recent, or long enough ago.
GateTypeOK ==
    /\ inFlight \in Nat /\ wedged \in Nat
    /\ failures \in 0 .. OpenAfter
    /\ opened \in {"NO", "COOLING", "COOLED"}
    /\ probeInFlight \in BOOLEAN
    /\ calls \in [CallIds -> Call]

NoCall == [exec |-> "idle", handler |-> "none", probe |-> FALSE, flag |-> FALSE]

GateInit ==
    /\ inFlight = 0 /\ wedged = 0 /\ failures = 0
    /\ opened = "NO" /\ probeInFlight = FALSE
    /\ calls = [c \in CallIds |-> NoCall]

Set(c, x) == calls' = [calls EXCEPT ![c] = x]
SetExec(c, pc) == Set(c, [calls[c] EXCEPT !.exec = pc])

-------------------------------------------------------------------------------
(* Admission.                                                              *)

Open == failures = OpenAfter

\* A closed circuit only asks for a slot.
AdmitCall(c) ==
    /\ calls[c].exec = "idle" /\ wedged <= MaxWedged
    /\ ~Open /\ inFlight < MaxConcurrent
    /\ inFlight' = inFlight + 1
    /\ SetExec(c, "held")
    /\ UNCHANGED <<wedged, failures, opened, probeInFlight>>

\* An open one admits a probe after the cooldown.
AdmitProbe(c) ==
    /\ calls[c].exec = "idle" /\ wedged <= MaxWedged
    /\ Open /\ ~probeInFlight /\ opened = "COOLED" /\ inFlight < MaxConcurrent
    /\ inFlight' = inFlight + 1
    /\ probeInFlight' = TRUE
    /\ Set(c, [calls[c] EXCEPT !.exec = "held", !.probe = TRUE])
    /\ UNCHANGED <<wedged, failures, opened>>

CooldownElapses ==
    /\ opened = "COOLING"
    /\ opened' = "COOLED"
    /\ UNCHANGED <<inFlight, wedged, failures, probeInFlight, calls>>

-------------------------------------------------------------------------------
(* The lease.                                                              *)

\* Mutant: every release takes one off the wedged count.
ReleaseUncountsWedged(c) ==
    /\ inFlight' = IF inFlight > 0 THEN inFlight - 1 ELSE 0
    /\ wedged' = IF wedged > 0 THEN wedged - 1 ELSE 0
    /\ probeInFlight' = (probeInFlight /\ ~calls[c].probe)
    /\ UNCHANGED <<failures, opened>>

\* Mutant: a released probe is still taken to be in flight.
ReleaseKeepsProbe(c) ==
    /\ inFlight' = IF inFlight > 0 THEN inFlight - 1 ELSE 0
    /\ wedged' = IF calls[c].flag /\ wedged > 0 THEN wedged - 1 ELSE wedged
    /\ UNCHANGED <<failures, opened, probeInFlight>>

\* Release of c's lease; once.Do makes it happen once per lease.
Release(c) ==
    /\ inFlight' = IF inFlight > 0 THEN inFlight - 1 ELSE 0
    /\ wedged' = IF calls[c].flag /\ wedged > 0 THEN wedged - 1 ELSE wedged
    /\ probeInFlight' = (probeInFlight /\ ~calls[c].probe)
    /\ UNCHANGED <<failures, opened>>

\* Mutant: an early return forgets the lease.
LeakUnused(c) ==
    /\ calls[c].exec = "held"
    /\ Set(c, NoCall)
    /\ UNCHANGED gateState

\* BeginExecution, the locator or MarkInFlight failed, or the deadline had
\* passed: the executor itself releases, and records nothing.
ReleaseUnused(c) ==
    /\ calls[c].exec = "held"
    /\ Release(c)
    /\ Set(c, NoCall)

StartHandler(c) ==
    /\ calls[c].exec = "held"
    /\ Set(c, [calls[c] EXCEPT !.exec = "waiting", !.handler = "running"])
    /\ UNCHANGED gateState

HandlerSends(c) ==
    /\ calls[c].handler = "running"
    /\ Set(c, [calls[c] EXCEPT !.handler = "sent"])
    /\ UNCHANGED gateState

\* The handler goroutine's deferred Release.
HandlerReleases(c) ==
    /\ calls[c].handler = "sent"
    /\ Release(c)
    /\ Set(c, [calls[c] EXCEPT !.handler = "released"])

-------------------------------------------------------------------------------
(* The executor.                                                           *)

ReceiveAnswer(c) ==
    /\ calls[c].exec \in {"waiting", "grace"}
    /\ calls[c].handler \in {"sent", "released"}
    /\ SetExec(c, "answered")
    /\ UNCHANGED gateState

CeilingPasses(c) ==
    /\ calls[c].exec = "waiting"
    /\ SetExec(c, "grace")
    /\ UNCHANGED gateState

\* The grace timer wins the select, even against an answer just sent.
\* MarkWedged's CompareAndSwap comes before its lock.
FlagWedged(c) ==
    /\ calls[c].exec = "grace"
    /\ Set(c, [calls[c] EXCEPT !.exec = "wedging", !.flag = TRUE])
    /\ UNCHANGED gateState

CountWedged(c) ==
    /\ calls[c].exec = "wedging"
    /\ wedged' = wedged + 1
    /\ SetExec(c, "gaveUp")
    /\ UNCHANGED <<inFlight, failures, opened, probeInFlight>>

RecordSuccess(c) ==
    /\ calls[c].exec = "answered"
    /\ failures' = 0 /\ opened' = "NO" /\ probeInFlight' = FALSE
    /\ SetExec(c, "done")
    /\ UNCHANGED <<inFlight, wedged>>

\* An UNKNOWN outcome, or a call that outlived the ceiling.
RecordAmbiguous(c) ==
    /\ calls[c].exec \in {"answered", "gaveUp"}
    /\ failures' = IF failures < OpenAfter THEN failures + 1 ELSE failures
    /\ opened' = IF failures + 1 >= OpenAfter THEN "COOLING" ELSE opened
    /\ probeInFlight' = FALSE
    /\ SetExec(c, "done")
    /\ UNCHANGED <<inFlight, wedged>>

\* Both goroutines are gone.
Forget(c) ==
    /\ calls[c].exec = "done" /\ calls[c].handler = "released"
    /\ Set(c, NoCall)
    /\ UNCHANGED gateState

-------------------------------------------------------------------------------
ExecutorSide(c) ==
    \/ ReleaseUnused(c) \/ StartHandler(c) \/ ReceiveAnswer(c) \/ CeilingPasses(c)
    \/ FlagWedged(c) \/ CountWedged(c) \/ RecordSuccess(c) \/ RecordAmbiguous(c)

HandlerSide(c) == HandlerSends(c) \/ HandlerReleases(c)

GateNext ==
    \/ \E c \in CallIds : AdmitCall(c) \/ AdmitProbe(c) \/ ExecutorSide(c)
                          \/ HandlerSide(c) \/ Forget(c)
    \/ CooldownElapses

\* An executor that holds a lease goes on; a handler goroutine may hang
\* for ever, but not between its answer and its deferred Release.
GateSpec ==
    /\ GateInit /\ [][GateNext]_gateVars
    /\ \A c \in CallIds : WF_gateVars(ExecutorSide(c)) /\ WF_gateVars(HandlerReleases(c))

-------------------------------------------------------------------------------
(* Properties.                                                             *)

Unreleased == {c \in CallIds : calls[c].exec = "held" \/ calls[c].handler \in {"running", "sent"}}
Hanging    == {c \in CallIds : calls[c].handler = "running" /\ calls[c].exec \in {"gaveUp", "done"}}

\* The slot count is exact: no path of a call, wedged or abandoned before
\* dispatch, loses a slot or returns one twice; so no more than
\* MaxConcurrent handler goroutines ever run.
SlotsExact == inFlight = Cardinality(Unreleased) /\ inFlight <= MaxConcurrent

\* A goroutine that outlived its ceiling is never invisible for longer than
\* another call spends inside MarkWedged: the two halves of MarkWedged race
\* with Release, and what that race takes off the count it puts back.
HangingIsCounted ==
    wedged + Cardinality({c \in CallIds : calls[c].exec = "wedging"}) >= Cardinality(Hanging)

\* The circuit cannot lock itself out: a probe under way always ends,
\* whether it answers, hangs or is given up before it starts.
ProbeEnds == probeInFlight ~> ~probeInFlight

\* provider_gate.go, admitLocked: an open provider refuses until the cooldown
\* elapses, then admits exactly one probe.  Probes already given up on as
\* wedged are not held against it.
OneProbe == Cardinality({c \in CallIds :
    /\ calls[c].probe
    /\ \/ calls[c].exec = "held"
       \/ calls[c].exec \in {"waiting", "grace"} /\ calls[c].handler = "running"}) <= 1

\* provider_gate.go: wedged is an explicit count of calls that outlived the
\* ceiling and are still running.
WedgedIsRunning == wedged <= Cardinality({c \in CallIds : calls[c].handler \in {"running", "sent"}})
===============================================================================
