---------------------------- MODULE EffectContract ----------------------------
(***************************************************************************)
(* What the effect fabric promises of one idempotency key, whatever        *)
(* happens underneath: it is admitted, crosses the dispatch boundary at    *)
(* most once, and from there is settled at most once.  There is no way     *)
(* back over the boundary.  EffectStore implements it.                     *)
(***************************************************************************)
CONSTANT Keys

VARIABLE phase

Phases == {"UNSEEN", "ADMITTED", "DISPATCHED", "COMMITTED", "FAILED"}

Init == phase = [k \in Keys |-> "UNSEEN"]

Advance(k, from, to) ==
    /\ phase[k] = from
    /\ phase' = [phase EXCEPT ![k] = to]

Admit(k)    == Advance(k, "UNSEEN", "ADMITTED")
Dispatch(k) == Advance(k, "ADMITTED", "DISPATCHED")
Settle(k)   == Advance(k, "DISPATCHED", "COMMITTED") \/ Advance(k, "DISPATCHED", "FAILED")

Next == \E k \in Keys : Admit(k) \/ Dispatch(k) \/ Settle(k)

Spec == Init /\ [][Next]_phase
===============================================================================
