------------------------------ MODULE GateProofs ------------------------------
(***************************************************************************)
(* The provider gate, for any set of calls, any number of slots and any    *)
(* bound on wedged calls.                                                  *)
(*                                                                         *)
(* The counters are exact or safe because every step moves one call only,  *)
(* and moves the counter with it.  The sets that are counted grow from     *)
(* nothing one call at a time, so they are finite although CallIds need    *)
(* not be.                                                                 *)
(***************************************************************************)
EXTENDS ProviderGate, FiniteSetTheorems, TLAPS

\* Inside MarkWedged, between the flag and the count.
Wedging == {c \in CallIds : calls[c].exec = "wedging"}

\* Flagged as wedged, and still holding a slot.
FlaggedUnreleased ==
    {c \in CallIds : calls[c].flag /\ calls[c].handler \in {"running", "sent"}}

\* A handler that runs while its executor has given up was flagged: an
\* executor that has an answer has it from a handler that sent one.
CallOK(x) ==
    /\ x.exec \in {"gaveUp", "wedging"} => x.flag
    /\ x.exec \in {"idle", "held"} => x.handler = "none" /\ ~x.flag
    /\ x.exec \in {"waiting", "grace", "wedging", "gaveUp", "answered", "done"} => x.handler # "none"
    /\ x.exec = "answered" => x.handler # "running"
    /\ x.exec = "done" /\ x.handler = "running" => x.flag

\* The release of a flagged lease may find the flag not counted yet; what it
\* then takes off the count, a call inside MarkWedged is about to add.  So it
\* is flagged leases that are counted, not hanging ones.
GateInv ==
    /\ GateTypeOK
    /\ \A c \in CallIds : CallOK(calls[c])
    /\ IsFiniteSet(Unreleased) /\ IsFiniteSet(Wedging)
    /\ inFlight = Cardinality(Unreleased) /\ inFlight <= MaxConcurrent
    /\ wedged + Cardinality(Wedging) >= Cardinality(FlaggedUnreleased)

-------------------------------------------------------------------------------
\* A finite set that a call joins counts one more.
LEMMA OneMore ==
    ASSUME NEW S, NEW T, NEW c, IsFiniteSet(S), c \notin S, T = S \cup {c}
    PROVE  IsFiniteSet(T) /\ Cardinality(T) = Cardinality(S) + 1 /\ Cardinality(S) \in Nat
  BY FS_AddElement, FS_CardinalityType

\* A finite set that a call leaves counts one less.
LEMMA OneLess ==
    ASSUME NEW S, NEW T, NEW c, IsFiniteSet(S), c \in S, T = S \ {c}
    PROVE  /\ IsFiniteSet(T) /\ Cardinality(T) = Cardinality(S) - 1
           /\ Cardinality(S) \in Nat /\ Cardinality(T) \in Nat
  BY FS_RemoveElement, FS_CardinalityType

\* The wedged count keeps up when no call enters MarkWedged.
LEMMA Balance ==
    ASSUME NEW m \in Nat, NEW n \in Nat, NEW f \in Nat, NEW g \in Nat, NEW w \in Nat, NEW v \in Nat,
           m + w >= f, n >= m, v = w, g <= f
    PROVE  n + v >= g
  OBVIOUS

\* The wedged count keeps up when one more call is flagged: it is counted as
\* inside MarkWedged.
LEMMA BalanceOne ==
    ASSUME NEW m \in Nat, NEW n \in Nat, NEW f \in Nat, NEW g \in Nat, NEW w \in Nat,
           m + w >= f, n >= m, g <= f + 1
    PROVE  n + (w + 1) >= g
  OBVIOUS

\* The counted sets, of one call.
InUnreleased(x) == x.exec = "held" \/ x.handler \in {"running", "sent"}
InFlagged(x)    == x.flag /\ x.handler \in {"running", "sent"}

\* A set follows the call that moved: it joins, leaves or stays.
Follows(S, T, c, before, after) ==
    /\ before /\ ~after => c \in S /\ T = S \ {c}
    /\ ~before /\ after => c \notin S /\ T = S \cup {c}
    /\ (before <=> after) => T = S

\* A step that moves call c from x to y moves it in the counted sets, no other.
LEMMA CallMoves ==
    ASSUME GateTypeOK, NEW c \in CallIds, NEW y \in Call, Set(c, y)
    PROVE  /\ Follows(Unreleased, Unreleased', c, InUnreleased(calls[c]), InUnreleased(y))
           /\ Follows(Wedging, Wedging', c, calls[c].exec = "wedging", y.exec = "wedging")
           /\ Follows(FlaggedUnreleased, FlaggedUnreleased', c, InFlagged(calls[c]), InFlagged(y))
           /\ calls' \in [CallIds -> Call]
           /\ calls'[c] = y /\ \A d \in CallIds \ {c} : calls'[d] = calls[d]
  <1>1. calls \in [CallIds -> Call]
    BY DEF GateTypeOK
  <1>2. /\ calls' \in [CallIds -> Call]
        /\ calls'[c] = y /\ \A d \in CallIds \ {c} : calls'[d] = calls[d]
    BY <1>1 DEF Set
  <1>3. Follows(Unreleased, Unreleased', c, InUnreleased(calls[c]), InUnreleased(y))
    BY <1>2 DEF Follows, Unreleased, InUnreleased
  <1>4. Follows(Wedging, Wedging', c, calls[c].exec = "wedging", y.exec = "wedging")
    BY <1>2 DEF Follows, Wedging
  <1>5. Follows(FlaggedUnreleased, FlaggedUnreleased', c, InFlagged(calls[c]), InFlagged(y))
    BY <1>2 DEF Follows, FlaggedUnreleased, InFlagged
  <1> QED BY <1>2, <1>3, <1>4, <1>5

\* What a move from x to y does to the counters, as the gate keeps them.
Counted(x, y) ==
    /\ inFlight' = (IF InUnreleased(x) THEN inFlight - 1 ELSE inFlight)
                   + (IF InUnreleased(y) THEN 1 ELSE 0)
    /\ InUnreleased(y) /\ ~InUnreleased(x) => inFlight < MaxConcurrent
    /\ wedged' \in Nat
    /\ InFlagged(y) /\ ~InFlagged(x) => y.exec = "wedging" /\ x.exec # "wedging"
    /\ x.exec # "wedging" \/ y.exec = "wedging" =>
          wedged' >= wedged \/ (InFlagged(x) /\ ~InFlagged(y) /\ wedged' = wedged - 1)
    /\ x.exec = "wedging" /\ y.exec # "wedging" => wedged' = wedged + 1

\* A counted move keeps the invariant.
LEMMA MoveKept ==
    ASSUME GateInv, NEW c \in CallIds, NEW y \in Call, Set(c, y), CallOK(y),
           Counted(calls[c], y),
           failures' \in 0 .. OpenAfter, opened' \in {"NO", "COOLING", "COOLED"},
           probeInFlight' \in BOOLEAN
    PROVE  GateInv'
  <1> DEFINE x == calls[c]
             U == Unreleased  V == Unreleased'
             W == Wedging     X == Wedging'
             F == FlaggedUnreleased  G == FlaggedUnreleased'
  <1>1. GateTypeOK /\ x \in Call
    BY DEF GateInv, GateTypeOK
  <1>2. /\ Follows(U, V, c, InUnreleased(x), InUnreleased(y))
        /\ Follows(W, X, c, x.exec = "wedging", y.exec = "wedging")
        /\ Follows(F, G, c, InFlagged(x), InFlagged(y))
        /\ calls' \in [CallIds -> Call]
        /\ calls'[c] = y /\ \A d \in CallIds \ {c} : calls'[d] = calls[d]
    BY <1>1, CallMoves
  <1>3. \A d \in CallIds : CallOK(calls'[d])
    BY <1>2 DEF GateInv
  <1>4. IsFiniteSet(U) /\ IsFiniteSet(W) /\ inFlight = Cardinality(U) /\ inFlight <= MaxConcurrent
        /\ wedged + Cardinality(W) >= Cardinality(F)
    BY DEF GateInv
  <1>5. F \subseteq U /\ IsFiniteSet(F)
    <2>1. F \subseteq U
      BY DEF Unreleased, FlaggedUnreleased
    <2> QED BY <2>1, <1>4, FS_Subset
  <1>6. /\ inFlight \in Nat /\ wedged \in Nat /\ MaxConcurrent \in Nat
        /\ wedged' \in Nat
    BY GateConstants DEF GateInv, GateTypeOK, Counted
  <1> HIDE DEF x, U, V, W, X, F, G
  <1>7. /\ IsFiniteSet(V) /\ inFlight' = Cardinality(V) /\ inFlight' <= MaxConcurrent
        /\ inFlight' \in Nat
    <2>0. Counted(x, y)
      BY DEF x
    <2>1. CASE InUnreleased(x) /\ ~InUnreleased(y)
      <3>1. IsFiniteSet(V) /\ Cardinality(V) = Cardinality(U) - 1 /\ Cardinality(V) \in Nat
        BY <2>1, <1>2, <1>4, OneLess DEF Follows
      <3> QED BY <2>0, <2>1, <3>1, <1>4, <1>6 DEF Counted
    <2>2. CASE ~InUnreleased(x) /\ InUnreleased(y)
      <3>1. IsFiniteSet(V) /\ Cardinality(V) = Cardinality(U) + 1
        BY <2>2, <1>2, <1>4, OneMore DEF Follows
      <3> QED BY <2>0, <2>2, <3>1, <1>4, <1>6 DEF Counted
    <2>3. CASE InUnreleased(x) <=> InUnreleased(y)
      <3>1. V = U
        BY <2>3, <1>2 DEF Follows
      <3>2. inFlight' = inFlight
        BY <2>0, <2>3, <1>6 DEF Counted
      <3> QED BY <3>1, <3>2, <1>4, <1>6
    <2> QED BY <2>1, <2>2, <2>3
  <1>8. /\ IsFiniteSet(X) /\ Cardinality(X) \in Nat /\ Cardinality(W) \in Nat
        /\ (x.exec = "wedging" /\ y.exec # "wedging" => Cardinality(X) = Cardinality(W) - 1)
        /\ (x.exec # "wedging" /\ y.exec = "wedging" => Cardinality(X) = Cardinality(W) + 1)
        /\ ((x.exec = "wedging" <=> y.exec = "wedging") => Cardinality(X) = Cardinality(W))
    <2>1. CASE x.exec = "wedging" /\ y.exec # "wedging"
      BY <2>1, <1>2, <1>4, OneLess DEF Follows
    <2>2. CASE x.exec # "wedging" /\ y.exec = "wedging"
      <3>1. IsFiniteSet(X) /\ Cardinality(X) = Cardinality(W) + 1 /\ Cardinality(W) \in Nat
        BY <2>2, <1>2, <1>4, OneMore DEF Follows
      <3> QED BY <2>2, <3>1
    <2>3. CASE x.exec = "wedging" <=> y.exec = "wedging"
      BY <2>3, <1>2, <1>4, FS_CardinalityType DEF Follows
    <2> QED BY <2>1, <2>2, <2>3
  <1>9. /\ Cardinality(F) \in Nat /\ Cardinality(G) \in Nat
        /\ (InFlagged(x) /\ ~InFlagged(y) => Cardinality(G) = Cardinality(F) - 1)
        /\ (~InFlagged(x) /\ InFlagged(y) => Cardinality(G) = Cardinality(F) + 1)
        /\ ((InFlagged(x) <=> InFlagged(y)) => Cardinality(G) = Cardinality(F))
    <2>1. CASE InFlagged(x) /\ ~InFlagged(y)
      BY <2>1, <1>2, <1>5, OneLess DEF Follows
    <2>2. CASE ~InFlagged(x) /\ InFlagged(y)
      <3>1. Cardinality(G) = Cardinality(F) + 1 /\ Cardinality(F) \in Nat
        BY <2>2, <1>2, <1>5, OneMore DEF Follows
      <3> QED BY <2>2, <3>1
    <2>3. CASE InFlagged(x) <=> InFlagged(y)
      BY <2>3, <1>2, <1>5, FS_CardinalityType DEF Follows
    <2> QED BY <2>1, <2>2, <2>3
  <1>10. wedged' + Cardinality(X) >= Cardinality(G)
    <2>0. Counted(x, y)
      BY DEF x
    <2>1. /\ InFlagged(y) /\ ~InFlagged(x) => y.exec = "wedging" /\ x.exec # "wedging"
          /\ x.exec # "wedging" \/ y.exec = "wedging" =>
                wedged' >= wedged \/ (InFlagged(x) /\ ~InFlagged(y) /\ wedged' = wedged - 1)
          /\ x.exec = "wedging" /\ y.exec # "wedging" => wedged' = wedged + 1
      BY <2>0 DEF Counted
    <2> DEFINE a == InFlagged(x)  b == InFlagged(y)
               f == Cardinality(F) g == Cardinality(G) w == Cardinality(W) v == Cardinality(X)
    <2> HIDE DEF a, b, f, g, w, v
    <2>2. f \in Nat /\ g \in Nat /\ w \in Nat /\ v \in Nat /\ wedged + w >= f
      BY <1>4, <1>8, <1>9 DEF f, g, w, v
    <2>3. CASE x.exec = "wedging" /\ y.exec # "wedging"
      <3>1. v = w - 1 /\ wedged' = wedged + 1 /\ g <= f
        BY <2>1, <2>3, <1>8, <1>9 DEF f, g, w, v
      <3>2. wedged' + v >= g
        BY <3>1, <2>2, <1>6
      <3> QED BY <3>2 DEF v, g
    <2>4. CASE x.exec # "wedging" /\ y.exec = "wedging"
      <3>1. v = w + 1 /\ ((wedged' >= wedged /\ g <= f + 1) \/ (wedged' = wedged - 1 /\ g = f - 1))
        BY <2>1, <2>4, <1>8, <1>9 DEF f, g, w, v
      <3>2. wedged' + v >= g
        <4>0. v = w + 1
          BY <3>1
        <4>1. CASE wedged' >= wedged /\ g <= f + 1
          <5>1. wedged' + (w + 1) >= g
            BY ONLY <2>2, <1>6, <4>1, BalanceOne
          <5> QED BY <4>0, <5>1
        <4>2. CASE wedged' = wedged - 1 /\ g = f - 1
          BY <4>0, <2>2, <1>6, <4>2
        <4> QED BY <3>1, <2>2, <4>1, <4>2
      <3> QED BY <3>2 DEF v, g
    <2>5. CASE x.exec = "wedging" <=> y.exec = "wedging"
      <3>1. v = w /\ ((wedged' >= wedged /\ g <= f) \/ (wedged' = wedged - 1 /\ g = f - 1))
        BY <2>1, <2>5, <1>8, <1>9 DEF f, g, w, v
      <3>2. wedged' + v >= g
        <4>0. v = w
          BY <3>1, <2>2
        <4>1. CASE wedged' >= wedged /\ g <= f
          BY <4>0, <2>2, <1>6, <4>1, Balance
        <4>2. CASE wedged' = wedged - 1 /\ g = f - 1
          BY <4>0, <2>2, <1>6, <4>2
        <4> QED BY <3>1, <2>2, <4>1, <4>2
      <3> QED BY <3>2 DEF v, g
    <2> QED BY <2>3, <2>4, <2>5
  <1>11. GateTypeOK'
    BY <1>2, <1>6, <1>7 DEF GateTypeOK
  <1> QED BY <1>3, <1>7, <1>8, <1>10, <1>11 DEF GateInv, V, X, G

\* A lease that is held has a slot to give back.
LEMMA HasSlot ==
    ASSUME GateInv, NEW c \in CallIds, InUnreleased(calls[c])
    PROVE  inFlight > 0
  <1>1. c \in Unreleased /\ IsFiniteSet(Unreleased) /\ inFlight = Cardinality(Unreleased)
    BY DEF GateInv, Unreleased, InUnreleased
  <1>2. Cardinality(Unreleased) # 0 /\ Cardinality(Unreleased) \in Nat
    BY <1>1, FS_EmptySet, FS_CardinalityType
  <1> QED BY <1>1, <1>2

\* Admission takes a slot, and is refused when there is none.
LEMMA AdmitKept ==
    ASSUME GateInv, NEW c \in CallIds, AdmitCall(c) \/ AdmitProbe(c)
    PROVE  GateInv'
  <1>1. GateTypeOK /\ calls[c] \in Call /\ CallOK(calls[c]) /\ inFlight \in Nat /\ wedged \in Nat
    BY DEF GateInv, GateTypeOK
  <1>2. PICK y \in Call : /\ Set(c, y) /\ y.exec = "held" /\ y.handler = calls[c].handler
                          /\ y.flag = calls[c].flag
    <2>1. CASE AdmitCall(c)
      <3> DEFINE y == [calls[c] EXCEPT !.exec = "held"]
      <3>1. y \in Call /\ y.exec = "held" /\ y.handler = calls[c].handler /\ y.flag = calls[c].flag
        BY <1>1 DEF Call
      <3>2. Set(c, y)
        BY <2>1 DEF AdmitCall, SetExec
      <3> HIDE DEF y
      <3> QED BY <3>1, <3>2
    <2>2. CASE AdmitProbe(c)
      <3> DEFINE y == [calls[c] EXCEPT !.exec = "held", !.probe = TRUE]
      <3>1. y \in Call /\ y.exec = "held" /\ y.handler = calls[c].handler /\ y.flag = calls[c].flag
        BY <1>1 DEF Call
      <3>2. Set(c, y)
        BY <2>2 DEF AdmitProbe
      <3> HIDE DEF y
      <3> QED BY <3>1, <3>2
    <2> QED BY <2>1, <2>2
  <1>3. /\ calls[c].exec = "idle" /\ inFlight < MaxConcurrent /\ inFlight' = inFlight + 1
        /\ wedged' = wedged
        /\ failures' = failures /\ opened' = opened
        /\ probeInFlight' \in BOOLEAN
    BY <1>1 DEF AdmitCall, AdmitProbe, GateTypeOK
  <1>4. CallOK(y) /\ ~InUnreleased(calls[c]) /\ InUnreleased(y) /\ ~InFlagged(calls[c]) /\ ~InFlagged(y)
    BY <1>1, <1>2, <1>3 DEF CallOK, InUnreleased, InFlagged
  <1>5. Counted(calls[c], y)
    BY <1>1, <1>2, <1>3, <1>4 DEF Counted
  <1> QED BY <1>1, <1>2, <1>3, <1>4, <1>5, MoveKept DEF GateTypeOK

\* Release gives the slot back, and takes off the count of wedged calls what
\* the flag says it was counted as.
LEMMA ReleaseKept ==
    ASSUME GateInv, NEW c \in CallIds, ReleaseUnused(c) \/ HandlerReleases(c)
    PROVE  GateInv'
  <1>1. GateTypeOK /\ calls[c] \in Call /\ CallOK(calls[c]) /\ inFlight \in Nat /\ wedged \in Nat
    BY DEF GateInv, GateTypeOK
  <1>2. PICK y \in Call : /\ Set(c, y) /\ CallOK(y) /\ ~InUnreleased(y) /\ ~InFlagged(y)
                          /\ (calls[c].exec = "wedging" <=> y.exec = "wedging")
    <2>1. CASE ReleaseUnused(c)
      <3>1. NoCall \in Call /\ Set(c, NoCall) /\ calls[c].exec # "wedging"
        BY <2>1 DEF ReleaseUnused, NoCall, Call
      <3> QED BY <3>1 DEF NoCall, CallOK, InUnreleased, InFlagged
    <2>2. CASE HandlerReleases(c)
      <3> DEFINE y == [calls[c] EXCEPT !.handler = "released"]
      <3>1. y \in Call /\ Set(c, y) /\ calls[c].handler = "sent" /\ y.handler = "released"
            /\ y.exec = calls[c].exec /\ y.flag = calls[c].flag
        BY <1>1, <2>2 DEF HandlerReleases, Call
      <3> HIDE DEF y
      <3>2. CallOK(y) /\ ~InUnreleased(y) /\ ~InFlagged(y)
        BY <3>1, <1>1 DEF CallOK, InUnreleased, InFlagged
      <3> QED BY <3>1, <3>2
    <2> QED BY <2>1, <2>2
  <1>3. InUnreleased(calls[c]) /\ inFlight > 0
    <2>1. InUnreleased(calls[c])
      BY DEF ReleaseUnused, HandlerReleases, InUnreleased
    <2> QED BY <2>1, HasSlot
  <1>4. Release(c)
    BY DEF ReleaseUnused, HandlerReleases
  <1>5. /\ inFlight' = inFlight - 1 /\ wedged' \in Nat
        /\ wedged' = wedged \/ (calls[c].flag /\ wedged' = wedged - 1)
        /\ failures' = failures /\ opened' = opened /\ probeInFlight' \in BOOLEAN
    BY <1>1, <1>3, <1>4 DEF Release, GateTypeOK
  <1>6. calls[c].flag => InFlagged(calls[c])
    BY <1>1, <1>3 DEF CallOK, InUnreleased, InFlagged
  <1>7. Counted(calls[c], y)
    BY <1>1, <1>2, <1>3, <1>5, <1>6 DEF Counted
  <1> QED BY <1>1, <1>2, <1>5, <1>7, MoveKept DEF GateTypeOK

\* The steps of a handler or an executor that leave the counters alone.
LEMMA QuietKept ==
    ASSUME GateInv, NEW c \in CallIds,
           \/ StartHandler(c) \/ HandlerSends(c) \/ ReceiveAnswer(c) \/ CeilingPasses(c)
           \/ FlagWedged(c) \/ RecordSuccess(c) \/ RecordAmbiguous(c) \/ Forget(c)
    PROVE  GateInv'
  <1>1. GateTypeOK /\ calls[c] \in Call /\ CallOK(calls[c]) /\ inFlight \in Nat /\ wedged \in Nat
    BY DEF GateInv, GateTypeOK
  <1>2. /\ inFlight' = inFlight /\ wedged' = wedged
        /\ failures' \in 0 .. OpenAfter /\ opened' \in {"NO", "COOLING", "COOLED"}
        /\ probeInFlight' \in BOOLEAN
    <2>1. CASE RecordSuccess(c)
      <3>1. 0 \in 0 .. OpenAfter
        BY GateConstants
      <3> QED BY <2>1, <3>1 DEF RecordSuccess
    <2>2. CASE RecordAmbiguous(c)
      <3>1. failures' \in 0 .. OpenAfter
        BY <1>1, <2>2, GateConstants DEF RecordAmbiguous, GateTypeOK
      <3>2. opened' \in {"NO", "COOLING", "COOLED"}
        BY <1>1, <2>2 DEF RecordAmbiguous, GateTypeOK
      <3> QED BY <2>2, <3>1, <3>2 DEF RecordAmbiguous
    <2>3. CASE \/ StartHandler(c) \/ HandlerSends(c) \/ ReceiveAnswer(c) \/ CeilingPasses(c)
               \/ FlagWedged(c) \/ Forget(c)
      <3>1. UNCHANGED gateState
        BY <2>3 DEF StartHandler, HandlerSends, ReceiveAnswer, CeilingPasses, FlagWedged, Forget
      <3> QED BY <1>1, <3>1 DEF gateState, GateTypeOK
    <2> QED BY <2>1, <2>2, <2>3
  <1> DEFINE Quiet(y) == /\ y \in Call /\ Set(c, y) /\ CallOK(y)
                         /\ (InUnreleased(y) <=> InUnreleased(calls[c]))
                         /\ InFlagged(y) /\ ~InFlagged(calls[c]) => y.exec = "wedging"
                         /\ InFlagged(calls[c]) => InFlagged(y)
                         /\ calls[c].exec # "wedging" \/ y.exec = "wedging"
                         /\ calls[c].exec = "wedging" => (InFlagged(y) <=> InFlagged(calls[c]))
  <1>3. \E y : Quiet(y)
    <2>1. CASE Forget(c)
      <3>1. NoCall \in Call /\ Set(c, NoCall) /\ calls[c].exec = "done" /\ calls[c].handler = "released"
        BY <2>1 DEF Forget, NoCall, Call
      <3>2. Quiet(NoCall)
        BY <3>1 DEF NoCall, CallOK, InUnreleased, InFlagged
      <3> QED BY <3>2
    <2>2. ASSUME NEW pc \in {"answered", "grace", "done"},
                 SetExec(c, pc), calls[c].exec # "wedging",
                 calls[c].exec \in {"waiting", "grace", "answered", "gaveUp"},
                 pc = "answered" => calls[c].handler # "running",
                 pc = "done" => calls[c].exec \in {"answered", "gaveUp"}
          PROVE  \E y : Quiet(y)
      <3> DEFINE y == [calls[c] EXCEPT !.exec = pc]
      <3>1. y \in Call /\ Set(c, y) /\ y.exec = pc /\ y.handler = calls[c].handler
            /\ y.flag = calls[c].flag
        BY <1>1, <2>2 DEF SetExec, Call
      <3> HIDE DEF y
      <3>2. Quiet(y)
        BY <1>1, <2>2, <3>1 DEF CallOK, InUnreleased, InFlagged
      <3> QED BY <3>2
    <2>3. CASE ReceiveAnswer(c) \/ CeilingPasses(c) \/ RecordSuccess(c) \/ RecordAmbiguous(c)
      <3>1. CASE ReceiveAnswer(c)
        BY <2>2, <3>1 DEF ReceiveAnswer
      <3>2. CASE CeilingPasses(c)
        BY <2>2, <3>2 DEF CeilingPasses
      <3>3. CASE RecordSuccess(c)
        BY <2>2, <3>3 DEF RecordSuccess
      <3>4. CASE RecordAmbiguous(c)
        BY <2>2, <3>4 DEF RecordAmbiguous
      <3> QED BY <2>3, <3>1, <3>2, <3>3, <3>4
    <2>4. CASE StartHandler(c)
      <3> DEFINE y == [calls[c] EXCEPT !.exec = "waiting", !.handler = "running"]
      <3>1. y \in Call /\ Set(c, y) /\ y.exec = "waiting" /\ y.handler = "running"
            /\ y.flag = calls[c].flag /\ calls[c].exec = "held"
        BY <1>1, <2>4 DEF StartHandler, Call
      <3> HIDE DEF y
      <3>2. Quiet(y)
        BY <1>1, <3>1 DEF CallOK, InUnreleased, InFlagged
      <3> QED BY <3>2
    <2>5. CASE HandlerSends(c)
      <3> DEFINE y == [calls[c] EXCEPT !.handler = "sent"]
      <3>1. y \in Call /\ Set(c, y) /\ y.exec = calls[c].exec /\ y.handler = "sent"
            /\ y.flag = calls[c].flag /\ calls[c].handler = "running"
        BY <1>1, <2>5 DEF HandlerSends, Call
      <3> HIDE DEF y
      <3>2. Quiet(y)
        BY <1>1, <3>1 DEF CallOK, InUnreleased, InFlagged
      <3> QED BY <3>2
    <2>6. CASE FlagWedged(c)
      <3> DEFINE y == [calls[c] EXCEPT !.exec = "wedging", !.flag = TRUE]
      <3>1. y \in Call /\ Set(c, y) /\ y.exec = "wedging" /\ y.handler = calls[c].handler
            /\ y.flag = TRUE /\ calls[c].exec = "grace"
        BY <1>1, <2>6 DEF FlagWedged, Call
      <3> HIDE DEF y
      <3>2. Quiet(y)
        BY <1>1, <3>1 DEF CallOK, InUnreleased, InFlagged
      <3> QED BY <3>2
    <2> QED BY <2>1, <2>3, <2>4, <2>5, <2>6
  <1>4. PICK y : Quiet(y)
    BY <1>3
  <1>5. Counted(calls[c], y)
    BY <1>1, <1>2, <1>4 DEF Counted
  <1> QED BY <1>2, <1>4, <1>5, MoveKept

\* The second half of MarkWedged.
LEMMA CountKept ==
    ASSUME GateInv, NEW c \in CallIds, CountWedged(c)
    PROVE  GateInv'
  <1>1. GateTypeOK /\ calls[c] \in Call /\ CallOK(calls[c]) /\ inFlight \in Nat /\ wedged \in Nat
    BY DEF GateInv, GateTypeOK
  <1> DEFINE y == [calls[c] EXCEPT !.exec = "gaveUp"]
  <1>2. y \in Call /\ Set(c, y) /\ y.exec = "gaveUp" /\ y.handler = calls[c].handler
        /\ y.flag = calls[c].flag
    BY <1>1 DEF CountWedged, SetExec, Call
  <1> HIDE DEF y
  <1>3. /\ calls[c].exec = "wedging" /\ inFlight' = inFlight /\ wedged' = wedged + 1
        /\ failures' = failures /\ opened' = opened /\ probeInFlight' = probeInFlight
    BY DEF CountWedged
  <1>4. CallOK(y) /\ (InUnreleased(y) <=> InUnreleased(calls[c])) /\ (InFlagged(y) <=> InFlagged(calls[c]))
    BY <1>1, <1>2, <1>3 DEF CallOK, InUnreleased, InFlagged
  <1>5. Counted(calls[c], y)
    BY <1>1, <1>2, <1>3, <1>4 DEF Counted
  <1> QED BY <1>1, <1>2, <1>3, <1>4, <1>5, MoveKept DEF GateTypeOK

\* A step that touches no counter and no call.
LEMMA GateStutters ==
    ASSUME GateInv, UNCHANGED <<inFlight, wedged, failures, probeInFlight, calls>>,
           opened' \in {"NO", "COOLING", "COOLED"}
    PROVE  GateInv'
  <1>1. Unreleased' = Unreleased /\ Wedging' = Wedging /\ FlaggedUnreleased' = FlaggedUnreleased
    BY DEF Unreleased, Wedging, FlaggedUnreleased
  <1> QED BY <1>1 DEF GateInv, GateTypeOK

\* The gate starts with no call and nothing counted.
LEMMA GateStarts == GateInit => GateInv
  <1> SUFFICES ASSUME GateInit PROVE GateInv
    OBVIOUS
  <1>1. NoCall \in Call /\ CallOK(NoCall)
    BY DEF NoCall, Call, CallOK
  <1>2. Unreleased = {} /\ Wedging = {} /\ FlaggedUnreleased = {}
    BY DEF GateInit, NoCall, Unreleased, Wedging, FlaggedUnreleased
  <1>3. Cardinality({}) = 0 /\ IsFiniteSet({})
    BY FS_EmptySet
  <1>4. GateTypeOK
    <2>1. calls \in [CallIds -> Call]
      BY <1>1 DEF GateInit
    <2>2. 0 \in Nat /\ 0 \in 0 .. OpenAfter
      BY GateConstants
    <2> QED BY <2>1, <2>2 DEF GateInit, GateTypeOK
  <1> QED BY <1>1, <1>2, <1>3, <1>4, GateConstants DEF GateInit, GateInv

\* Every step of the gate keeps the invariant.
LEMMA GateKept ==
    ASSUME GateInv, [GateNext]_gateVars
    PROVE  GateInv'
  <1>1. CASE UNCHANGED gateVars
    BY <1>1, GateStutters DEF gateVars, gateState, GateInv, GateTypeOK
  <1>2. CASE CooldownElapses
    BY <1>2, GateStutters DEF CooldownElapses
  <1>3. ASSUME NEW c \in CallIds, AdmitCall(c) \/ AdmitProbe(c)
        PROVE  GateInv'
    BY <1>3, AdmitKept
  <1>4. ASSUME NEW c \in CallIds, ExecutorSide(c) \/ HandlerSide(c) \/ Forget(c)
        PROVE  GateInv'
    <2>1. CASE ReleaseUnused(c) \/ HandlerReleases(c)
      BY <2>1, ReleaseKept
    <2>2. CASE CountWedged(c)
      BY <2>2, CountKept
    <2>3. CASE \/ StartHandler(c) \/ HandlerSends(c) \/ ReceiveAnswer(c) \/ CeilingPasses(c)
               \/ FlagWedged(c) \/ RecordSuccess(c) \/ RecordAmbiguous(c) \/ Forget(c)
      BY <2>3, QuietKept
    <2> QED BY <1>4, <2>1, <2>2, <2>3 DEF ExecutorSide, HandlerSide
  <1> QED BY <1>1, <1>2, <1>3, <1>4 DEF GateNext

-------------------------------------------------------------------------------
\* The gate's counters and the calls under way agree, for every interleaving of
\* executors and handler goroutines.
THEOREM GateAgrees == GateSpec => []GateInv
  <1>1. GateInv /\ [GateNext]_gateVars => GateInv'
    BY GateKept
  <1> QED BY <1>1, GateStarts, PTL DEF GateSpec

\* The slot count is the number of leases held, and never above MaxConcurrent.
THEOREM SlotsAreExact == GateSpec => []SlotsExact
  <1>1. GateInv => SlotsExact
    BY DEF GateInv, SlotsExact
  <1> QED BY <1>1, GateAgrees, PTL

\* Every handler that outlived its ceiling is counted, or about to be made up
\* for by a call that is inside MarkWedged.
THEOREM HangingCounted == GateSpec => []HangingIsCounted
  <1>1. ASSUME GateInv PROVE HangingIsCounted
    <2>1. Hanging \subseteq FlaggedUnreleased /\ FlaggedUnreleased \subseteq Unreleased
      BY <1>1 DEF GateInv, GateTypeOK, Call, CallOK, Hanging, FlaggedUnreleased, Unreleased
    <2>2. IsFiniteSet(FlaggedUnreleased)
      BY <1>1, <2>1, FS_Subset DEF GateInv
    <2>3. /\ Cardinality(Hanging) <= Cardinality(FlaggedUnreleased)
          /\ Cardinality(Hanging) \in Nat /\ Cardinality(FlaggedUnreleased) \in Nat
      BY <2>1, <2>2, FS_Subset, FS_CardinalityType
    <2>4. wedged \in Nat /\ Cardinality(Wedging) \in Nat
      BY <1>1, FS_CardinalityType DEF GateInv, GateTypeOK
    <2> QED BY <1>1, <2>3, <2>4 DEF GateInv, HangingIsCounted, Wedging
  <1> QED BY <1>1, GateAgrees, PTL
===============================================================================
