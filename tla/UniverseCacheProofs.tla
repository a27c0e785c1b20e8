-------------------------- MODULE UniverseCacheProofs --------------------------
(***************************************************************************)
(* Safety of the universe cache for any number of requests, any universe,  *)
(* any deadline and any length of the trading date.                        *)
(*                                                                         *)
(* The invariants rest on the book-keeping of one fetch: the symbols       *)
(* answered, missed and still to do always add up to the universe, and     *)
(* what is committed is the outcome of a finished fetch, which nothing     *)
(* changes any more.  Two action properties, about the marker and about    *)
(* what a request is told, follow from the actions and the types alone.    *)
(***************************************************************************)
EXTENDS UniverseCache, TLAPS

\* Where a call may be once its compute has returned.
Finished == {"computed", "committing", "done"}

Ledger ==
  \A c \in Calls :
    /\ pc[c] \in {"idle", "asking"} => got[c] = 0 /\ failed[c] = 0
    /\ pc[c] = "computing" => got[c] + failed[c] + left[c] = Symbols
    /\ healthy[c] => pc[c] \in Finished /\ got[c] = Symbols

SlotIsAnOutcome ==
  slot.by # NoCall =>
    /\ pc[slot.by] = "done"
    /\ slot.retryAt = Healthy => healthy[slot.by]

(* The marker always belongs to a call that is still computing, or is about
   to clear it: no raise and no take-over leaves the slot marked by a call
   that has ended, which would turn away that date's callers for good.       *)
MarkerHasLeader ==
  inflight # NoCall => pc[inflight] \in {"computing", "raised", "computed"}

CacheInv == TypeOK /\ Ledger /\ SlotIsAnOutcome /\ MarkerHasLeader

(* The initial state satisfies the invariant.                                *)
LEMMA InitCacheInv == Init => CacheInv
  BY NumbersAssumption, CallsAssumption
  DEF Init, CacheInv, TypeOK, Ledger, SlotIsAnOutcome, MarkerHasLeader, Times,
      Phases, Healthy, Finished

(* What a call does to itself before and while it fetches.                   *)
LEMMA FetchKeepsCacheInv ==
  ASSUME CacheInv, NEW c \in Calls,
         \/ Lead(c) \/ FetchSymbol(c) \/ SkipSymbol(c)
         \/ ComputeReturns(c) \/ ComputeRaises(c)
  PROVE  CacheInv'
<1> USE NumbersAssumption, CallsAssumption DEF CacheInv, fetchVars
<1>1. CASE Lead(c)
  <2>1. TypeOK'
    BY <1>1 DEF Lead, TypeOK, Phases, Times
  <2>2. Ledger'
    BY <1>1 DEF Lead, TypeOK, Ledger, Finished
  <2>3. SlotIsAnOutcome' /\ MarkerHasLeader'
    BY <1>1 DEF Lead, TypeOK, SlotIsAnOutcome, MarkerHasLeader
  <2> QED BY <2>1, <2>2, <2>3
<1>2. CASE FetchSymbol(c) \/ SkipSymbol(c)
  <2>1. /\ pc[c] = "computing" /\ left[c] > 0
        /\ left' = [left EXCEPT ![c] = @ - 1]
        /\ \/ got' = [got EXCEPT ![c] = @ + 1] /\ UNCHANGED failed
           \/ failed' = [failed EXCEPT ![c] = @ + 1] /\ UNCHANGED got
        /\ UNCHANGED <<clock, slot, inflight, pc, asOf, deadline, healthy, told>>
    BY <1>2 DEF FetchSymbol, SkipSymbol
  <2>2. /\ left[c] \in 1 .. Symbols /\ got[c] \in 0 .. Symbols
        /\ failed[c] \in 0 .. Symbols /\ got[c] + failed[c] + left[c] = Symbols
        /\ healthy[c] = FALSE
    BY <2>1 DEF TypeOK, Ledger, Finished
  <2>3. got[c] < Symbols /\ failed[c] < Symbols
    BY <2>2
  <2>4. TypeOK'
    BY <2>1, <2>2, <2>3 DEF TypeOK
  <2>5. Ledger'
    <3>1. got'[c] + failed'[c] + left'[c] = Symbols
      BY <2>1, <2>2 DEF TypeOK
    <3>2. UNCHANGED <<pc, healthy>> /\ pc[c] = "computing" /\ healthy[c] = FALSE
      BY <2>1, <2>2
    <3>3. \A q \in Calls \ {c} : UNCHANGED <<got[q], failed[q], left[q]>>
      BY <2>1 DEF TypeOK
    <3> QED BY <3>1, <3>2, <3>3 DEF Ledger
  <2>6. SlotIsAnOutcome' /\ MarkerHasLeader'
    BY <2>1 DEF SlotIsAnOutcome, MarkerHasLeader
  <2> QED BY <2>4, <2>5, <2>6
<1>3. CASE ComputeReturns(c)
  <2>1. PICK enough \in BOOLEAN :
          healthy' = [healthy EXCEPT ![c] = failed[c] = 0 /\ enough]
    BY <1>3 DEF ComputeReturns
  <2>2. TypeOK'
    BY <1>3, <2>1 DEF ComputeReturns, TypeOK, Phases
  <2>3. Ledger'
    BY <1>3, <2>1 DEF ComputeReturns, TypeOK, Ledger, Finished
  <2>4. SlotIsAnOutcome' /\ MarkerHasLeader'
    BY <1>3, <2>1 DEF ComputeReturns, TypeOK, SlotIsAnOutcome, MarkerHasLeader
  <2> QED BY <2>2, <2>3, <2>4
<1>4. CASE ComputeRaises(c)
  BY <1>4 DEF ComputeRaises, TypeOK, Phases, Ledger, Finished, SlotIsAnOutcome,
              MarkerHasLeader
<1> QED BY <1>1, <1>2, <1>3, <1>4

(* What a call does to the shared state, and what leaves it alone.           *)
LEMMA SharedKeepsCacheInv ==
  ASSUME CacheInv, NEW c \in Calls,
         Ask(c) \/ Hit(c) \/ Pending(c) \/ Settle(c) \/ Commit(c)
  PROVE  CacheInv'
<1> USE NumbersAssumption, CallsAssumption
    DEF CacheInv, TypeOK, Ledger, SlotIsAnOutcome, MarkerHasLeader, Times,
        Phases, Healthy, Finished, fetchVars
<1>1. CASE Ask(c)
  BY <1>1 DEF Ask
<1>2. CASE Hit(c)
  BY <1>2 DEF Hit
<1>3. CASE Pending(c)
  BY <1>3 DEF Pending, UnderWay
<1>4. CASE Settle(c)
  BY <1>4 DEF Settle, Cleared
<1>5. CASE Commit(c)
  BY <1>5 DEF Commit
<1> QED BY <1>1, <1>2, <1>3, <1>4, <1>5

(* Time passing, and stuttering, disturb nothing.                            *)
LEMMA QuietKeepsCacheInv ==
  ASSUME CacheInv, Tick \/ UNCHANGED vars
  PROVE  CacheInv'
  BY NumbersAssumption
  DEF Tick, vars, fetchVars, CacheInv, TypeOK, Ledger, SlotIsAnOutcome,
      MarkerHasLeader, Times, Finished

(* The invariant holds in every reachable state.                             *)
THEOREM CacheInvariant == Spec => []CacheInv
<1>1. CacheInv /\ [Next]_vars => CacheInv'
  <2> SUFFICES ASSUME CacheInv, [Next]_vars PROVE CacheInv'
    OBVIOUS
  <2>1. ASSUME NEW c \in Calls, Ask(c) \/ Step(c) PROVE CacheInv'
    BY <2>1, FetchKeepsCacheInv, SharedKeepsCacheInv DEF Step
  <2> QED BY <2>1, QuietKeepsCacheInv DEF Next
<1> QED BY InitCacheInv, <1>1, PTL DEF Spec

(* No attempt is ever left marked by a call that has ended: neither a raise
   nor a leader overtaken at the rollover blocks the slot (get_or_compute).  *)
THEOREM MarkersHaveLeaders == Spec => []MarkerHasLeader
  BY CacheInvariant, PTL DEF CacheInv

(* Only bars of every symbol earn a value the whole trading date
   (_fetch_universe, _breadth_driver_entry, get_or_compute).                 *)
THEOREM HealthyIsComplete == Spec => []HealthyMeansComplete
<1>1. CacheInv => HealthyMeansComplete
  BY CallsAssumption DEF CacheInv, TypeOK, Ledger, SlotIsAnOutcome, HealthyMeansComplete
<1> QED BY CacheInvariant, <1>1, PTL

(* The marker changes hands only as LeaderKeepsMarker says: by its owner's own
   `finally', or when a call for another trading date is elected.            *)
THEOREM LeadersKeepTheirMarkers == Spec => LeaderKeepsMarker
<1> DEFINE Kept ==
      inflight # NoCall /\ inflight' # inflight =>
        IF inflight' = NoCall THEN pc'[inflight] \in {"committing", "error"}
        ELSE Key(inflight') # Key(inflight)
<1>1. CacheInv /\ [Next]_vars => [Kept]_vars
  <2> SUFFICES ASSUME CacheInv, Next, inflight # NoCall, inflight' # inflight PROVE Kept
    BY DEF vars
  <2> USE DEF CacheInv, TypeOK
  <2>1. PICK c \in Calls : Lead(c) \/ Settle(c)
    BY DEF Next, Step, Tick, Ask, Hit, Pending, FetchSymbol, SkipSymbol,
           ComputeReturns, ComputeRaises, Commit, fetchVars
  <2>2. CASE Lead(c)
    BY <2>2, CallsAssumption DEF Lead, UnderWay
  <2>3. CASE Settle(c)
    BY <2>3, CallsAssumption DEF Settle, Cleared
  <2> QED BY <2>1, <2>2, <2>3
<1> QED BY CacheInvariant, <1>1, PTL DEF Spec, LeaderKeepsMarker

(* Nobody is told that an attempt is under way which has settled already, or
   which is for another date (the pending branch of get_or_compute).         *)
THEOREM PendingTellsTheTruth == Spec => PendingIsTrue
<1> DEFINE Truth ==
      \A c \in Calls : pc[c] = "asking" /\ pc'[c] = "pending" =>
        /\ pc[told'[c]] \in {"computing", "raised", "computed"}
        /\ Key(told'[c]) = Key(c)
<1>1. CacheInv /\ [Next]_vars => [Truth]_vars
  <2> SUFFICES ASSUME CacheInv, Next,
                      NEW c \in Calls, pc[c] = "asking", pc'[c] = "pending"
               PROVE  /\ pc[told'[c]] \in {"computing", "raised", "computed"}
                      /\ Key(told'[c]) = Key(c)
    BY DEF vars
  <2> USE DEF CacheInv, TypeOK
  <2>1. Pending(c)
    BY DEF Next, Step, Tick, Ask, Hit, Pending, Lead, FetchSymbol, SkipSymbol,
           ComputeReturns, ComputeRaises, Settle, Commit, fetchVars
  <2> QED BY <2>1, CallsAssumption DEF Pending, UnderWay, MarkerHasLeader
<1> QED BY CacheInvariant, <1>1, PTL DEF Spec, PendingIsTrue
=============================================================================
