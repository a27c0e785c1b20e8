----------------------------- MODULE UniverseCache -----------------------------
(***************************************************************************)
(* One slot of MarketUniverseCache and the dashboard loads that race on it. *)
(*                                                                         *)
(* get_or_compute takes its lock three times: to look and be elected, to   *)
(* clear its marker in the `finally', and to commit the result.  Each of   *)
(* these is one action; the universe fetch in between runs unlocked, one   *)
(* action per symbol.  The marker object of a leader is modelled by the    *)
(* leader itself, its key and start by that call's own as_of.              *)
(***************************************************************************)
EXTENDS Integers

CONSTANTS
  Calls,       \* requests for the brief; each asks for the slot once
  Symbols,     \* size of the configured universe
  Day,         \* ticks between two rollovers of the trading date
  Deadline,    \* fetch_deadline_seconds
  RetryAfter,  \* retry_after_seconds
  MaxTime,     \* BOUND on the clock
  NoCall       \* "no entry in the dict"

ASSUME CallsAssumption == NoCall \notin Calls
ASSUME NumbersAssumption ==
  /\ Symbols \in Nat \ {0} /\ Day \in Nat \ {0}
  /\ Deadline \in Nat \ {0} /\ RetryAfter \in Nat \ {0} /\ MaxTime \in Nat

Healthy == -1     \* retry_at is None

VARIABLES
  clock,     \* the wall clock and monotonic(), which advance together
  slot,      \* _slots[name]
  inflight,  \* _inflight[name]
  pc, asOf,
  deadline, left, got, failed,  \* the fetch of a leader: symbols to do, answered, missed
  healthy,   \* the outcome of its compute
  told       \* the attempt a call was told is under way

fetchVars == <<deadline, left, got, failed, healthy>>
vars == <<clock, slot, inflight, pc, asOf, fetchVars, told>>

Times == 0 .. MaxTime
Phases == {"idle", "asking", "computing", "raised", "computed", "committing",
           "served", "pending", "done", "error"}

TypeOK ==
  /\ clock \in Times
  /\ slot \in [by : Calls \cup {NoCall}, retryAt : Nat \cup {Healthy}]
  /\ inflight \in Calls \cup {NoCall}
  /\ pc \in [Calls -> Phases]
  /\ asOf \in [Calls -> Times]
  /\ deadline \in [Calls -> Nat]
  /\ left \in [Calls -> 0 .. Symbols]
  /\ got \in [Calls -> 0 .. Symbols]
  /\ failed \in [Calls -> 0 .. Symbols]
  /\ healthy \in [Calls -> BOOLEAN]
  /\ told \in [Calls -> Calls \cup {NoCall}]

Init ==
  /\ clock = 0
  /\ slot = [by |-> NoCall, retryAt |-> Healthy]
  /\ inflight = NoCall
  /\ pc = [c \in Calls |-> "idle"]
  /\ asOf = [c \in Calls |-> 0]
  /\ deadline = [c \in Calls |-> 0]
  /\ left = [c \in Calls |-> 0]
  /\ got = [c \in Calls |-> 0]
  /\ failed = [c \in Calls |-> 0]
  /\ healthy = [c \in Calls |-> FALSE]
  /\ told = [c \in Calls |-> NoCall]

-----------------------------------------------------------------------------
Tick ==
  /\ clock < MaxTime
  /\ clock' = clock + 1
  /\ UNCHANGED <<slot, inflight, pc, asOf, fetchVars, told>>

\* _trading_date: the date whose close a call's values should reflect.
Key(c) == asOf[c] \div Day

\* market_brief samples its clock, then (the breadth slot first) asks the cache.
Ask(c) ==
  /\ pc[c] = "idle"
  /\ pc' = [pc EXCEPT ![c] = "asking"]
  /\ asOf' = [asOf EXCEPT ![c] = clock]
  /\ UNCHANGED <<clock, slot, inflight, fetchVars, told>>

StillFresh == slot.retryAt = Healthy \/ clock < slot.retryAt

Held(c) == slot.by # NoCall /\ Key(slot.by) = Key(c) /\ StillFresh

\* Mutant: any attempt in flight counts, whatever date it is for.
UnderWay_AnyKey(c) == inflight # NoCall

UnderWay(c) == inflight # NoCall /\ Key(inflight) = Key(c)

\* A hit replays the stored value.
Hit(c) ==
  /\ pc[c] = "asking"
  /\ Held(c)
  /\ pc' = [pc EXCEPT ![c] = "served"]
  /\ UNCHANGED <<clock, slot, inflight, asOf, fetchVars, told>>

\* Another call computes this very date: say so instead of waiting for it.
Pending(c) ==
  /\ pc[c] = "asking"
  /\ ~Held(c)
  /\ UnderWay(c)
  /\ pc' = [pc EXCEPT ![c] = "pending"]
  /\ told' = [told EXCEPT ![c] = inflight]
  /\ UNCHANGED <<clock, slot, inflight, asOf, fetchVars>>

\* Elected leader: a marker for another date is overwritten, its owner goes on.
Lead(c) ==
  /\ pc[c] = "asking"
  /\ ~Held(c)
  /\ ~UnderWay(c)
  /\ inflight' = c
  /\ pc' = [pc EXCEPT ![c] = "computing"]
  /\ deadline' = [deadline EXCEPT ![c] = clock + Deadline]
  /\ left' = [left EXCEPT ![c] = Symbols]
  /\ UNCHANGED <<clock, slot, asOf, got, failed, healthy, told>>

\* The gateway answers with bars, or with none, or raises.
FetchSymbol(c) ==
  /\ pc[c] = "computing" /\ left[c] > 0
  /\ clock < deadline[c]
  /\ left' = [left EXCEPT ![c] = @ - 1]
  /\ \/ got' = [got EXCEPT ![c] = @ + 1] /\ UNCHANGED failed
     \/ failed' = [failed EXCEPT ![c] = @ + 1] /\ UNCHANGED got
  /\ UNCHANGED <<clock, slot, inflight, pc, asOf, deadline, healthy, told>>

\* Mutant: a symbol that was never attempted is not counted as failed.
SkipSymbol_NotAFailure(c) ==
  /\ pc[c] = "computing" /\ left[c] > 0
  /\ clock >= deadline[c]
  /\ left' = [left EXCEPT ![c] = @ - 1]
  /\ UNCHANGED <<clock, slot, inflight, pc, asOf, deadline, got, failed, healthy, told>>

\* Past the deadline every remaining symbol is a gap, without being attempted.
SkipSymbol(c) ==
  /\ pc[c] = "computing" /\ left[c] > 0
  /\ clock >= deadline[c]
  /\ left' = [left EXCEPT ![c] = @ - 1]
  /\ failed' = [failed EXCEPT ![c] = @ + 1]
  /\ UNCHANGED <<clock, slot, inflight, pc, asOf, deadline, got, healthy, told>>

\* Nothing failed and the bars reach back far enough: healthy.
ComputeReturns(c) ==
  /\ pc[c] = "computing" /\ left[c] = 0
  /\ \E enoughHistory \in BOOLEAN :
       healthy' = [healthy EXCEPT ![c] = failed[c] = 0 /\ enoughHistory]
  /\ pc' = [pc EXCEPT ![c] = "computed"]
  /\ UNCHANGED <<clock, slot, inflight, asOf, deadline, left, got, failed, told>>

ComputeRaises(c) ==
  /\ pc[c] = "computing"
  /\ pc' = [pc EXCEPT ![c] = "raised"]
  /\ UNCHANGED <<clock, slot, inflight, asOf, fetchVars, told>>

\* Mutant: the marker is removed without asking whose it is.
Cleared_Anyones(c) == NoCall

\* "if self._inflight.get(name) is marker: del ..."
Cleared(c) == IF inflight = c THEN NoCall ELSE inflight

\* Mutant: no `finally', only a normal return clears the marker.
Settle_NoFinally(c) ==
  /\ pc[c] \in {"computed", "raised"}
  /\ inflight' = IF pc[c] = "computed" THEN Cleared(c) ELSE inflight
  /\ pc' = [pc EXCEPT ![c] = IF @ = "computed" THEN "committing" ELSE "error"]
  /\ UNCHANGED <<clock, slot, asOf, fetchVars, told>>

\* The `finally' block; after a raise the call ends here.
Settle(c) ==
  /\ pc[c] \in {"computed", "raised"}
  /\ inflight' = Cleared(c)
  /\ pc' = [pc EXCEPT ![c] = IF @ = "computed" THEN "committing" ELSE "error"]
  /\ UNCHANGED <<clock, slot, asOf, fetchVars, told>>

\* The slot is replaced wholesale, whatever it holds by now.
Commit(c) ==
  /\ pc[c] = "committing"
  /\ slot' = [by |-> c, retryAt |-> IF healthy[c] THEN Healthy ELSE clock + RetryAfter]
  /\ pc' = [pc EXCEPT ![c] = "done"]
  /\ UNCHANGED <<clock, inflight, asOf, fetchVars, told>>

-----------------------------------------------------------------------------
Step(c) ==
  \/ Hit(c) \/ Pending(c) \/ Lead(c)
  \/ FetchSymbol(c) \/ SkipSymbol(c) \/ ComputeReturns(c) \/ ComputeRaises(c)
  \/ Settle(c) \/ Commit(c)

Next == Tick \/ \E c \in Calls : Ask(c) \/ Step(c)

(* The server gives each request a thread of its own, and each bars_for has a
   timeout: a call that has begun keeps taking steps.  Whether a request
   arrives, and whether time passes, is nobody's promise.                    *)
Spec == Init /\ [][Next]_vars /\ \A c \in Calls : WF_vars(Step(c))

-----------------------------------------------------------------------------
(* Properties.                                                               *)

(* A leader loses its marker only by clearing it itself or to a call for
   another trading date, never to the clean-up of a leader it overtook
   ("can never let two leaders trample each other's bookkeeping").           *)
LeaderKeepsMarker ==
  [][inflight # NoCall /\ inflight' # inflight =>
       IF inflight' = NoCall THEN pc'[inflight] \in {"committing", "error"}
       ELSE Key(inflight') # Key(inflight)]_vars

(* A value that may stand for the whole trading date was computed from bars
   of every symbol: a deadline hit halfway never passes for completeness.    *)
HealthyMeansComplete ==
  slot.by # NoCall /\ slot.retryAt = Healthy => got[slot.by] = Symbols

(* Who is told that an attempt is under way is told the truth: that attempt
   has not yet settled, and it is for the caller's own trading date.         *)
PendingIsTrue ==
  [][\A c \in Calls : pc[c] = "asking" /\ pc'[c] = "pending" =>
       /\ pc[told'[c]] \in {"computing", "raised", "computed"}
       /\ Key(told'[c]) = Key(c)]_vars

(* However a compute ends, the slot is freed for a later caller: no attempt
   stays in flight for ever.                                                 *)
SlotIsReleased == \A c \in Calls : inflight = c ~> inflight # c
=============================================================================
