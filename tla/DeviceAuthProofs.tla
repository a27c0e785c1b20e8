--------------------------- MODULE DeviceAuthProofs ---------------------------
(***************************************************************************)
(* Theorems about DeviceAuth for every number of codes, calls, clients and *)
(* checks and every limit, window and retention its assumptions allow.     *)
(***************************************************************************)
EXTENDS DeviceAuth, FiniteSetTheorems, WellFoundedInduction, TLAPS

ConstantTypes ==
  /\ MaxTime \in Nat /\ MaxStall \in Nat /\ Limit \in Nat \ {0} /\ Window \in Nat \ {0}
  /\ AttemptRetention \in Nat /\ CodeRetention \in Nat

LEMMA Constants == ConstantTypes
  BY BoundsAssumption DEF ConstantTypes

(* A nonempty set of naturals has a least member: what min(attempted_at)
   returns.                                                                  *)
LEMMA LeastMember ==
  ASSUME NEW S \in SUBSET Nat, S # {}
  PROVE  \E m \in S : \A n \in S : m <= n
<1>1. IsWellFoundedOn(OpToRel(<, Nat), Nat)
  BY NatLessThanWellFounded
<1>2. PICK m \in S : \A n \in S : ~(<<n, m>> \in OpToRel(<, Nat))
  BY <1>1, WFMin
<1>3. \A n \in S : ~(n < m)
  BY <1>2 DEF OpToRel
<1> QED
  BY <1>3

(* Rows counted against a client, as a finite set.                           *)
LEMMA WindowIsFinite ==
  ASSUME NEW c, NEW t
  PROVE  /\ IsFiniteSet(InWindow(c, t))
         /\ Cardinality(InWindow(c, t)) \in Nat
<1>1. InWindow(c, t) \in SUBSET Calls
  BY DEF InWindow, Kept
<1> QED
  BY <1>1, SetsAssumption, FS_Subset, FS_CardinalityType

(* The wait a throttled caller is told is between one tick and the window.   *)
LEMMA WaitType ==
  ASSUME TypeOK, NEW r \in Calls, ~SlotIsFree(r)
  PROVE  SecondsUntilFree(client[r], now[r]) \in 1 .. Window
<1> DEFINE Rows == InWindow(client[r], now[r])
           Stamps == {now[q] : q \in Rows}
<1>1. Rows # {}
  <2>1. Cardinality(Rows) \in Nat /\ ~(Cardinality(Rows) < Limit)
    BY WindowIsFinite DEF SlotIsFree
  <2> QED
    BY <2>1, FS_EmptySet, Constants DEF ConstantTypes
<1>2. Stamps \in SUBSET Nat /\ Stamps # {}
  <2>1. \A q \in Calls : now[q] \in Nat
    BY DEF TypeOK, Times
  <2>2. Rows \subseteq Calls
    BY DEF InWindow, Kept
  <2> QED
    BY <1>1, <2>1, <2>2
<1>3. \E m \in Stamps : \A n \in Stamps : m <= n
  BY <1>2, LeastMember
<1>4. \E m \in Stamps : \A q \in Rows : m <= now[q]
  BY <1>3
<1> DEFINE oldest == CHOOSE m \in Stamps : \A q \in Rows : m <= now[q]
<1>5. oldest \in Nat
  BY <1>2, <1>4
<1>6. now[r] \in Nat
  BY DEF TypeOK, Times
<1> HIDE DEF Rows, Stamps
<1> SUFFICES SecondsUntilFree(client[r], now[r]) =
               LET capped == IF oldest + Window - now[r] < Window
                             THEN oldest + Window - now[r] ELSE Window
               IN  IF capped < 1 THEN 1 ELSE capped
  <2> HIDE DEF oldest
  <2> QED  BY <1>5, <1>6, Constants DEF ConstantTypes
<1> QED
  BY DEF SecondsUntilFree, Rows, Stamps

-----------------------------------------------------------------------------
LEMMA InitTypeOK == Init => TypeOK
  BY SetsAssumption, Constants
  DEF ConstantTypes, Init, TypeOK, Times, Row, NoRow, Outcomes, Never, Malformed

(* Type correctness of the operator's and the clock's steps.                 *)
LEMMA IssueTypeOK ==
  ASSUME TypeOK, NEW k \in Codes, Issue(k)
  PROVE  TypeOK'
<1> USE DEF TypeOK, Row, Times, callVars, checkVars
<1>1. ASSUME NEW ttl \in TTLs, IssueBegins(k, ttl) PROVE TypeOK'
  <2>1. clock + ttl \in Nat
    BY SetsAssumption, Constants DEF ConstantTypes
  <2> QED
    BY <1>1, <2>1 DEF IssueBegins
<1>2. CASE IssueStores(k)
  BY <1>2 DEF IssueStores
<1>3. CASE IssueRefused(k)
  BY <1>3, Constants DEF IssueRefused, NoRow, ConstantTypes
<1>4. CASE IssueFails(k)
  BY <1>4, Constants DEF IssueFails, NoRow, ConstantTypes
<1> QED
  BY <1>1, <1>2, <1>3, <1>4 DEF Issue

(* Type correctness of a redemption's steps.                                 *)
LEMMA RedeemTypeOK ==
  ASSUME TypeOK, NEW r \in Calls, Redeem(r)
  PROVE  TypeOK'
<1> USE DEF TypeOK, Times, callVars, checkVars
<1>1. ASSUME NEW c \in Clients, NEW s \in Codes \cup {Malformed}, RedeemBegins(r, c, s)
      PROVE  TypeOK'
  <2>1. 0 \in 0 .. Window
    BY Constants DEF ConstantTypes
  <2> QED
    BY <1>1, <2>1 DEF RedeemBegins
<1>2. CASE ReserveGrants(r)
  BY <1>2 DEF ReserveGrants, AfterCleanup, Outcomes
<1>3. CASE ReserveThrottles(r)
  <2>1. SecondsUntilFree(client[r], now[r]) \in 0 .. Window
    BY <1>3, WaitType DEF ReserveThrottles
  <2> QED
    BY <1>3, <2>1 DEF ReserveThrottles, AfterCleanup
<1>4. CASE Match(r)
  <2>1. MatchVerdict(r) \in Outcomes
    BY DEF MatchVerdict, Outcomes
  <2> QED
    BY <1>4, <2>1 DEF Match
<1>5. CASE ClaimWins(r)
  <2>1. ASSUME shown[r] \in Codes
        PROVE  [codes EXCEPT ![shown[r]].consumed = now[r]] \in [Codes -> Row]
    BY <2>1 DEF Row
  <2>2. ASSUME shown[r] \notin Codes
        PROVE  [codes EXCEPT ![shown[r]].consumed = now[r]] \in [Codes -> Row]
    BY <2>2
  <2> QED
    BY <1>5, <2>1, <2>2 DEF ClaimWins
<1>6. CASE ClaimLoses(r)
  BY <1>6 DEF ClaimLoses, Outcomes
<1>7. CASE Record(r)
  BY <1>7 DEF Record, Recorded
<1>8. CASE CallFails(r)
  BY <1>8 DEF CallFails
<1> QED
  BY <1>1, <1>2, <1>3, <1>4, <1>5, <1>6, <1>7, <1>8 DEF Redeem

(* Type correctness of a token check's steps.                                *)
LEMMA VerifyTypeOK ==
  ASSUME TypeOK, NEW v \in Checks, Verify(v)
  PROVE  TypeOK'
<1> USE DEF TypeOK, callVars, checkVars
<1>1. ASSUME NEW r \in Calls, NEW secret \in BOOLEAN, CheckBegins(v, r, secret)
      PROVE  TypeOK'
  BY <1>1 DEF CheckBegins
<1>2. CASE CheckLooksUp(v)
  BY <1>2 DEF CheckLooksUp
<1>3. CASE CheckTouches(v)
  BY <1>3 DEF CheckTouches
<1>4. CASE CheckFails(v)
  BY <1>4 DEF CheckFails
<1> QED
  BY <1>1, <1>2, <1>3, <1>4 DEF Verify

LEMMA StepTypeOK == TypeOK /\ [Next]_vars => TypeOK'
<1> SUFFICES ASSUME TypeOK, [Next]_vars PROVE TypeOK'
  OBVIOUS
<1>1. CASE Tick
  BY <1>1, Constants DEF Tick, TypeOK, Times, callVars, checkVars, ConstantTypes
<1>2. ASSUME NEW k \in Codes, Issue(k) PROVE TypeOK'
  BY <1>2, IssueTypeOK
<1>3. ASSUME NEW r \in Calls, Redeem(r) PROVE TypeOK'
  BY <1>3, RedeemTypeOK
<1>4. ASSUME NEW r \in Calls, Revoke(r) PROVE TypeOK'
  BY <1>4 DEF Revoke, TypeOK, callVars, checkVars
<1>5. ASSUME NEW v \in Checks, Verify(v) PROVE TypeOK'
  BY <1>5, VerifyTypeOK
<1>6. CASE UNCHANGED vars
  BY <1>6 DEF vars, callVars, checkVars, TypeOK
<1> QED
  BY <1>1, <1>2, <1>3, <1>4, <1>5, <1>6 DEF Next

(* Every variable keeps its type; in particular a throttled caller is never
   told to wait longer than the window (_seconds_until_free).                *)
THEOREM TypeCorrect == Spec => []TypeOK
  BY InitTypeOK, StepTypeOK, PTL DEF Spec

-----------------------------------------------------------------------------
(* Single use.  The inductive invariant adds to SingleUse why it holds: a
   device's code carries that call's stamp and keeps it, so it can no longer
   be claimed, and a call with a device never shows another code.            *)
Unconsumed ==
  \A k \in Codes : codes[k].st \in {"unissued", "hashing"} => codes[k].consumed = Never

ClaimsACode == \A r \in Calls : pc[r] = "claim" => shown[r] \in Codes

DeviceHasItsCode ==
  \A r \in Calls : device[r] # "none" =>
    /\ pc[r] \in {"record", "done", "failed"}
    /\ shown[r] \in Codes
    /\ codes[shown[r]].consumed = now[r]
    /\ now[r] < codes[shown[r]].expires

PairInv == Unconsumed /\ ClaimsACode /\ DeviceHasItsCode /\ SingleUse

LEMMA InitPairInv == Init => PairInv
  BY DEF Init, PairInv, Unconsumed, ClaimsACode, DeviceHasItsCode, SingleUse, NoRow

LEMMA IssuePairInv ==
  ASSUME TypeOK, PairInv, NEW k \in Codes, Issue(k)
  PROVE  PairInv'
<1> USE DEF PairInv, callVars, checkVars
<1>1. UNCHANGED <<device, pc, now, shown>>
  BY DEF Issue, IssueBegins, IssueStores, IssueRefused, IssueFails
<1>2. SingleUse' /\ ClaimsACode'
  BY <1>1 DEF SingleUse, ClaimsACode
<1>3. Unconsumed'
  BY DEF Unconsumed, TypeOK, Row, NoRow, Issue, IssueBegins, IssueStores,
         IssueRefused, IssueFails
<1>4. ASSUME NEW j \in Codes, codes[j].consumed # Never
      PROVE  /\ codes'[j].consumed = codes[j].consumed
             /\ codes'[j].expires = codes[j].expires
  BY <1>4 DEF Unconsumed, TypeOK, Row, Issue, IssueBegins, IssueStores,
         IssueRefused, IssueFails
<1>5. ASSUME NEW r \in Calls, device[r] # "none"
      PROVE  codes[shown[r]].consumed # Never
  BY <1>5 DEF DeviceHasItsCode, TypeOK, Times, Never
<1>6. DeviceHasItsCode'
  BY <1>1, <1>4, <1>5 DEF DeviceHasItsCode
<1> QED
  BY <1>2, <1>3, <1>6

LEMMA RedeemPairInv ==
  ASSUME TypeOK, PairInv, NEW r \in Calls, Redeem(r)
  PROVE  PairInv'
<1> USE DEF PairInv, callVars, checkVars
<1>1. CASE ClaimWins(r)
  <2> DEFINE k == shown[r]
  <2>1. k \in Codes /\ codes[k].consumed = Never /\ Stored(k) /\ now[r] < codes[k].expires
    BY <1>1 DEF ClaimWins, ClaimsACode, Claimable, LiveAt, TypeOK, Row, Times
  <2>2. \A q \in Calls : device[q] # "none" => shown[q] # k
    BY <2>1 DEF DeviceHasItsCode, TypeOK, Times, Never
  <2>3. /\ codes' = [codes EXCEPT ![k].consumed = now[r]]
        /\ \A q \in Calls : device'[q] # "none" => device[q] # "none" \/ q = r
        /\ \A q \in Calls \ {r} : pc'[q] = pc[q]
        /\ pc'[r] = "record"
        /\ UNCHANGED <<now, shown>>
    BY <1>1 DEF ClaimWins, TypeOK
  <2>4. SingleUse'
    BY <2>2, <2>3 DEF SingleUse
  <2>5. Unconsumed'
    BY <2>1, <2>3 DEF Unconsumed, Stored, TypeOK, Row
  <2>6. ClaimsACode'
    BY <2>3 DEF ClaimsACode
  <2>7. ASSUME NEW q \in Calls, device'[q] # "none"
        PROVE  /\ pc'[q] \in {"record", "done", "failed"}
               /\ shown'[q] \in Codes
               /\ codes'[shown'[q]].consumed = now'[q]
               /\ now'[q] < codes'[shown'[q]].expires
    <3>1. CASE q = r
      BY <3>1, <2>1, <2>3 DEF TypeOK, Row
    <3>2. CASE q # r
      BY <3>2, <2>2, <2>3, <2>7 DEF DeviceHasItsCode, TypeOK, Row
    <3> QED
      BY <3>1, <3>2
  <2> QED
    BY <2>4, <2>5, <2>6, <2>7 DEF DeviceHasItsCode
<1>2. CASE Match(r)
  <2>1. MatchVerdict(r) = "accepted" => shown[r] \in Codes
    BY DEF MatchVerdict, TypeOK
  <2>2. /\ UNCHANGED <<codes, device, now, shown>>
        /\ pc[r] = "match"
        /\ pc' = [pc EXCEPT ![r] = IF MatchVerdict(r) = "accepted" THEN "claim" ELSE "record"]
    BY <1>2 DEF Match
  <2>3. ClaimsACode'
    BY <2>1, <2>2 DEF ClaimsACode, TypeOK
  <2>4. DeviceHasItsCode'
    BY <2>2 DEF DeviceHasItsCode, TypeOK
  <2> QED
    BY <2>2, <2>3, <2>4 DEF Unconsumed, SingleUse
<1>3. ASSUME NEW c \in Clients, NEW s \in Codes \cup {Malformed}, RedeemBegins(r, c, s)
      PROVE  PairInv'
  <2>1. /\ UNCHANGED <<codes, device>>
        /\ pc[r] \in {"idle", "throttled"}
        /\ pc' = [pc EXCEPT ![r] = "reserve"]
        /\ now' = [now EXCEPT ![r] = clock]
        /\ shown' = [shown EXCEPT ![r] = s]
    BY <1>3 DEF RedeemBegins
  <2>2. device[r] = "none"
    BY <2>1 DEF DeviceHasItsCode
  <2> QED
    BY <2>1, <2>2 DEF Unconsumed, ClaimsACode, DeviceHasItsCode, SingleUse, TypeOK
<1>4. ASSUME \/ ReserveGrants(r) \/ ReserveThrottles(r) \/ ClaimLoses(r)
             \/ Record(r) \/ CallFails(r)
      PROVE  PairInv'
  <2>1. /\ UNCHANGED <<codes, device, now, shown>>
        /\ \E next \in {"match", "throttled", "record", "done", "idle", "failed"} :
             /\ pc' = [pc EXCEPT ![r] = next]
             /\ pc[r] \in {"record", "done", "failed"} => next \in {"record", "done", "failed"}
    BY <1>4 DEF ReserveGrants, ReserveThrottles, ClaimLoses, Record, CallFails
  <2> QED
    BY <2>1 DEF Unconsumed, ClaimsACode, DeviceHasItsCode, SingleUse, TypeOK
<1> QED
  BY <1>1, <1>2, <1>3, <1>4 DEF Redeem

LEMMA StepPairInv == TypeOK /\ PairInv /\ [Next]_vars => PairInv'
<1> SUFFICES ASSUME TypeOK, PairInv, [Next]_vars PROVE PairInv'
  OBVIOUS
<1>1. ASSUME NEW k \in Codes, Issue(k) PROVE PairInv'
  BY <1>1, IssuePairInv
<1>2. ASSUME NEW r \in Calls, Redeem(r) PROVE PairInv'
  BY <1>2, RedeemPairInv
<1>3. ASSUME NEW r \in Calls, Revoke(r) PROVE PairInv'
  BY <1>3 DEF Revoke, PairInv, Unconsumed, ClaimsACode, DeviceHasItsCode, SingleUse,
              TypeOK, callVars, checkVars
<1>4. ASSUME UNCHANGED <<codes, device, callVars>> PROVE PairInv'
  BY <1>4 DEF callVars, PairInv, Unconsumed, ClaimsACode, DeviceHasItsCode, SingleUse
<1>5. Tick \/ (\E v \in Checks : Verify(v)) \/ UNCHANGED vars
        => UNCHANGED <<codes, device, callVars>>
  BY DEF Tick, Verify, CheckBegins, CheckLooksUp, CheckTouches, CheckFails, vars
<1> QED
  BY <1>1, <1>2, <1>3, <1>4, <1>5 DEF Next

(* No two calls ever register a device from the same pairing code
   (consume_code_and_register_device), whatever the number of calls.         *)
THEOREM CodesAreSingleUse == Spec => []SingleUse
<1>1. PairInv => SingleUse
  BY DEF PairInv
<1> QED
  BY InitTypeOK, StepTypeOK, InitPairInv, StepPairInv, <1>1, PTL DEF Spec

(* The other half of ConsumedIffPaired: a consumed code keeps the device it
   was consumed for.                                                         *)
ConsumedHasDevice ==
  \A k \in Codes : codes[k].consumed # Never =>
    \E r \in Calls : device[r] # "none" /\ shown[r] = k

LEMMA IssueConsumedHasDevice ==
  ASSUME TypeOK, ConsumedHasDevice, NEW k \in Codes, Issue(k)
  PROVE  ConsumedHasDevice'
<1>1. UNCHANGED <<device, shown>>
  BY DEF Issue, IssueBegins, IssueStores, IssueRefused, IssueFails, callVars
<1>2. \A j \in Codes : codes'[j].consumed # Never => codes[j].consumed # Never
  BY DEF TypeOK, Row, NoRow, Issue, IssueBegins, IssueStores, IssueRefused, IssueFails
<1> QED
  BY <1>1, <1>2 DEF ConsumedHasDevice

LEMMA RedeemConsumedHasDevice ==
  ASSUME TypeOK, PairInv, ConsumedHasDevice, NEW r \in Calls, Redeem(r)
  PROVE  ConsumedHasDevice'
<1> USE DEF callVars, checkVars
<1>1. CASE ClaimWins(r)
  <2>1. /\ codes' = [codes EXCEPT ![shown[r]].consumed = now[r]]
        /\ device' = [device EXCEPT ![r] = "active"]
        /\ shown' = shown
    BY <1>1 DEF ClaimWins
  <2>2. device'[r] # "none" /\ \A q \in Calls : device[q] # "none" => device'[q] # "none"
    BY <2>1 DEF TypeOK
  <2>3. \A k \in Codes : k # shown[r] => codes'[k].consumed = codes[k].consumed
    BY <2>1 DEF TypeOK
  <2> QED
    BY <2>1, <2>2, <2>3 DEF ConsumedHasDevice
<1>2. ASSUME NEW c \in Clients, NEW s \in Codes \cup {Malformed}, RedeemBegins(r, c, s)
      PROVE  ConsumedHasDevice'
  <2>1. /\ UNCHANGED <<codes, device>>
        /\ pc[r] \in {"idle", "throttled"}
        /\ shown' = [shown EXCEPT ![r] = s]
    BY <1>2 DEF RedeemBegins
  <2>2. device[r] = "none"
    BY <2>1 DEF PairInv, DeviceHasItsCode
  <2>3. \A q \in Calls : device[q] # "none" => shown'[q] = shown[q]
    BY <2>1, <2>2 DEF TypeOK
  <2> QED
    BY <2>1, <2>3 DEF ConsumedHasDevice
<1>3. ASSUME \/ ReserveGrants(r) \/ ReserveThrottles(r) \/ Match(r) \/ ClaimLoses(r)
             \/ Record(r) \/ CallFails(r)
      PROVE  ConsumedHasDevice'
  <2>1. UNCHANGED <<codes, device, shown>>
    BY <1>3 DEF ReserveGrants, ReserveThrottles, Match, ClaimLoses, Record, CallFails
  <2> QED
    BY <2>1 DEF ConsumedHasDevice
<1> QED
  BY <1>1, <1>2, <1>3 DEF Redeem

LEMMA StepConsumedHasDevice ==
  TypeOK /\ PairInv /\ ConsumedHasDevice /\ [Next]_vars => ConsumedHasDevice'
<1> SUFFICES ASSUME TypeOK, PairInv, ConsumedHasDevice, [Next]_vars
             PROVE  ConsumedHasDevice'
  OBVIOUS
<1>1. ASSUME NEW k \in Codes, Issue(k) PROVE ConsumedHasDevice'
  BY <1>1, IssueConsumedHasDevice
<1>2. ASSUME NEW r \in Calls, Redeem(r) PROVE ConsumedHasDevice'
  BY <1>2, RedeemConsumedHasDevice
<1>3. ASSUME NEW r \in Calls, Revoke(r) PROVE ConsumedHasDevice'
  <2>1. /\ UNCHANGED <<codes, shown>>
        /\ \A q \in Calls : device[q] # "none" => device'[q] # "none"
    BY <1>3 DEF Revoke, TypeOK, callVars
  <2> QED
    BY <2>1 DEF ConsumedHasDevice
<1>4. ASSUME UNCHANGED <<codes, device, shown>> PROVE ConsumedHasDevice'
  BY <1>4 DEF ConsumedHasDevice
<1>5. Tick \/ (\E v \in Checks : Verify(v)) \/ UNCHANGED vars
        => UNCHANGED <<codes, device, shown>>
  BY DEF Tick, Verify, CheckBegins, CheckLooksUp, CheckTouches, CheckFails, vars, callVars
<1> QED
  BY <1>1, <1>2, <1>3, <1>4, <1>5 DEF Next

(* A code is used up exactly when a device was registered from it, with that
   call's instant and before the code's expiry, wherever a call dies
   (consume_code_and_register_device commits both rows or neither).          *)
THEOREM UsedUpMeansPaired == Spec => []ConsumedIffPaired
<1>1. Init => ConsumedHasDevice
  BY DEF Init, ConsumedHasDevice, NoRow
<1>2. PairInv /\ ConsumedHasDevice => ConsumedIffPaired
  BY DEF PairInv, DeviceHasItsCode, ConsumedHasDevice, ConsumedIffPaired
<1> QED
  BY InitTypeOK, StepTypeOK, InitPairInv, StepPairInv, StepConsumedHasDevice,
     <1>1, <1>2, PTL DEF Spec

-----------------------------------------------------------------------------
(* The rate limit.  A call that was granted a slot either still has its row
   or is older than anything a call in flight may still count; so the rows
   counted in reserve_pairing_attempt include every guess that matters.      *)
NowIsPast == \A r \in Calls : now[r] <= clock

NowIsRecent == \A r \in Calls : pc[r] = "reserve" => clock <= now[r] + MaxStall

RowOfSpent ==
  \A r \in Calls : Spent(r) =>
    attempt[r] # "absent" \/ now[r] < clock - AttemptRetention

RateInv == NowIsPast /\ NowIsRecent /\ RowOfSpent /\ RateLimit

LEMMA SpentIsFinite ==
  ASSUME NEW c, NEW t
  PROVE  IsFiniteSet(SpentBy(c, t)) /\ Cardinality(SpentBy(c, t)) \in Nat
<1>1. SpentBy(c, t) \in SUBSET Calls
  BY DEF SpentBy
<1> QED
  BY <1>1, SetsAssumption, FS_Subset, FS_CardinalityType

LEMMA InitRateInv == Init => RateInv
<1> SUFFICES ASSUME Init PROVE RateInv
  OBVIOUS
<1>1. NowIsPast /\ NowIsRecent /\ RowOfSpent
  BY Constants DEF Init, NowIsPast, NowIsRecent, RowOfSpent, Spent, ConstantTypes
<1>2. ASSUME NEW c \in Clients, NEW t \in Times \cup {Never}
      PROVE  Cardinality(SpentBy(c, t)) <= Limit
  <2>1. SpentBy(c, t) = {}
    BY DEF SpentBy, Spent, Init
  <2> QED
    BY <2>1, FS_EmptySet, Constants DEF ConstantTypes
<1> QED
  BY <1>1, <1>2 DEF RateInv, RateLimit

(* Steps that neither grant a slot nor delete rows.                          *)
LEMMA QuietRateInv ==
  ASSUME TypeOK, RateInv, clock' = clock,
         \A q \in Calls :
           /\ Spent(q)' <=> Spent(q)
           /\ Spent(q) => now'[q] = now[q] /\ client'[q] = client[q]
           /\ attempt[q] # "absent" => attempt'[q] # "absent"
           /\ now'[q] \in {now[q], clock}
           /\ pc'[q] = "reserve" => now'[q] = clock \/ (pc[q] = "reserve" /\ now'[q] = now[q])
  PROVE  RateInv'
<1>1. NowIsPast'
  BY DEF RateInv, NowIsPast, TypeOK, Times
<1>2. NowIsRecent'
  BY Constants DEF RateInv, NowIsRecent, TypeOK, Times, ConstantTypes
<1>3. RowOfSpent'
  BY DEF RateInv, RowOfSpent
<1>4. \A c \in Clients, t \in Times \cup {Never} : SpentBy(c, t)' = SpentBy(c, t)
  BY DEF SpentBy
<1>5. RateLimit'
  BY <1>4 DEF RateInv, RateLimit
<1> QED
  BY <1>1, <1>2, <1>3, <1>5 DEF RateInv

(* A granted slot: the new guess and every earlier one in a window around it
   were among the rows the transaction counted.                              *)
LEMMA GrantRateLimit ==
  ASSUME TypeOK, RateInv, NEW r \in Calls, ReserveGrants(r),
         NEW c \in Clients, NEW t \in Times \cup {Never}
  PROVE  Cardinality(SpentBy(c, t)') <= Limit
<1> USE Constants, RetentionAssumption DEF ConstantTypes
<1>1. /\ UNCHANGED <<clock, now, client>>
      /\ pc[r] = "reserve" /\ pc' = [pc EXCEPT ![r] = "match"]
      /\ SlotIsFree(r)
  BY DEF ReserveGrants
<1>2. Cardinality(SpentBy(c, t)) <= Limit
  BY DEF RateInv, RateLimit
<1>3. CASE client[r] # c \/ ~(t < now[r] /\ now[r] <= t + Window)
  <2>1. SpentBy(c, t)' = SpentBy(c, t)
    BY <1>1, <1>3 DEF SpentBy, Spent, TypeOK
  <2> QED
    BY <2>1, <1>2
<1>4. CASE client[r] = c /\ t < now[r] /\ now[r] <= t + Window
  <2>1. SpentBy(c, t)' = SpentBy(c, t) \cup {r}
    BY <1>1, <1>4 DEF SpentBy, Spent, TypeOK
  <2>2. ASSUME NEW q \in SpentBy(c, t) PROVE q \in InWindow(client[r], now[r])
    <3>1. /\ q \in Calls /\ Spent(q) /\ client[q] = c /\ t < now[q]
      BY <2>2 DEF SpentBy
    <3>2. now[q] \in Int /\ now[r] \in Int /\ clock \in Int /\ t \in Int
      BY <3>1 DEF TypeOK, Times, Never
    <3>3. now[q] > now[r] - Window
      BY <3>1, <3>2, <1>4
    <3>4. clock <= now[r] + MaxStall
      BY <1>1 DEF RateInv, NowIsRecent
    <3>5. attempt[q] # "absent"
      BY <3>1, <3>2, <3>3, <3>4 DEF RateInv, RowOfSpent
    <3>6. now[q] >= now[r] - AttemptRetention
      BY <3>2, <3>3
    <3> QED
      BY <3>1, <3>3, <3>5, <3>6, <1>4 DEF InWindow, Kept
  <2>3. Cardinality(SpentBy(c, t)) <= Cardinality(InWindow(client[r], now[r]))
    BY <2>2, WindowIsFinite, FS_Subset
  <2>4. Cardinality(SpentBy(c, t)) < Limit
    BY <2>3, <1>1, SpentIsFinite, WindowIsFinite DEF SlotIsFree
  <2>5. Cardinality(SpentBy(c, t) \cup {r}) <= Cardinality(SpentBy(c, t)) + 1
    BY SpentIsFinite, FS_AddElement
  <2>6. Cardinality(SpentBy(c, t) \cup {r}) \in Nat
    BY SpentIsFinite, FS_AddElement, FS_CardinalityType
  <2> QED
    BY <2>1, <2>4, <2>5, <2>6, SpentIsFinite
<1> QED
  BY <1>3, <1>4

(* The cleanup of old rows keeps RowOfSpent: it uses the call's own `now',
   which is never ahead of the clock.                                        *)
LEMMA CleanupKeepsRows ==
  ASSUME TypeOK, RateInv, NEW r \in Calls,
         NEW q \in Calls, Spent(q), AfterCleanup(now[r])[q] = "absent"
  PROVE  now[q] < clock - AttemptRetention
<1> USE Constants DEF ConstantTypes
<1>1. now[q] \in Int /\ now[r] \in Int /\ clock \in Int /\ now[r] <= clock
  BY DEF TypeOK, Times, RateInv, NowIsPast
<1>2. CASE attempt[q] = "absent"
  BY <1>2 DEF RateInv, RowOfSpent
<1>3. CASE attempt[q] # "absent"
  <2>1. ~(now[q] >= now[r] - AttemptRetention)
    BY <1>3 DEF AfterCleanup, Kept
  <2> QED
    BY <2>1, <1>1
<1> QED
  BY <1>2, <1>3

LEMMA RedeemRateInv ==
  ASSUME TypeOK, RateInv, NEW r \in Calls, Redeem(r)
  PROVE  RateInv'
<1>1. CASE ReserveGrants(r)
  <2>1. /\ UNCHANGED <<clock, now>>
        /\ pc[r] = "reserve" /\ pc' = [pc EXCEPT ![r] = "match"]
        /\ attempt' = [AfterCleanup(now[r]) EXCEPT ![r] = "unknown"]
    BY <1>1 DEF ReserveGrants
  <2>2. NowIsPast' /\ NowIsRecent'
    BY <2>1 DEF RateInv, NowIsPast, NowIsRecent, TypeOK
  <2>3. RowOfSpent'
    <3> SUFFICES ASSUME NEW q \in Calls, Spent(q)', attempt'[q] = "absent"
                 PROVE  now'[q] < clock' - AttemptRetention
      BY DEF RowOfSpent
    <3>1. q # r /\ AfterCleanup(now[r])[q] = "absent"
      BY <2>1 DEF AfterCleanup
    <3>2. Spent(q)
      BY <2>1, <3>1 DEF Spent, TypeOK
    <3> QED
      BY <2>1, <3>1, <3>2, CleanupKeepsRows
  <2>4. RateLimit'
    BY <1>1, <2>1, GrantRateLimit DEF RateLimit
  <2> QED
    BY <2>2, <2>3, <2>4 DEF RateInv
<1>2. CASE ReserveThrottles(r)
  <2>1. /\ UNCHANGED <<clock, now, client>>
        /\ pc[r] = "reserve" /\ pc' = [pc EXCEPT ![r] = "throttled"]
        /\ attempt' = AfterCleanup(now[r])
    BY <1>2 DEF ReserveThrottles
  <2>2. NowIsPast' /\ NowIsRecent'
    BY <2>1 DEF RateInv, NowIsPast, NowIsRecent, TypeOK
  <2>3. \A q \in Calls : Spent(q)' <=> Spent(q)
    BY <2>1 DEF Spent, TypeOK
  <2>4. RowOfSpent'
    BY <2>1, <2>3, CleanupKeepsRows DEF RowOfSpent
  <2>5. \A c \in Clients, t \in Times \cup {Never} : SpentBy(c, t)' = SpentBy(c, t)
    BY <2>1, <2>3 DEF SpentBy
  <2> QED
    BY <2>2, <2>4, <2>5 DEF RateInv, RateLimit
<1>3. ASSUME NEW c \in Clients, NEW s \in Codes \cup {Malformed}, RedeemBegins(r, c, s)
      PROVE  RateInv'
  <2>1. /\ UNCHANGED <<clock, attempt>>
        /\ pc[r] \in {"idle", "throttled"} /\ pc' = [pc EXCEPT ![r] = "reserve"]
        /\ now' = [now EXCEPT ![r] = clock] /\ client' = [client EXCEPT ![r] = c]
    BY <1>3 DEF RedeemBegins
  <2> QED
    BY <2>1, QuietRateInv DEF Spent, TypeOK
<1>4. CASE Record(r)
  <2>1. /\ UNCHANGED <<clock, now, client>>
        /\ pc[r] = "record" /\ pc' = [pc EXCEPT ![r] = "done"]
        /\ attempt' = [attempt EXCEPT ![r] = Recorded(r)]
    BY <1>4 DEF Record
  <2>2. attempt[r] # "absent" => Recorded(r) # "absent"
    BY DEF Recorded, TypeOK, Outcomes
  <2> QED
    BY <2>1, <2>2, QuietRateInv DEF Spent, TypeOK
<1>5. ASSUME Match(r) \/ ClaimWins(r) \/ ClaimLoses(r) \/ CallFails(r)
      PROVE  RateInv'
  <2>1. /\ UNCHANGED <<clock, now, client, attempt>>
        /\ \/ pc[r] = "reserve" /\ pc' = [pc EXCEPT ![r] = "idle"]
           \/ /\ pc[r] \in {"match", "claim", "record"}
              /\ \E next \in {"claim", "record", "failed"} : pc' = [pc EXCEPT ![r] = next]
    BY <1>5 DEF Match, ClaimWins, ClaimLoses, CallFails
  <2> QED
    BY <2>1, QuietRateInv DEF Spent, TypeOK
<1> QED
  BY <1>1, <1>2, <1>3, <1>4, <1>5 DEF Redeem

LEMMA StepRateInv == TypeOK /\ RateInv /\ [Next]_vars => RateInv'
<1> SUFFICES ASSUME TypeOK, RateInv, [Next]_vars PROVE RateInv'
  OBVIOUS
<1>1. CASE Tick
  <2>1. /\ clock' = clock + 1 /\ UNCHANGED <<attempt, pc, now, client>>
        /\ \A r \in Calls : Deciding(r) => clock < now[r] + MaxStall
    BY <1>1 DEF Tick, callVars
  <2>2. NowIsPast' /\ RowOfSpent'
    BY <2>1, Constants
    DEF RateInv, NowIsPast, RowOfSpent, Spent, TypeOK, Times, ConstantTypes
  <2>3. NowIsRecent'
    BY <2>1, Constants DEF NowIsRecent, Deciding, TypeOK, Times, ConstantTypes
  <2>4. \A c \in Clients, t \in Times \cup {Never} : SpentBy(c, t)' = SpentBy(c, t)
    BY <2>1 DEF SpentBy, Spent
  <2> QED
    BY <2>2, <2>3, <2>4 DEF RateInv, RateLimit
<1>2. ASSUME NEW r \in Calls, Redeem(r) PROVE RateInv'
  BY <1>2, RedeemRateInv
<1>3. ASSUME UNCHANGED <<clock, attempt, callVars>> PROVE RateInv'
  BY <1>3, QuietRateInv DEF callVars, Spent
<1>4. ASSUME NEW k \in Codes, Issue(k) PROVE UNCHANGED <<clock, attempt, callVars>>
  BY <1>4 DEF Issue, IssueBegins, IssueStores, IssueRefused, IssueFails
<1>5. (\E r \in Calls : Revoke(r)) \/ (\E v \in Checks : Verify(v)) \/ UNCHANGED vars
        => UNCHANGED <<clock, attempt, callVars>>
  BY DEF Revoke, Verify, CheckBegins, CheckLooksUp, CheckTouches, CheckFails, vars
<1> QED
  BY <1>1, <1>2, <1>3, <1>4, <1>5 DEF Next

(* In no window does one client test more than Limit codes
   (reserve_pairing_attempt), for any number of racing calls, any limit and
   window, and any retention that covers a window plus the longest stall.    *)
THEOREM GuessesAreRateLimited == Spec => []RateLimit
<1>1. RateInv => RateLimit
  BY DEF RateInv
<1> QED
  BY InitTypeOK, StepTypeOK, InitRateInv, StepRateInv, <1>1, PTL DEF Spec

-----------------------------------------------------------------------------
(* The refinement of PairingContract.  A check that has not ended was not
   admitted yet, so an abstract check is refused only where one is.          *)
AdmittedAtTheEnd == \A v \in Checks : cpc[v] # "done" => ~admitted[v]

ContractInv == TypeOK /\ PairInv /\ AdmittedAtTheEnd

LEMMA StepAdmittedAtTheEnd ==
  TypeOK /\ AdmittedAtTheEnd /\ [Next]_vars => AdmittedAtTheEnd'
<1> SUFFICES ASSUME TypeOK, AdmittedAtTheEnd, [Next]_vars PROVE AdmittedAtTheEnd'
  OBVIOUS
<1>1. ASSUME NEW v \in Checks, Verify(v) PROVE AdmittedAtTheEnd'
  BY <1>1 DEF AdmittedAtTheEnd, TypeOK, Verify, CheckBegins, CheckLooksUp, CheckTouches,
              CheckFails
<1>2. ASSUME NEW k \in Codes, Issue(k) PROVE UNCHANGED <<cpc, admitted>>
  BY <1>2 DEF Issue, IssueBegins, IssueStores, IssueRefused, IssueFails, checkVars
<1>3. ASSUME NEW r \in Calls, Redeem(r) PROVE UNCHANGED <<cpc, admitted>>
  BY <1>3 DEF Redeem, RedeemBegins, ReserveGrants, ReserveThrottles, Match, ClaimWins,
              ClaimLoses, Record, CallFails, checkVars
<1>4. Tick \/ (\E r \in Calls : Revoke(r)) \/ UNCHANGED vars => UNCHANGED <<cpc, admitted>>
  BY DEF Tick, Revoke, vars, checkVars
<1>5. UNCHANGED <<cpc, admitted>> => AdmittedAtTheEnd'
  BY DEF AdmittedAtTheEnd
<1> QED
  BY <1>1, <1>2, <1>3, <1>4, <1>5 DEF Next

LEMMA QuietContract ==
  ASSUME UNCHANGED <<codes, device, shown, cpc, token, admitted>>
  PROVE  UNCHANGED Contract!cvars
  BY DEF Contract!cvars, Stored

(* Storing a code offers it and drops what is purged with it; the other steps
   of an operator are invisible.                                             *)
LEMMA IssueContract ==
  ASSUME ContractInv, NEW k \in Codes, Issue(k)
  PROVE  [Contract!Next]_(Contract!cvars)
<1> USE DEF ContractInv, PairInv
<1> DEFINE offers == {j \in Codes : Stored(j) /\ codes[j].consumed = Never}
           used == {j \in Codes : codes[j].st = "purged" \/ codes[j].consumed # Never}
           old == {j \in offers : j # k /\ Outdated(j, k)}
<1>1. UNCHANGED <<device, shown, cpc, token, admitted>>
  BY DEF Issue, IssueBegins, IssueStores, IssueRefused, IssueFails, callVars, checkVars
<1>2. CASE IssueStores(k)
  <2>1. k \notin offers \cup used
    BY <1>2 DEF IssueStores, Stored, Unconsumed
  <2>2. offers' = (offers \ old) \cup {k}
    BY <1>2 DEF IssueStores, Stored, Unconsumed, Outdated, TypeOK, Row
  <2>3. used' = used \cup old
    BY <1>2 DEF IssueStores, Stored, Unconsumed, Outdated, TypeOK, Row
  <2>4. old \in SUBSET offers
    OBVIOUS
  <2> HIDE DEF offers, used, old
  <2>5. /\ k \notin offers \cup used
        /\ offers' = (offers \ old) \cup {k} /\ used' = used \cup old
    BY <2>1, <2>2, <2>3
  <2>6. PICK o \in SUBSET offers : o = old
    BY <2>4
  <2>7. Contract!Offer(k, o)
    BY <1>1, <2>5, <2>6 DEF Contract!Offer, offers, used
  <2> QED
    BY <2>7 DEF Contract!Next, offers
<1>3. CASE ~IssueStores(k)
  <2>1. \A j \in Codes \ {k} : codes'[j] = codes[j]
    BY <1>3 DEF Issue, IssueBegins, IssueRefused, IssueFails, TypeOK
  <2>2. /\ codes[k].st \in {"unissued", "hashing"} /\ codes[k].consumed = Never
        /\ codes'[k].st \in {"unissued", "hashing"} /\ codes'[k].consumed = Never
    BY <1>3 DEF Issue, IssueBegins, IssueRefused, IssueFails, Unconsumed, NoRow, TypeOK
  <2>3. \A j \in Codes : /\ codes'[j].st = "stored" <=> codes[j].st = "stored"
                         /\ codes'[j].st = "purged" <=> codes[j].st = "purged"
                         /\ codes'[j].consumed = codes[j].consumed
    BY <2>1, <2>2
  <2>4. offers' = offers /\ used' = used
    BY <2>3 DEF Stored
  <2> QED
    BY <1>1, <2>4 DEF Contract!cvars
<1> QED
  BY <1>2, <1>3

(* A claim that wins pairs its device; the other steps of a redemption are
   invisible.                                                                *)
LEMMA RedeemContract ==
  ASSUME ContractInv, NEW r \in Calls, Redeem(r)
  PROVE  [Contract!Next]_(Contract!cvars)
<1> USE DEF ContractInv, PairInv
<1> DEFINE offers == {j \in Codes : Stored(j) /\ codes[j].consumed = Never}
           used == {j \in Codes : codes[j].st = "purged" \/ codes[j].consumed # Never}
           pairs == [q \in Calls |-> IF device[q] = "none" THEN Malformed ELSE shown[q]]
           gone == {q \in Calls : device[q] = "revoked"}
<1>1. UNCHANGED <<cpc, token, admitted>>
  BY DEF Redeem, RedeemBegins, ReserveGrants, ReserveThrottles, Match, ClaimWins,
         ClaimLoses, Record, CallFails, checkVars
<1>2. CASE ClaimWins(r)
  <2> DEFINE k == shown[r]
  <2>1. /\ k \in Codes /\ Stored(k) /\ codes[k].consumed = Never
        /\ codes' = [codes EXCEPT ![k].consumed = now[r]]
        /\ device' = [device EXCEPT ![r] = "active"]
        /\ shown' = shown
        /\ now[r] # Never
    BY <1>2 DEF ClaimWins, ClaimsACode, Claimable, LiveAt, TypeOK, Times, Never
  <2>2. device[r] = "none"
    BY <1>2 DEF ClaimWins, DeviceHasItsCode
  <2>3. offers' = offers \ {k} /\ used' = used \cup {k}
    BY <2>1 DEF Stored, TypeOK, Row
  <2>4. pairs' = [pairs EXCEPT ![r] = k]
    BY <2>1, <2>2 DEF TypeOK
  <2>5. gone' = gone
    BY <2>1, <2>2 DEF TypeOK
  <2>6. k \in offers /\ pairs[r] = Malformed
    BY <2>1, <2>2
  <2> HIDE DEF k, offers, used, pairs, gone
  <2>7. Contract!Pair(k, r)
    BY <1>1, <2>3, <2>4, <2>5, <2>6 DEF Contract!Pair, offers, used, pairs, gone
  <2> QED
    BY <2>1, <2>7 DEF Contract!Next
<1>3. ASSUME NEW c \in Clients, NEW s \in Codes \cup {Malformed}, RedeemBegins(r, c, s)
      PROVE  UNCHANGED Contract!cvars
  <2>1. /\ UNCHANGED <<codes, device>> /\ shown' = [shown EXCEPT ![r] = s]
        /\ device[r] = "none"
    BY <1>3 DEF RedeemBegins, DeviceHasItsCode
  <2>2. pairs' = pairs
    BY <2>1 DEF TypeOK
  <2> QED
    BY <1>1, <2>1, <2>2 DEF Contract!cvars, Stored
<1>4. ASSUME \/ ReserveGrants(r) \/ ReserveThrottles(r) \/ Match(r) \/ ClaimLoses(r)
             \/ Record(r) \/ CallFails(r)
      PROVE  UNCHANGED Contract!cvars
  <2>1. UNCHANGED <<codes, device, shown>>
    BY <1>4 DEF ReserveGrants, ReserveThrottles, Match, ClaimLoses, Record, CallFails
  <2> QED
    BY <1>1, <2>1, QuietContract
<1> QED
  BY <1>2, <1>3, <1>4 DEF Redeem

(* A look-up decides a check.                                                *)
LEMMA VerifyContract ==
  ASSUME ContractInv, NEW v \in Checks, Verify(v)
  PROVE  [Contract!Next]_(Contract!cvars)
<1> USE DEF ContractInv, PairInv, AdmittedAtTheEnd
<1> DEFINE progress == [u \in Checks |->
                  CASE cpc[u] = "idle"   -> "none"
                    [] cpc[u] = "lookup" -> "asking"
                    [] cpc[u] = "touch"  -> "granted"
                    [] OTHER -> IF admitted[u] THEN "granted" ELSE "refused"]
           pairs == [q \in Calls |-> IF device[q] = "none" THEN Malformed ELSE shown[q]]
           gone == {q \in Calls : device[q] = "revoked"}
<1>1. UNCHANGED <<codes, device, shown>>
  BY DEF Verify, CheckBegins, CheckLooksUp, CheckTouches, CheckFails, callVars
<1>2. ASSUME NEW r \in Calls, NEW secret \in BOOLEAN, CheckBegins(v, r, secret)
      PROVE  Contract!Ask(v, r)
  <2>1. progress[v] = "none" /\ progress' = [progress EXCEPT ![v] = "asking"]
    BY <1>2 DEF CheckBegins, TypeOK
  <2>2. token' = [token EXCEPT ![v] = r]
    BY <1>2 DEF CheckBegins
  <2> QED
    BY <1>1, <2>1, <2>2 DEF Contract!Ask, Stored
<1>3. CASE CheckLooksUp(v)
  <2>1. progress[v] = "asking" /\ token' = token
    BY <1>3 DEF CheckLooksUp
  <2>2. CASE Recognized(v)
    <3>1. progress' = [progress EXCEPT ![v] = "granted"]
      BY <1>3, <2>2 DEF CheckLooksUp, TypeOK
    <3>2. token[v] \in Calls /\ device[token[v]] = "active"
      BY <2>2 DEF Recognized, TypeOK
    <3>3. pairs[token[v]] # Malformed /\ token[v] \notin gone
      BY <3>2, SetsAssumption DEF DeviceHasItsCode
    <3>4. Contract!Grant(v)
      BY <1>1, <2>1, <3>1, <3>3 DEF Contract!Grant, Stored
    <3> QED
      BY <3>4 DEF Contract!Next
  <2>3. CASE ~Recognized(v)
    <3>1. progress' = [progress EXCEPT ![v] = "refused"]
      BY <1>3, <2>3 DEF CheckLooksUp, TypeOK
    <3>2. Contract!Refuse(v)
      BY <1>1, <2>1, <3>1 DEF Contract!Refuse, Stored
    <3> QED
      BY <3>2 DEF Contract!Next
  <2> QED
    BY <2>2, <2>3
<1>4. CASE CheckTouches(v)
  <2>1. progress' = progress /\ token' = token
    BY <1>4 DEF CheckTouches, TypeOK
  <2> QED
    BY <1>1, <2>1 DEF Contract!cvars, Stored
<1>5. CASE CheckFails(v)
  <2>1. /\ progress[v] \in {"asking", "granted"} /\ token' = token
        /\ progress' = [progress EXCEPT ![v] = "refused"]
    BY <1>5 DEF CheckFails, TypeOK
  <2>2. Contract!Refuse(v)
    BY <1>1, <2>1 DEF Contract!Refuse, Stored
  <2> QED
    BY <2>2 DEF Contract!Next
<1> QED
  BY <1>2, <1>3, <1>4, <1>5 DEF Verify, Contract!Next

(* Every step of the store is one of the contract, or none of its business.  *)
LEMMA StepContract == ContractInv /\ [Next]_vars => [Contract!Next]_(Contract!cvars)
<1> SUFFICES ASSUME ContractInv, [Next]_vars PROVE [Contract!Next]_(Contract!cvars)
  OBVIOUS
<1>1. ASSUME NEW r \in Calls, Revoke(r) PROVE Contract!Revoke(r)
  <2> DEFINE gone == {q \in Calls : device[q] = "revoked"}
             pairs == [q \in Calls |-> IF device[q] = "none" THEN Malformed ELSE shown[q]]
  <2>1. /\ UNCHANGED <<codes, shown, cpc, token, admitted>>
        /\ device[r] = "active" /\ device' = [device EXCEPT ![r] = "revoked"]
    BY <1>1 DEF Revoke, callVars, checkVars
  <2>2. gone' = gone \cup {r} /\ pairs' = pairs
    BY <2>1 DEF ContractInv, TypeOK
  <2>3. pairs[r] # Malformed
    BY <2>1, SetsAssumption DEF ContractInv, PairInv, DeviceHasItsCode
  <2> QED
    BY <2>1, <2>2, <2>3 DEF Contract!Revoke, Stored
<1>2. Tick \/ UNCHANGED vars => UNCHANGED Contract!cvars
  BY QuietContract DEF Tick, vars, callVars, checkVars
<1> QED
  BY <1>1, <1>2, IssueContract, RedeemContract, VerifyContract DEF Next, Contract!Next

LEMMA InitContract == Init => Contract!Init /\ ContractInv
<1> SUFFICES ASSUME Init PROVE Contract!Init /\ ContractInv
  OBVIOUS
<1>1. ContractInv
  BY InitTypeOK, InitPairInv DEF ContractInv, AdmittedAtTheEnd, Init
<1>2. token \in [Checks -> Calls]
  BY <1>1 DEF ContractInv, TypeOK
<1>3. Contract!Init
  BY <1>2 DEF Init, Contract!Init, Stored, NoRow
<1> QED
  BY <1>1, <1>3

(* Codes, devices and token checks behave as PairingContract says, however
   many calls race and wherever one dies.                                    *)
THEOREM StoreKeepsContract == Spec => KeepsContract
<1>1. ContractInv /\ [Next]_vars => ContractInv'
  BY StepTypeOK, StepPairInv, StepAdmittedAtTheEnd DEF ContractInv
<1> QED
  BY InitContract, StepContract, <1>1, PTL DEF Spec, KeepsContract, Contract!Spec

-----------------------------------------------------------------------------
(* The audit trail.  A call that matched a live code still finds its row when
   it claims it: the codes purged meanwhile expired CodeRetention before a
   clock that is at most MaxStall ahead of the call's own.  So a lost claim
   means a used-up code, and a used-up code has somebody else's device.      *)
DecidingIsRecent == \A r \in Calls : Deciding(r) => clock <= now[r] + MaxStall

CodesArePast == \A k \in Codes : codes[k].created <= clock

TimeInv == NowIsPast /\ DecidingIsRecent /\ CodesArePast

OtherPaired(r) == \E q \in Calls \ {r} : device[q] # "none" /\ shown[q] = shown[r]

ClaimFindsItsRow ==
  \A r \in Calls : pc[r] = "claim" =>
    /\ verdict[r] = "accepted"
    /\ shown[r] \in Codes /\ Stored(shown[r]) /\ now[r] < codes[shown[r]].expires

VerdictIsHonest ==
  \A r \in Calls : pc[r] = "record" =>
    /\ verdict[r] = "accepted" <=> device[r] # "none"
    /\ verdict[r] = "reused" => OtherPaired(r)

GuessIsOpen == \A r \in Calls : pc[r] # "done" => attempt[r] \in {"unknown", "absent"}

AuditInv == ClaimFindsItsRow /\ VerdictIsHonest /\ GuessIsOpen /\ AuditIsHonest

Known == TypeOK /\ PairInv /\ ConsumedHasDevice /\ TimeInv

LEMMA InitTimeInv == Init => TimeInv
  BY Constants DEF Init, TimeInv, NowIsPast, DecidingIsRecent, CodesArePast, Deciding, NoRow,
     ConstantTypes

LEMMA StepTimeInv == TypeOK /\ TimeInv /\ [Next]_vars => TimeInv'
<1> SUFFICES ASSUME TypeOK, TimeInv, [Next]_vars PROVE TimeInv'
  OBVIOUS
<1> USE DEF TimeInv
<1>1. CASE Tick
  <2>1. /\ clock' = clock + 1 /\ UNCHANGED <<codes, pc, now>> /\ clock \in Int
        /\ \A r \in Calls : Deciding(r) => clock < now[r] + MaxStall
    BY <1>1 DEF Tick, callVars, TypeOK, Times
  <2>2. \A r \in Calls : now[r] \in Int
    BY DEF TypeOK, Times
  <2>3. \A k \in Codes : codes[k].created \in Int
    BY DEF TypeOK, Row, Times
  <2> QED
    BY <2>1, <2>2, <2>3, Constants
    DEF NowIsPast, DecidingIsRecent, CodesArePast, Deciding, ConstantTypes
<1>2. ASSUME NEW k \in Codes, Issue(k) PROVE TimeInv'
  <2>1. UNCHANGED <<clock, pc, now>>
    BY <1>2 DEF Issue, IssueBegins, IssueStores, IssueRefused, IssueFails, callVars
  <2>2. \A j \in Codes : codes'[j].created \in {codes[j].created, clock, 0}
    BY <1>2 DEF Issue, IssueBegins, IssueStores, IssueRefused, IssueFails, NoRow, TypeOK, Row
  <2>3. clock >= 0 /\ clock \in Int
    BY DEF TypeOK, Times
  <2> QED
    BY <2>1, <2>2, <2>3 DEF NowIsPast, DecidingIsRecent, CodesArePast, Deciding
<1>3. ASSUME NEW r \in Calls, Redeem(r) PROVE TimeInv'
  <2>1. clock' = clock /\ clock \in Int
    BY <1>3 DEF Redeem, RedeemBegins, ReserveGrants, ReserveThrottles, Match, ClaimWins,
                ClaimLoses, Record, CallFails, TypeOK, Times
  <2>2. \A k \in Codes : codes'[k].created = codes[k].created
    BY <1>3 DEF Redeem, RedeemBegins, ReserveGrants, ReserveThrottles, Match, ClaimWins,
                ClaimLoses, Record, CallFails, TypeOK, Row
  <2>3. \A q \in Calls : now'[q] = clock \/ (now'[q] = now[q] /\ (Deciding(q)' => Deciding(q)))
    <3>1. ASSUME NEW c \in Clients, NEW s \in Codes \cup {Malformed}, RedeemBegins(r, c, s)
          PROVE  \A q \in Calls :
                   now'[q] = clock \/ (now'[q] = now[q] /\ (Deciding(q)' => Deciding(q)))
      <4>1. now'[r] = clock /\ \A q \in Calls \ {r} : now'[q] = now[q] /\ pc'[q] = pc[q]
        BY <3>1 DEF RedeemBegins, TypeOK
      <4> QED
        BY <4>1 DEF Deciding
    <3>2. ASSUME ReserveGrants(r) \/ ReserveThrottles(r) \/ Match(r) \/ ClaimWins(r)
                 \/ ClaimLoses(r) \/ Record(r) \/ CallFails(r)
          PROVE  now' = now /\ \A q \in Calls : Deciding(q)' => Deciding(q)
      <4>1. now' = now /\ \A q \in Calls \ {r} : pc'[q] = pc[q]
        BY <3>2 DEF ReserveGrants, ReserveThrottles, Match, ClaimWins, ClaimLoses, Record,
                    CallFails, TypeOK
      <4>2. Deciding(r)' => Deciding(r)
        BY <3>2 DEF ReserveGrants, ReserveThrottles, Match, ClaimWins, ClaimLoses, Record,
                    CallFails, TypeOK, Deciding
      <4> QED
        BY <4>1, <4>2 DEF Deciding
    <3> QED
      BY <1>3, <3>1, <3>2 DEF Redeem
  <2> QED
    BY <2>1, <2>2, <2>3, Constants DEF NowIsPast, DecidingIsRecent, CodesArePast, ConstantTypes
<1>4. ASSUME UNCHANGED <<clock, codes, callVars>> PROVE TimeInv'
  BY <1>4 DEF NowIsPast, DecidingIsRecent, CodesArePast, Deciding, callVars
<1>5. (\E r \in Calls : Revoke(r)) \/ (\E v \in Checks : Verify(v)) \/ UNCHANGED vars
        => UNCHANGED <<clock, codes, callVars>>
  BY DEF Revoke, Verify, CheckBegins, CheckLooksUp, CheckTouches, CheckFails, vars
<1> QED
  BY <1>1, <1>2, <1>3, <1>4, <1>5 DEF Next

LEMMA IssueAuditInv ==
  ASSUME Known, AuditInv, NEW k \in Codes, Issue(k)
  PROVE  AuditInv'
<1> USE DEF Known, AuditInv
<1>1. UNCHANGED <<device, attempt, callVars>>
  BY DEF Issue, IssueBegins, IssueStores, IssueRefused, IssueFails
<1>2. VerdictIsHonest' /\ GuessIsOpen' /\ AuditIsHonest'
  BY <1>1 DEF VerdictIsHonest, GuessIsOpen, AuditIsHonest, OtherPaired, callVars
<1>3. ASSUME NEW r \in Calls, pc[r] = "claim"
      PROVE  Stored(shown[r])' /\ codes'[shown[r]].expires = codes[shown[r]].expires
  <2> DEFINE j == shown[r]
  <2>1. /\ j \in Codes /\ Stored(j) /\ now[r] < codes[j].expires
    BY <1>3 DEF ClaimFindsItsRow
  <2>2. ~Outdated(j, k)
    <3>1. /\ now[r] \in Int /\ clock \in Int /\ codes[j].expires \in Int
          /\ codes[k].created \in Int
      BY <2>1 DEF TypeOK, Times, Row
    <3>2. clock <= now[r] + MaxStall /\ codes[k].created <= clock
      BY <1>3 DEF TimeInv, DecidingIsRecent, Deciding, CodesArePast
    <3> QED
      BY <2>1, <3>1, <3>2, Constants, CodeRetentionAssumption DEF Outdated, ConstantTypes
  <2> HIDE DEF j
  <2>3. /\ codes'[j].st = "stored" /\ codes'[j].expires = codes[j].expires
    BY <2>1, <2>2 DEF Issue, IssueBegins, IssueStores, IssueRefused, IssueFails, Stored,
                      TypeOK, Row
  <2> QED
    BY <1>1, <2>3 DEF Stored, callVars, j
<1>4. ClaimFindsItsRow'
  BY <1>1, <1>3 DEF ClaimFindsItsRow, callVars
<1> QED
  BY <1>2, <1>4

(* A step of one call, told by what it does to the others' facts.            *)
LEMMA RedeemAuditInv ==
  ASSUME Known, AuditInv, NEW r \in Calls, Redeem(r)
  PROVE  AuditInv'
<1> USE DEF Known, AuditInv
<1>1. CASE ClaimWins(r)
  <2> DEFINE k == shown[r]
  <2>1. /\ pc[r] = "claim" /\ k \in Codes
        /\ codes' = [codes EXCEPT ![k].consumed = now[r]]
        /\ device' = [device EXCEPT ![r] = "active"]
        /\ pc' = [pc EXCEPT ![r] = "record"]
        /\ UNCHANGED <<attempt, now, shown, verdict>>
    BY <1>1 DEF ClaimWins, PairInv, ClaimsACode
  <2>2. \A j \in Codes : codes'[j].st = codes[j].st /\ codes'[j].expires = codes[j].expires
    BY <2>1 DEF TypeOK, Row
  <2>3. ClaimFindsItsRow'
    BY <2>1, <2>2 DEF ClaimFindsItsRow, Stored, TypeOK
  <2>4. \A q \in Calls : /\ q # r => device'[q] = device[q] /\ pc'[q] = pc[q]
                         /\ device[q] # "none" => device'[q] # "none"
    BY <2>1 DEF TypeOK
  <2>5. device'[r] # "none" /\ pc'[r] = "record" /\ verdict[r] = "accepted"
    BY <2>1 DEF TypeOK, ClaimFindsItsRow
  <2>6. attempt[r] \in {"unknown", "absent"}
    BY <2>1 DEF GuessIsOpen
  <2>7. VerdictIsHonest'
    BY <2>1, <2>4, <2>5 DEF VerdictIsHonest, OtherPaired
  <2>8. GuessIsOpen'
    BY <2>1, <2>4, <2>5, <2>6 DEF GuessIsOpen
  <2>9. AuditIsHonest'
    BY <2>1, <2>4, <2>5, <2>6 DEF AuditIsHonest
  <2> QED
    BY <2>3, <2>7, <2>8, <2>9
<1>2. ASSUME NEW c \in Clients, NEW s \in Codes \cup {Malformed}, RedeemBegins(r, c, s)
      PROVE  AuditInv'
  <2>1. /\ pc[r] \in {"idle", "throttled"} /\ device[r] = "none"
        /\ pc' = [pc EXCEPT ![r] = "reserve"]
        /\ now' = [now EXCEPT ![r] = clock]
        /\ shown' = [shown EXCEPT ![r] = s]
        /\ UNCHANGED <<codes, attempt, device, verdict>>
    BY <1>2 DEF RedeemBegins, PairInv, DeviceHasItsCode
  <2>2. \A q \in Calls : q # r => pc'[q] = pc[q] /\ now'[q] = now[q] /\ shown'[q] = shown[q]
    BY <2>1 DEF TypeOK
  <2>3. pc'[r] = "reserve" /\ attempt[r] \in {"unknown", "absent"}
    BY <2>1 DEF TypeOK, GuessIsOpen
  <2>4. \A q \in Calls \ {r} : OtherPaired(q) => OtherPaired(q)'
    BY <2>1, <2>2 DEF OtherPaired
  <2>5. ClaimFindsItsRow'
    BY <2>1, <2>2, <2>3 DEF ClaimFindsItsRow, Stored
  <2>6. VerdictIsHonest' /\ GuessIsOpen'
    BY <2>1, <2>2, <2>3, <2>4 DEF VerdictIsHonest, GuessIsOpen
  <2>7. AuditIsHonest'
    <3>1. \A q \in Calls : attempt[q] = "reused" => q # r /\ OtherPaired(q)
      BY <2>3 DEF AuditIsHonest, OtherPaired
    <3>2. \A q \in Calls : attempt[q] = "reused" => OtherPaired(q)'
      BY <3>1, <2>4
    <3> QED
      BY <3>2, <2>1 DEF AuditIsHonest, OtherPaired
  <2> QED
    BY <2>5, <2>6, <2>7
<1>3. CASE Match(r)
  <2>1. /\ pc[r] = "match" /\ device[r] = "none"
        /\ verdict' = [verdict EXCEPT ![r] = MatchVerdict(r)]
        /\ pc' = [pc EXCEPT ![r] = IF MatchVerdict(r) = "accepted" THEN "claim" ELSE "record"]
        /\ UNCHANGED <<codes, attempt, device, now, shown>>
    BY <1>3 DEF Match, PairInv, DeviceHasItsCode
  <2>2. \A q \in Calls : q # r => pc'[q] = pc[q] /\ verdict'[q] = verdict[q]
    BY <2>1 DEF TypeOK
  <2>3. verdict'[r] = MatchVerdict(r)
        /\ pc'[r] = (IF MatchVerdict(r) = "accepted" THEN "claim" ELSE "record")
    BY <2>1 DEF TypeOK
  <2>4. MatchVerdict(r) = "accepted" =>
          shown[r] \in Codes /\ Stored(shown[r]) /\ now[r] < codes[shown[r]].expires
    <3>1. shown[r] \in Codes => codes[shown[r]].expires \in Int /\ now[r] \in Int
      BY DEF TypeOK, Row, Times
    <3> QED
      BY <3>1 DEF MatchVerdict, Candidates, TypeOK
  <2>5. MatchVerdict(r) = "reused" => OtherPaired(r)
    <3>1. MatchVerdict(r) = "reused" =>
            shown[r] # Malformed /\ codes[shown[r]].consumed # Never
      BY DEF MatchVerdict
    <3>2. shown[r] \in Codes \cup {Malformed}
      BY DEF TypeOK
    <3> QED
      BY <2>1, <3>1, <3>2 DEF ConsumedHasDevice, OtherPaired
  <2>6. ClaimFindsItsRow'
    BY <2>1, <2>2, <2>3, <2>4 DEF ClaimFindsItsRow, Stored
  <2>7. VerdictIsHonest'
    BY <2>1, <2>2, <2>3, <2>5 DEF VerdictIsHonest, OtherPaired
  <2>8. GuessIsOpen' /\ AuditIsHonest'
    BY <2>1, <2>2, <2>3 DEF GuessIsOpen, AuditIsHonest
  <2> QED
    BY <2>6, <2>7, <2>8
<1>4. CASE ClaimLoses(r)
  <2>1. /\ pc[r] = "claim" /\ device[r] = "none" /\ ~Claimable(r)
        /\ verdict' = [verdict EXCEPT ![r] = "reused"]
        /\ pc' = [pc EXCEPT ![r] = "record"]
        /\ UNCHANGED <<codes, attempt, device, now, shown>>
    BY <1>4 DEF ClaimLoses, PairInv, DeviceHasItsCode
  <2>2. \A q \in Calls : q # r => pc'[q] = pc[q] /\ verdict'[q] = verdict[q]
    BY <2>1 DEF TypeOK
  <2>3. verdict'[r] = "reused" /\ pc'[r] = "record"
    BY <2>1 DEF TypeOK
  <2>4. OtherPaired(r)
    BY <2>1 DEF ClaimFindsItsRow, Claimable, LiveAt, ConsumedHasDevice, OtherPaired
  <2>5. ClaimFindsItsRow'
    BY <2>1, <2>2, <2>3 DEF ClaimFindsItsRow, Stored
  <2>6. VerdictIsHonest'
    BY <2>1, <2>2, <2>3, <2>4 DEF VerdictIsHonest, OtherPaired
  <2>7. GuessIsOpen' /\ AuditIsHonest'
    BY <2>1, <2>2, <2>3 DEF GuessIsOpen, AuditIsHonest
  <2> QED
    BY <2>5, <2>6, <2>7
<1>5. CASE Record(r)
  <2>1. /\ pc[r] = "record"
        /\ attempt' = [attempt EXCEPT ![r] = Recorded(r)]
        /\ pc' = [pc EXCEPT ![r] = "done"]
        /\ UNCHANGED <<codes, device, now, shown, verdict>>
    BY <1>5 DEF Record
  <2>2. \A q \in Calls : q # r => pc'[q] = pc[q] /\ attempt'[q] = attempt[q]
    BY <2>1 DEF TypeOK
  <2>3. pc'[r] = "done" /\ attempt'[r] \in {"absent", verdict[r]}
    BY <2>1 DEF TypeOK, Recorded
  <2>4. ClaimFindsItsRow'
    BY <2>1, <2>2, <2>3 DEF ClaimFindsItsRow, Stored
  <2>5. VerdictIsHonest' /\ GuessIsOpen'
    BY <2>1, <2>2, <2>3 DEF VerdictIsHonest, GuessIsOpen, OtherPaired
  <2>6. AuditIsHonest'
    BY <2>1, <2>2, <2>3 DEF VerdictIsHonest, AuditIsHonest, OtherPaired
  <2> QED
    BY <2>4, <2>5, <2>6
<1>6. ASSUME ReserveGrants(r) \/ ReserveThrottles(r) \/ CallFails(r)
      PROVE  AuditInv'
  <2>1. /\ UNCHANGED <<codes, device, now, shown, verdict>>
        /\ \A q \in Calls : q # r => pc'[q] = pc[q]
        /\ \A q \in Calls : q # r => attempt'[q] \in {attempt[q], "absent"}
    <3>1. CASE ReserveGrants(r)
      BY <3>1 DEF ReserveGrants, AfterCleanup, TypeOK
    <3>2. CASE ReserveThrottles(r)
      BY <3>2 DEF ReserveThrottles, AfterCleanup, TypeOK
    <3>3. CASE CallFails(r)
      BY <3>3 DEF CallFails, TypeOK
    <3> QED
      BY <1>6, <3>1, <3>2, <3>3
  <2>2. /\ pc'[r] \in {"match", "throttled", "idle", "failed"}
        /\ attempt'[r] \in {attempt[r], "unknown", "absent"}
        /\ attempt[r] \in {"unknown", "absent"}
    BY <1>6 DEF ReserveGrants, ReserveThrottles, CallFails, AfterCleanup, TypeOK, GuessIsOpen
  <2>3. ClaimFindsItsRow'
    BY <2>1, <2>2 DEF ClaimFindsItsRow, Stored
  <2>4. VerdictIsHonest' /\ GuessIsOpen'
    BY <2>1, <2>2 DEF VerdictIsHonest, GuessIsOpen, OtherPaired
  <2>5. AuditIsHonest'
    BY <2>1, <2>2 DEF AuditIsHonest
  <2> QED
    BY <2>3, <2>4, <2>5
<1> QED
  BY <1>1, <1>2, <1>3, <1>4, <1>5, <1>6 DEF Redeem

LEMMA StepAuditInv == Known /\ AuditInv /\ [Next]_vars => AuditInv'
<1> SUFFICES ASSUME Known, AuditInv, [Next]_vars PROVE AuditInv'
  OBVIOUS
<1>1. ASSUME NEW k \in Codes, Issue(k) PROVE AuditInv'
  BY <1>1, IssueAuditInv
<1>2. ASSUME NEW r \in Calls, Redeem(r) PROVE AuditInv'
  BY <1>2, RedeemAuditInv
<1>3. ASSUME UNCHANGED <<codes, attempt, callVars>>,
             \A q \in Calls : device'[q] # "none" <=> device[q] # "none"
      PROVE  AuditInv'
  BY <1>3 DEF AuditInv, ClaimFindsItsRow, VerdictIsHonest, GuessIsOpen, AuditIsHonest,
              OtherPaired, Stored, callVars
<1>4. ASSUME NEW r \in Calls, Revoke(r) PROVE AuditInv'
  BY <1>3, <1>4 DEF Revoke, Known, TypeOK
<1>5. Tick \/ (\E v \in Checks : Verify(v)) \/ UNCHANGED vars
        => UNCHANGED <<codes, attempt, device, callVars>>
  BY DEF Tick, Verify, CheckBegins, CheckLooksUp, CheckTouches, CheckFails, vars
<1> QED
  BY <1>1, <1>2, <1>3, <1>4, <1>5 DEF Next

(* The audit rows never lie (record_attempt_outcome after the claim), whatever
   dies in between and whatever is purged, as long as used-up codes are kept
   longer than a call can stall.                                             *)
THEOREM AuditTrailIsHonest == Spec => []AuditIsHonest
<1>1. Init => ConsumedHasDevice /\ AuditInv
  BY DEF Init, ConsumedHasDevice, NoRow, AuditInv, ClaimFindsItsRow, VerdictIsHonest,
         GuessIsOpen, AuditIsHonest
<1>2. AuditInv => AuditIsHonest
  BY DEF AuditInv
<1>3. Init => Known
  BY <1>1, InitTypeOK, InitPairInv, InitTimeInv DEF Known
<1>4. Known /\ [Next]_vars => Known'
  BY StepTypeOK, StepPairInv, StepConsumedHasDevice, StepTimeInv DEF Known
<1> QED
  BY <1>1, <1>2, <1>3, <1>4, StepAuditInv, PTL DEF Spec

-----------------------------------------------------------------------------
(* The cap on live codes.  At an instant t only codes issued by then can be
   redeemed, so it is those that are counted: whoever is stored later with an
   earlier `created' has counted every code that is live at its own, earlier
   instant, and those live at t are among them.                              *)
LiveBy(t) == {k \in Codes : LiveAt(k, t) /\ codes[k].created <= t}

CapHolds == \A t \in Nat : Cardinality(LiveBy(t)) <= MaxLive

LEMMA CodeSets ==
  ASSUME NEW S \in SUBSET Codes
  PROVE  IsFiniteSet(S) /\ Cardinality(S) \in Nat
  BY SetsAssumption, FS_Subset, FS_CardinalityType

LEMMA FewerCodes ==
  ASSUME NEW T \in SUBSET Codes, NEW S \in SUBSET T
  PROVE  Cardinality(S) <= Cardinality(T)
  BY CodeSets, FS_Subset

LEMMA InitCapHolds == Init => CapHolds
<1> SUFFICES ASSUME Init, NEW t \in Nat PROVE Cardinality(LiveBy(t)) <= MaxLive
  BY DEF CapHolds
<1>1. LiveBy(t) = {}
  BY DEF Init, LiveBy, LiveAt, Stored, NoRow
<1> QED
  BY <1>1, FS_EmptySet, BoundsAssumption

(* A step that makes no code live.                                           *)
LEMMA NoNewLiveCode ==
  ASSUME CapHolds, \A k \in Codes : \A t \in Nat :
                     k \in LiveBy(t)' => k \in LiveBy(t)
  PROVE  CapHolds'
<1> SUFFICES ASSUME NEW t \in Nat PROVE Cardinality(LiveBy(t)') <= MaxLive
  BY DEF CapHolds
<1>1. LiveBy(t)' \in SUBSET LiveBy(t) /\ LiveBy(t) \in SUBSET Codes
  BY DEF LiveBy
<1>2. Cardinality(LiveBy(t)') <= Cardinality(LiveBy(t))
  BY <1>1, FewerCodes
<1>3. Cardinality(LiveBy(t)') \in Nat /\ Cardinality(LiveBy(t)) \in Nat
  BY <1>1, CodeSets
<1> QED
  BY <1>2, <1>3, BoundsAssumption DEF CapHolds

LEMMA StoreCapHolds ==
  ASSUME TypeOK, CapHolds, NEW k \in Codes, IssueStores(k)
  PROVE  CapHolds'
<1> SUFFICES ASSUME NEW t \in Nat PROVE Cardinality(LiveBy(t)') <= MaxLive
  BY DEF CapHolds
<1> DEFINE c == codes[k].created
           Counted == {j \in Codes : LiveAt(j, c)}
<1>1. /\ codes[k].st = "hashing" /\ Cardinality(Counted) < MaxLive
      /\ codes'[k] = [codes[k] EXCEPT !.st = "stored"]
      /\ \A j \in Codes \ {k} : \/ codes'[j] = codes[j]
                                \/ codes'[j] = [codes[j] EXCEPT !.st = "purged"]
  BY DEF IssueStores, HasRoom, TypeOK
<1>2. LiveBy(t) \in SUBSET Codes /\ LiveBy(t)' \in SUBSET Codes /\ Counted \in SUBSET Codes
  BY DEF LiveBy
<1>3. \A j \in Codes \ {k} : j \in LiveBy(t)' => j \in LiveBy(t)
  <2> SUFFICES ASSUME NEW j \in Codes \ {k}, j \in LiveBy(t)' PROVE j \in LiveBy(t)
    OBVIOUS
  <2>1. codes'[j].st = "stored"
    BY DEF LiveBy, LiveAt, Stored
  <2>2. codes[j] \in Row
    BY DEF TypeOK
  <2>3. codes'[j] = codes[j]
    BY <1>1, <2>1, <2>2 DEF Row
  <2> QED
    BY <2>3 DEF LiveBy, LiveAt, Stored
<1>4. CASE t < c
  <2>1. k \notin LiveBy(t)'
    BY <1>1, <1>4 DEF LiveBy, TypeOK, Row, Times
  <2>2. LiveBy(t)' \in SUBSET LiveBy(t)
    BY <1>2, <1>3, <2>1
  <2>3. Cardinality(LiveBy(t)') <= Cardinality(LiveBy(t))
    BY <1>2, <2>2, FewerCodes
  <2> QED
    BY <2>3, <1>2, CodeSets, BoundsAssumption DEF CapHolds
<1>5. CASE ~(t < c)
  <2>1. \A j \in Codes : codes[j].expires \in Nat /\ c \in Nat
    BY DEF TypeOK, Row, Times
  <2>2. \A j \in LiveBy(t)' : j \in Counted \cup {k}
    <3> SUFFICES ASSUME NEW j \in LiveBy(t)', j # k PROVE j \in Counted
      OBVIOUS
    <3>1. j \in Codes /\ j \in LiveBy(t)
      BY <1>2, <1>3
    <3> QED
      BY <3>1, <1>5, <2>1 DEF LiveBy, LiveAt
  <2> HIDE DEF Counted
  <2>3. Counted \cup {k} \in SUBSET Codes /\ LiveBy(t)' \in SUBSET (Counted \cup {k})
    BY <1>2, <2>2
  <2>4. Cardinality(LiveBy(t)') <= Cardinality(Counted \cup {k})
    BY <2>3, FewerCodes
  <2>5. Cardinality(Counted \cup {k}) <= Cardinality(Counted) + 1
    BY <1>2, CodeSets, FS_AddElement
  <2>6. /\ Cardinality(Counted \cup {k}) \in Nat /\ Cardinality(Counted) \in Nat
        /\ Cardinality(LiveBy(t)') \in Nat
    BY <1>2, <2>3, CodeSets
  <2> QED
    BY <1>1, <2>4, <2>5, <2>6, BoundsAssumption
<1> QED
  BY <1>4, <1>5

LEMMA StepCapHolds == TypeOK /\ PairInv /\ CapHolds /\ [Next]_vars => CapHolds'
<1> SUFFICES ASSUME TypeOK, PairInv, CapHolds, [Next]_vars PROVE CapHolds'
  OBVIOUS
<1>1. ASSUME \A j \in Codes : codes'[j].st = "stored" =>
               /\ codes[j].st = "stored"
               /\ codes'[j].consumed = Never => codes[j].consumed = Never
               /\ codes'[j].created = codes[j].created
               /\ codes'[j].expires = codes[j].expires
      PROVE  CapHolds'
  BY <1>1, NoNewLiveCode DEF LiveBy, LiveAt, Stored
<1>2. ASSUME NEW k \in Codes, Issue(k) PROVE CapHolds'
  <2>1. CASE IssueStores(k)
    BY <2>1, StoreCapHolds
  <2>2. CASE ~IssueStores(k)
    <3>1. /\ \A j \in Codes \ {k} : codes'[j] = codes[j]
          /\ codes'[k].st \in {"unissued", "hashing"}
      BY <1>2, <2>2 DEF Issue, IssueBegins, IssueRefused, IssueFails, NoRow, TypeOK
    <3> QED
      BY <1>1, <3>1
  <2> QED
    BY <2>1, <2>2
<1>3. ASSUME NEW r \in Calls, Redeem(r) PROVE CapHolds'
  <2>1. CASE ClaimWins(r)
    <3>1. shown[r] \in Codes /\ codes' = [codes EXCEPT ![shown[r]].consumed = now[r]]
          /\ now[r] # Never
      BY <2>1 DEF ClaimWins, PairInv, ClaimsACode, TypeOK, Times, Never
    <3>2. \A j \in Codes : /\ codes'[j].st = codes[j].st
                           /\ codes'[j].created = codes[j].created
                           /\ codes'[j].expires = codes[j].expires
                           /\ codes'[j].consumed = Never => codes[j].consumed = Never
      BY <3>1 DEF TypeOK, Row
    <3> QED
      BY <1>1, <3>2
  <2>2. CASE ~ClaimWins(r)
    <3>1. UNCHANGED codes
      BY <1>3, <2>2 DEF Redeem, RedeemBegins, ReserveGrants, ReserveThrottles, Match,
                        ClaimLoses, Record, CallFails
    <3> QED
      BY <1>1, <3>1
  <2> QED
    BY <2>1, <2>2
<1>4. Tick \/ (\E r \in Calls : Revoke(r)) \/ (\E v \in Checks : Verify(v)) \/ UNCHANGED vars
        => UNCHANGED codes
  BY DEF Tick, Revoke, Verify, CheckBegins, CheckLooksUp, CheckTouches, CheckFails, vars
<1> QED
  BY <1>1, <1>2, <1>3, <1>4 DEF Next

(* However many operators race and however long each holds its clock reading
   before its transaction, never more than MaxLive codes can be redeemed
   (insert_pairing_code counts and inserts in one transaction).              *)
THEOREM LiveCodesStayBounded == Spec => []LiveCodesBounded
<1>1. TypeOK /\ TimeInv /\ CapHolds => LiveCodesBounded
  <2> SUFFICES ASSUME TypeOK, TimeInv, CapHolds PROVE LiveCodesBounded
    OBVIOUS
  <2>1. {k \in Codes : LiveAt(k, clock)} = LiveBy(clock) /\ clock \in Nat
    BY DEF LiveBy, TimeInv, CodesArePast, TypeOK, Times
  <2> QED
    BY <2>1 DEF LiveCodesBounded, CapHolds
<1> QED
  BY InitTypeOK, StepTypeOK, InitPairInv, StepPairInv, InitTimeInv, StepTimeInv,
     InitCapHolds, StepCapHolds, <1>1, PTL DEF Spec

-----------------------------------------------------------------------------
(* The candidate rows.  A row that outranks a live code is live at the call's
   own instant: either it was issued by then, or it was issued later and,
   living at least as long as a call may stall, is live on the clock too.  So
   MaxLive bounds each kind.                                                 *)
Lifetimes == \A k \in Codes : \E ttl \in TTLs \cup {0} :
               /\ codes[k].expires = codes[k].created + ttl
               /\ codes[k].st # "unissued" => ttl \in TTLs

LEMMA StepLifetimes == TypeOK /\ Lifetimes /\ [Next]_vars => Lifetimes'
<1> SUFFICES ASSUME TypeOK, Lifetimes, [Next]_vars PROVE Lifetimes'
  OBVIOUS
<1>1. ASSUME \A j \in Codes : /\ codes'[j].created = codes[j].created
                              /\ codes'[j].expires = codes[j].expires
                              /\ codes'[j].st # "unissued" => codes[j].st # "unissued"
      PROVE  Lifetimes'
  BY <1>1 DEF Lifetimes
<1>2. ASSUME NEW k \in Codes, Issue(k) PROVE Lifetimes'
  <2>1. ASSUME NEW ttl \in TTLs, IssueBegins(k, ttl) PROVE Lifetimes'
    <3>1. /\ \A j \in Codes \ {k} : codes'[j] = codes[j]
          /\ codes'[k].created = clock /\ codes'[k].expires = clock + ttl
      BY <2>1 DEF IssueBegins, TypeOK
    <3> QED
      BY <3>1 DEF Lifetimes
  <2>2. CASE IssueStores(k)
    BY <1>1, <2>2 DEF IssueStores, TypeOK, Row, Stored, Outdated
  <2>3. CASE IssueRefused(k) \/ IssueFails(k)
    <3>1. /\ \A j \in Codes \ {k} : codes'[j] = codes[j]
          /\ codes'[k] = NoRow
      BY <2>3 DEF IssueRefused, IssueFails, TypeOK
    <3>2. codes'[k].st = "unissued" /\ codes'[k].expires = codes'[k].created + 0
      BY <3>1 DEF NoRow
    <3> QED
      BY <3>1, <3>2 DEF Lifetimes
  <2> QED
    BY <1>2, <2>1, <2>2, <2>3 DEF Issue
<1>3. ASSUME NEW r \in Calls, Redeem(r) PROVE Lifetimes'
  <2>1. \A j \in Codes : /\ codes'[j].created = codes[j].created
                         /\ codes'[j].expires = codes[j].expires
                         /\ codes'[j].st = codes[j].st
    BY <1>3 DEF Redeem, RedeemBegins, ReserveGrants, ReserveThrottles, Match, ClaimWins,
                ClaimLoses, Record, CallFails, TypeOK, Row
  <2> QED
    BY <1>1, <2>1
<1>4. Tick \/ (\E r \in Calls : Revoke(r)) \/ (\E v \in Checks : Verify(v)) \/ UNCHANGED vars
        => UNCHANGED codes
  BY DEF Tick, Revoke, Verify, CheckBegins, CheckLooksUp, CheckTouches, CheckFails, vars
<1> QED
  BY <1>1, <1>2, <1>3, <1>4 DEF Next

BuriedInv == TypeOK /\ PairInv /\ TimeInv /\ CapHolds /\ Lifetimes

\* Twice the cap fits among the candidate rows (5 and 16), and no code expires
\* while a call waits for the database (one minute and 15 seconds).
RoomForCandidates == 2 * MaxLive <= MaxCandidates /\ \A ttl \in TTLs : MaxStall <= ttl

LEMMA LiveCodeIsCandidate ==
  ASSUME RoomForCandidates, BuriedInv, NEW r \in Calls, pc[r] = "match",
         NEW k \in Codes, LiveAt(k, clock)
  PROVE  k \in Candidates(now[r])
<1> USE Constants, BoundsAssumption DEF ConstantTypes, BuriedInv
<1> DEFINE t == now[r]
           rows == {j \in Codes : Stored(j) /\ codes[j].expires >= t - CodeRetention}
           above == {j \in rows : Outranks(j, k, t)}
<1>1. t \in Nat /\ clock \in Nat /\ t <= clock /\ clock <= t + MaxStall
  BY DEF TypeOK, Times, TimeInv, NowIsPast, DecidingIsRecent, Deciding
<1>2. \A j \in Codes : codes[j].created \in Nat /\ codes[j].expires \in Nat /\ j \in Nat
  BY SetsAssumption DEF TypeOK, Row, Times
<1>3. k \in rows /\ LiveAt(k, t)
  BY <1>1, <1>2 DEF LiveAt
<1>4. \A j \in above : j \in LiveBy(t) \cup (LiveBy(clock) \ {k})
  <2> SUFFICES ASSUME NEW j \in above PROVE j \in LiveBy(t) \cup (LiveBy(clock) \ {k})
    OBVIOUS
  <2>1. j \in Codes /\ Stored(j) /\ j # k /\ LiveAt(j, t)
    <3>1. j \in Codes /\ Stored(j) /\ Outranks(j, k, t)
      OBVIOUS
    <3>2. LiveAt(j, t)
      BY <1>3, <3>1, Zenon DEF Outranks
    <3>3. ~(codes[k].created > codes[k].created) /\ ~(k > k)
      BY <1>2
    <3>4. ~Outranks(k, k, t)
      BY <1>3, <3>3, Zenon DEF Outranks
    <3> QED
      BY <3>1, <3>2, <3>4
  <2>2. CASE codes[j].created <= t
    BY <2>1, <2>2 DEF LiveBy
  <2>3. CASE ~(codes[j].created <= t)
    <3>1. PICK ttl \in TTLs : codes[j].expires = codes[j].created + ttl
      BY <2>1 DEF Lifetimes, Stored
    <3>2. MaxStall <= ttl /\ ttl \in Nat
      BY <3>1, SetsAssumption DEF RoomForCandidates
    <3>3. codes[j].expires > clock /\ codes[j].created <= clock
      BY <1>1, <1>2, <2>1, <2>3, <3>1, <3>2 DEF TimeInv, CodesArePast
    <3> QED
      BY <2>1, <3>3 DEF LiveBy, LiveAt
  <2> QED
    BY <2>2, <2>3
<1>5. k \in LiveBy(clock)
  BY DEF LiveBy, TimeInv, CodesArePast
<1> DEFINE A == LiveBy(t)
           B == LiveBy(clock)
<1>6. A \in SUBSET Codes /\ B \in SUBSET Codes /\ k \in B
  BY <1>5 DEF LiveBy
<1>7. Cardinality(A) <= MaxLive /\ Cardinality(B) <= MaxLive
  BY <1>1 DEF CapHolds
<1>8. above \in SUBSET (A \cup (B \ {k})) /\ above \in SUBSET Codes
  BY <1>4
<1> HIDE DEF t, rows, above, A, B
<1>9. Cardinality(B \ {k}) = Cardinality(B) - 1
  BY <1>6, CodeSets, FS_RemoveElement
<1>10. Cardinality(A \cup (B \ {k})) <= Cardinality(A) + Cardinality(B \ {k})
  <2>1. IsFiniteSet(A) /\ IsFiniteSet(B \ {k}) /\ IsFiniteSet(A \cap (B \ {k}))
    BY <1>6, CodeSets
  <2>2. Cardinality(A \cup (B \ {k})) =
          Cardinality(A) + Cardinality(B \ {k}) - Cardinality(A \cap (B \ {k}))
    BY <2>1, FS_Union
  <2> QED
    BY <2>1, <2>2, FS_CardinalityType
<1>11. Cardinality(above) <= Cardinality(A \cup (B \ {k}))
  BY <1>6, <1>8, FewerCodes
<1>12. /\ Cardinality(above) \in Nat /\ Cardinality(A) \in Nat /\ Cardinality(B) \in Nat
       /\ Cardinality(A \cup (B \ {k})) \in Nat
  BY <1>6, <1>8, CodeSets
<1>13. Cardinality(above) < MaxCandidates
  BY <1>7, <1>9, <1>10, <1>11, <1>12 DEF RoomForCandidates
<1> QED
  BY <1>3, <1>13 DEF Candidates, above, rows, t

(* A call that shows a code which is live at this very moment is never told
   the code does not exist (candidate_pairing_codes ranks live rows first),
   when twice the cap on live codes fits among the candidates and no lifetime
   is shorter than the longest stall.                                        *)
THEOREM LiveCodesStayFindable == RoomForCandidates => (Spec => LiveCodeNeverBuried)
<1> SUFFICES ASSUME RoomForCandidates PROVE Spec => LiveCodeNeverBuried
  OBVIOUS
<1>1. Init => Lifetimes
  BY DEF Init, Lifetimes, NoRow
<1>2. Init => BuriedInv
  BY <1>1, InitTypeOK, InitPairInv, InitTimeInv, InitCapHolds DEF BuriedInv
<1>3. BuriedInv /\ [Next]_vars => BuriedInv'
  BY StepTypeOK, StepPairInv, StepTimeInv, StepCapHolds, StepLifetimes DEF BuriedInv
<1>4. BuriedInv /\ [Next]_vars =>
        \A r \in Calls : /\ pc[r] = "match" /\ pc'[r] = "record"
                         /\ verdict'[r] = "unknown"
                         => shown[r] \in Codes /\ ~LiveAt(shown[r], clock)
  <2> SUFFICES ASSUME BuriedInv, [Next]_vars, NEW r \in Calls,
                      pc[r] = "match", pc'[r] = "record", verdict'[r] = "unknown"
               PROVE  shown[r] \in Codes /\ ~LiveAt(shown[r], clock)
    OBVIOUS
  <2>1. Match(r)
    <3>1. TypeOK
      BY DEF BuriedInv
    <3>2. PICK q \in Calls : Redeem(q)
      BY DEF Next, vars, callVars, Tick, Issue, IssueBegins, IssueStores, IssueRefused,
             IssueFails, Revoke, Verify, CheckBegins, CheckLooksUp, CheckTouches, CheckFails
    <3>3. q = r
      BY <3>1, <3>2 DEF TypeOK, Redeem, RedeemBegins, ReserveGrants, ReserveThrottles, Match,
                        ClaimWins, ClaimLoses, Record, CallFails
    <3> QED
      BY <3>1, <3>2, <3>3 DEF TypeOK, Redeem, RedeemBegins, ReserveGrants, ReserveThrottles,
                        ClaimWins, ClaimLoses, Record, CallFails
  <2>2. MatchVerdict(r) = "unknown"
    BY <2>1 DEF Match, BuriedInv, TypeOK
  <2>3. shown[r] # Malformed /\ shown[r] \notin Candidates(now[r])
    BY <2>2 DEF MatchVerdict
  <2>4. shown[r] \in Codes
    BY <2>3 DEF BuriedInv, TypeOK
  <2> QED
    BY <2>3, <2>4, LiveCodeIsCandidate
<1> QED
  BY <1>2, <1>3, <1>4, PTL DEF Spec, LiveCodeNeverBuried

-----------------------------------------------------------------------------
(* The wait of a throttled caller.  Every row is a spent guess, so the rate
   limit bounds the rows in a window; and the retention covers the window, so
   those rows are all there.                                                 *)
RowsAreSpent == \A r \in Calls : attempt[r] # "absent" => Spent(r)

LEMMA StepRowsAreSpent == TypeOK /\ RowsAreSpent /\ [Next]_vars => RowsAreSpent'
<1> SUFFICES ASSUME TypeOK, RowsAreSpent, [Next]_vars PROVE RowsAreSpent'
  OBVIOUS
<1>1. ASSUME NEW r \in Calls, Redeem(r) PROVE RowsAreSpent'
  <2>1. \A q \in Calls \ {r} : pc'[q] = pc[q] /\ attempt'[q] \in {attempt[q], "absent"}
    <3>1. CASE ReserveGrants(r)
      BY <3>1 DEF ReserveGrants, AfterCleanup, TypeOK
    <3>2. CASE ReserveThrottles(r)
      BY <3>2 DEF ReserveThrottles, AfterCleanup, TypeOK
    <3>3. CASE ~(ReserveGrants(r) \/ ReserveThrottles(r))
      BY <1>1, <3>3 DEF Redeem, RedeemBegins, Match, ClaimWins, ClaimLoses, Record,
                        CallFails, TypeOK
    <3> QED
      BY <3>1, <3>2, <3>3
  <2>2. attempt'[r] # "absent" => Spent(r)'
    <3>1. CASE ReserveGrants(r) \/ ReserveThrottles(r)
      BY <3>1 DEF ReserveGrants, ReserveThrottles, AfterCleanup, TypeOK, RowsAreSpent, Spent
    <3>2. CASE Record(r)
      BY <3>2 DEF Record, Spent, TypeOK
    <3>3. ASSUME NEW c \in Clients, NEW s \in Codes \cup {Malformed}, RedeemBegins(r, c, s)
          PROVE  attempt'[r] = "absent"
      BY <3>3 DEF RedeemBegins, RowsAreSpent, Spent
    <3>4. CASE Match(r) \/ ClaimWins(r) \/ ClaimLoses(r) \/ CallFails(r)
      BY <3>4 DEF Match, ClaimWins, ClaimLoses, CallFails, RowsAreSpent, Spent, TypeOK
    <3> QED
      BY <1>1, <3>1, <3>2, <3>3, <3>4 DEF Redeem
  <2> QED
    BY <2>1, <2>2 DEF RowsAreSpent, Spent
<1>2. ASSUME UNCHANGED <<attempt, pc>> PROVE RowsAreSpent'
  BY <1>2 DEF RowsAreSpent, Spent
<1>3. ASSUME NEW k \in Codes, Issue(k) PROVE UNCHANGED <<attempt, pc>>
  BY <1>3 DEF Issue, IssueBegins, IssueStores, IssueRefused, IssueFails, callVars
<1>4. Tick \/ (\E r \in Calls : Revoke(r)) \/ (\E v \in Checks : Verify(v)) \/ UNCHANGED vars
        => UNCHANGED <<attempt, pc>>
  BY DEF Tick, Revoke, Verify, CheckBegins, CheckLooksUp, CheckTouches, CheckFails,
         vars, callVars
<1> QED
  BY <1>1, <1>2, <1>3, <1>4 DEF Next

(* What is counted at t is what is younger than a window.                    *)
LEMMA RetentionCoversWindow ==
  ASSUME TypeOK, NEW c, NEW t \in Int
  PROVE  InWindow(c, t) =
           {q \in Calls : attempt[q] # "absent" /\ client[q] = c /\ now[q] > t - Window}
<1>1. \A q \in Calls : now[q] \in Int
  BY DEF TypeOK, Times
<1>2. \A q \in Calls : now[q] > t - Window => now[q] >= t - AttemptRetention
  BY <1>1, Constants, RetentionAssumption DEF ConstantTypes
<1> QED
  BY <1>2 DEF InWindow, Kept

WaitInv == TypeOK /\ RateInv /\ RowsAreSpent

(* The rows counted by a caller nobody has overtaken fit in one window.      *)
LEMMA WindowHoldsLimit ==
  ASSUME WaitInv, NEW r \in Calls, Newest(r)
  PROVE  Cardinality(InWindow(client[r], now[r])) <= Limit
<1> USE Constants DEF ConstantTypes, WaitInv
<1> DEFINE c == client[r]
           t == IF now[r] - Window < Never THEN Never ELSE now[r] - Window
<1>1. now[r] \in Times /\ c \in Clients
  BY DEF TypeOK
<1>2. t \in Times \cup {Never} /\ t \in Int /\ now[r] <= t + Window
  BY <1>1 DEF Times, Never
<1>3. ASSUME NEW q \in InWindow(c, now[r]) PROVE q \in SpentBy(c, t)
  <2>1. /\ q \in Calls /\ attempt[q] # "absent" /\ client[q] = c
        /\ now[q] > now[r] - Window
    BY <1>3 DEF InWindow, Kept
  <2>2. now[q] \in Nat
    BY <2>1 DEF TypeOK, Times
  <2>3. now[q] <= now[r] /\ Spent(q)
    BY <2>1 DEF Newest, RowsAreSpent
  <2>4. t < now[q] /\ now[q] <= t + Window
    BY <1>1, <1>2, <2>1, <2>2, <2>3 DEF Times, Never
  <2> QED
    BY <2>1, <2>3, <2>4 DEF SpentBy
<1>4. Cardinality(SpentBy(c, t)) <= Limit
  BY <1>1, <1>2 DEF RateInv, RateLimit
<1>5. Cardinality(InWindow(c, now[r])) <= Cardinality(SpentBy(c, t))
  BY <1>3, SpentIsFinite, FS_Subset
<1> QED
  BY <1>4, <1>5, SpentIsFinite, WindowIsFinite

(* The oldest of the counted rows frees its slot exactly when it leaves the
   window: the others are then too few, and one tick earlier they are all
   still there.                                                              *)
LEMMA WaitIsExact ==
  ASSUME WaitInv, NEW r \in Calls, Newest(r), ~SlotIsFree(r)
  PROVE  LET s == SecondsUntilFree(client[r], now[r])
         IN  FreeIn(r, s) /\ ~FreeIn(r, s - 1)
<1> USE Constants DEF ConstantTypes, WaitInv
<1> DEFINE c == client[r]
           t == now[r]
           Rows == InWindow(c, t)
           Stamps == {now[q] : q \in Rows}
           oldest == CHOOSE m \in Stamps : \A q \in Rows : m <= now[q]
<1>1. t \in Nat /\ \A q \in Calls : now[q] \in Nat
  BY DEF TypeOK, Times
<1>2. Rows \in SUBSET Calls /\ IsFiniteSet(Rows) /\ Cardinality(Rows) \in Nat
  BY WindowIsFinite DEF InWindow, Kept
<1>3. Cardinality(Rows) = Limit
  <2>1. Cardinality(Rows) <= Limit /\ ~(Cardinality(Rows) < Limit)
    BY WindowHoldsLimit DEF SlotIsFree
  <2> QED
    BY <1>2, <2>1
<1>4. Rows # {}
  BY <1>3, FS_EmptySet
<1>5. \E m \in Stamps : \A q \in Rows : m <= now[q]
  <2>1. Stamps \in SUBSET Nat /\ Stamps # {}
    BY <1>1, <1>2, <1>4
  <2>2. \E m \in Stamps : \A n \in Stamps : m <= n
    BY <2>1, LeastMember
  <2> QED
    BY <2>2
<1>6. oldest \in Stamps /\ \A q \in Rows : oldest <= now[q]
  BY <1>5
<1>7. PICK p \in Rows : now[p] = oldest
  BY <1>6
<1> HIDE DEF Stamps, oldest
<1>8. oldest \in Nat /\ oldest > t - Window /\ oldest <= t
  <2>1. p \in Calls /\ attempt[p] # "absent" /\ client[p] = c /\ now[p] > t - Window
    BY <1>7 DEF InWindow, Kept
  <2> QED
    BY <1>1, <1>7, <2>1 DEF Newest
<1>9. SecondsUntilFree(c, t) = oldest + Window - t
  <2>1. SecondsUntilFree(c, t) =
          LET capped == IF oldest + Window - t < Window THEN oldest + Window - t ELSE Window
          IN  IF capped < 1 THEN 1 ELSE capped
    BY DEF SecondsUntilFree, Stamps, oldest
  <2> QED
    BY <1>1, <1>8, <2>1
<1> DEFINE s == oldest + Window - t
<1>10. s \in Int /\ t + s = oldest + Window /\ t + (s - 1) = oldest + Window - 1
  BY <1>1, <1>8
<1> HIDE DEF s
<1>11. FreeIn(r, s)
  <2> DEFINE Left == InWindow(c, t + s)
  <2>1. Left = {q \in Calls : attempt[q] # "absent" /\ client[q] = c
                                  /\ now[q] > (t + s) - Window}
    BY <1>1, <1>10, RetentionCoversWindow
  <2>2. Rows = {q \in Calls : attempt[q] # "absent" /\ client[q] = c /\ now[q] > t - Window}
    BY <1>1, RetentionCoversWindow
  <2> HIDE DEF Left, Rows
  <2>3. (t + s) - Window = oldest
    BY <1>8, <1>10
  <2>4. Left \in SUBSET (Rows \ {p})
    BY <1>1, <1>7, <1>8, <2>1, <2>2, <2>3
  <2>5. IsFiniteSet(Rows \ {p}) /\ Cardinality(Rows \ {p}) = Limit - 1
    BY <1>2, <1>3, <1>7, FS_RemoveElement
  <2>6. Cardinality(Left) <= Limit - 1 /\ Cardinality(Left) \in Nat
    BY <2>4, <2>5, FS_Subset, FS_CardinalityType
  <2> QED
    BY <2>6 DEF FreeIn, Left
<1>12. ~FreeIn(r, s - 1)
  <2> DEFINE Left == InWindow(c, t + (s - 1))
  <2>1. Left = {q \in Calls : attempt[q] # "absent" /\ client[q] = c
                                  /\ now[q] > (t + (s - 1)) - Window}
    BY <1>1, <1>10, RetentionCoversWindow
  <2>2. Rows = {q \in Calls : attempt[q] # "absent" /\ client[q] = c /\ now[q] > t - Window}
    BY <1>1, RetentionCoversWindow
  <2>3. IsFiniteSet(Left) /\ Cardinality(Left) \in Nat
    BY WindowIsFinite
  <2> HIDE DEF Left, Rows
  <2>4. (t + (s - 1)) - Window = oldest - 1
    BY <1>8, <1>10
  <2>5. Rows \in SUBSET Left
    BY <1>1, <1>6, <1>8, <2>1, <2>2, <2>4
  <2>6. Cardinality(Rows) <= Cardinality(Left)
    BY <2>3, <2>5, FS_Subset
  <2> QED
    BY <1>3, <2>3, <2>6 DEF FreeIn, Left
<1> QED
  BY <1>9, <1>11, <1>12 DEF s

(* What a throttled caller is told to wait is exact: then a slot is free, and
   not a tick earlier, unless somebody spends it (_seconds_until_free).      *)
THEOREM RetryAfterIsTrue == Spec => RetryAfterIsExact
<1>1. Init => WaitInv
  BY InitTypeOK, InitRateInv DEF WaitInv, RowsAreSpent, Init
<1>2. WaitInv /\ [Next]_vars => WaitInv'
  BY StepTypeOK, StepRateInv, StepRowsAreSpent DEF WaitInv
<1>3. WaitInv /\ [Next]_vars =>
        \A r \in Calls : pc[r] = "reserve" /\ pc'[r] = "throttled" /\ Newest(r)
          => FreeIn(r, wait'[r]) /\ ~FreeIn(r, wait'[r] - 1)
  <2> SUFFICES ASSUME WaitInv, [Next]_vars, NEW r \in Calls,
                      pc[r] = "reserve", pc'[r] = "throttled", Newest(r)
               PROVE  FreeIn(r, wait'[r]) /\ ~FreeIn(r, wait'[r] - 1)
    OBVIOUS
  <2>1. ReserveThrottles(r)
    <3>1. TypeOK
      BY DEF WaitInv
    <3>2. PICK q \in Calls : Redeem(q)
      BY DEF Next, vars, callVars, Tick, Issue, IssueBegins, IssueStores, IssueRefused,
             IssueFails, Revoke, Verify, CheckBegins, CheckLooksUp, CheckTouches, CheckFails
    <3>3. q = r
      BY <3>1, <3>2 DEF TypeOK, Redeem, RedeemBegins, ReserveGrants, ReserveThrottles, Match,
                        ClaimWins, ClaimLoses, Record, CallFails
    <3> QED
      BY <3>1, <3>2, <3>3 DEF TypeOK, Redeem, RedeemBegins, ReserveGrants, Match,
                        ClaimWins, ClaimLoses, Record, CallFails
  <2>2. ~SlotIsFree(r) /\ wait'[r] = SecondsUntilFree(client[r], now[r])
    BY <2>1 DEF ReserveThrottles, WaitInv, TypeOK
  <2> QED
    BY <2>2, WaitIsExact
<1> QED
  BY <1>1, <1>2, <1>3, PTL DEF Spec, RetryAfterIsExact
=============================================================================
