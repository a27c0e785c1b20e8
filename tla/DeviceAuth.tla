------------------------------ MODULE DeviceAuth ------------------------------
(***************************************************************************)
(* The credential store of the API host (services/device_auth) and the     *)
(* calls that race on it: operators issuing pairing codes, phones          *)
(* redeeming them, requests presenting device tokens, and revocations.     *)
(*                                                                         *)
(* All of them share one SQLite file.  A BEGIN IMMEDIATE .. COMMIT block   *)
(* (or a single statement) is one action; whatever runs between two such   *)
(* blocks may interleave with every other call.  Each call reads the clock *)
(* once and then works with that possibly outdated instant `now'.          *)
(*                                                                         *)
(* A redemption call is a member of Calls.  It names its row in            *)
(* pairing_attempts and the row it may add to devices: both are inserted   *)
(* with that call's own `now', so only their remaining columns are state.  *)
(***************************************************************************)
EXTENDS Integers, FiniteSets

CONSTANTS
  Codes,            \* pairing-code ids: positive integers, so they can be ordered
  Calls,            \* redemption calls
  Clients,          \* rate-limit identities
  Checks,           \* token verifications
  TTLs,             \* lifetimes an operator may ask for (--ttl-minutes)
  MaxTime,          \* BOUND on the clock
  MaxStall,         \* ticks a call may hold its `now' before it uses it
  Limit,            \* pairing_attempt_limit
  Window,           \* pairing_attempt_window
  AttemptRetention, \* attempt_retention
  CodeRetention,    \* code_retention
  MaxLive,          \* MAX_LIVE_CODES
  MaxCandidates     \* MAX_CANDIDATE_CODES

Never == -1
Malformed == 0      \* a presented value that normalize_code refuses

ASSUME SetsAssumption ==
  /\ Codes \subseteq Nat \ {Malformed}
  /\ IsFiniteSet(Codes) /\ IsFiniteSet(Calls)
  /\ Calls # {} /\ Clients # {}
  /\ TTLs \subseteq Nat \ {0}

ASSUME BoundsAssumption ==
  /\ MaxTime \in Nat /\ MaxStall \in Nat
  /\ Limit \in Nat \ {0} /\ Window \in Nat \ {0}
  /\ MaxLive \in Nat \ {0} /\ MaxCandidates \in Nat
  /\ AttemptRetention \in Nat /\ CodeRetention \in Nat

\* A row that can still count against its client is never deleted, even by a
\* call whose clock is ahead of the reader's (defaults: 1 minute, 1 day).
ASSUME RetentionAssumption == Window + MaxStall <= AttemptRetention

\* A code that was live when a call read its clock is not deleted before that
\* call claims it (defaults: 15 seconds, 1 hour).
ASSUME CodeRetentionAssumption == MaxStall <= CodeRetention

Times == 0 .. MaxTime

VARIABLES
  clock,
  codes,     \* pairing_codes: one row per code id
  attempt,   \* pairing_attempts.outcome of each call, "absent" without a row
  device,    \* devices.revoked_at as a state, "none" without a row
  seen,      \* devices.last_seen_at
  pc, now, client, shown, verdict, wait,   \* the redemption calls in flight
  cpc, cnow, token, genuine, admitted      \* the verifications in flight

callVars == <<pc, now, client, shown, verdict, wait>>
checkVars == <<cpc, cnow, token, genuine, admitted>>
vars == <<clock, codes, attempt, device, seen, callVars, checkVars>>

Row == [st : {"unissued", "hashing", "stored", "purged"},
        created : Times, expires : Nat, consumed : Times \cup {Never}]

NoRow == [st |-> "unissued", created |-> 0, expires |-> 0, consumed |-> Never]

Outcomes == {"accepted", "expired", "reused", "unknown", "malformed"}

TypeOK ==
  /\ clock \in Times
  /\ codes \in [Codes -> Row]
  /\ attempt \in [Calls -> Outcomes \cup {"absent"}]
  /\ device \in [Calls -> {"none", "active", "revoked"}]
  /\ seen \in [Calls -> Times \cup {Never}]
  /\ pc \in [Calls -> {"idle", "reserve", "throttled", "match", "claim",
                       "record", "done", "failed"}]
  /\ now \in [Calls -> Times]
  /\ client \in [Calls -> Clients]
  /\ shown \in [Calls -> Codes \cup {Malformed}]
  /\ verdict \in [Calls -> Outcomes]
  /\ wait \in [Calls -> 0 .. Window]
  /\ cpc \in [Checks -> {"idle", "lookup", "touch", "done"}]
  /\ cnow \in [Checks -> Times]
  /\ token \in [Checks -> Calls]
  /\ genuine \in [Checks -> BOOLEAN]
  /\ admitted \in [Checks -> BOOLEAN]

Init ==
  /\ clock = 0
  /\ codes = [k \in Codes |-> NoRow]
  /\ attempt = [r \in Calls |-> "absent"]
  /\ device = [r \in Calls |-> "none"]
  /\ seen = [r \in Calls |-> Never]
  /\ pc = [r \in Calls |-> "idle"]
  /\ now = [r \in Calls |-> 0]
  /\ client = [r \in Calls |-> CHOOSE c \in Clients : TRUE]
  /\ shown = [r \in Calls |-> Malformed]
  /\ verdict = [r \in Calls |-> "unknown"]
  /\ wait = [r \in Calls |-> 0]
  /\ cpc = [v \in Checks |-> "idle"]
  /\ cnow = [v \in Checks |-> 0]
  /\ token = [v \in Checks |-> CHOOSE r \in Calls : TRUE]
  /\ genuine = [v \in Checks |-> FALSE]
  /\ admitted = [v \in Checks |-> FALSE]

-----------------------------------------------------------------------------
(* Time.  A call that still has to use its `now' for a decision is not left
   behind by more than MaxStall: every transaction waits at most the busy
   timeout and then raises (see CallFails, IssueFails).                      *)

Deciding(r) == pc[r] \in {"reserve", "match", "claim"}

Tick ==
  /\ clock < MaxTime
  /\ \A r \in Calls : Deciding(r) => clock < now[r] + MaxStall
  /\ \A k \in Codes : codes[k].st = "hashing" => clock < codes[k].created + MaxStall
  /\ clock' = clock + 1
  /\ UNCHANGED <<codes, attempt, device, seen, callVars, checkVars>>

-----------------------------------------------------------------------------
(* Operator side: issue_pairing_code.                                        *)

Stored(k) == codes[k].st = "stored"

\* consumed_at IS NULL AND expires_at > t
LiveAt(k, t) == Stored(k) /\ codes[k].consumed = Never /\ codes[k].expires > t

\* The clock is read and the code is hashed before the transaction begins.
IssueBegins(k, ttl) ==
  /\ codes[k].st = "unissued"
  /\ codes' = [codes EXCEPT ![k] = [st |-> "hashing", created |-> clock,
                                    expires |-> clock + ttl, consumed |-> Never]]
  /\ UNCHANGED <<clock, attempt, device, seen, callVars, checkVars>>

\* Mutant: the cap is compared with <= instead of <.
HasRoom_OffByOne(k) ==
  Cardinality({j \in Codes : LiveAt(j, codes[k].created)}) <= MaxLive

HasRoom(k) ==
  Cardinality({j \in Codes : LiveAt(j, codes[k].created)}) < MaxLive

\* Mutant: used-up and expired codes are not retained for the audit.
Outdated_NoRetention(j, k) ==
  Stored(j) /\ codes[j].expires <= codes[k].created

\* DELETE ... WHERE expires_at < created_at - retain_codes_for
Outdated(j, k) ==
  Stored(j) /\ codes[j].expires < codes[k].created - CodeRetention

IssueStores(k) ==
  /\ codes[k].st = "hashing"
  /\ HasRoom(k)
  /\ codes' = [j \in Codes |->
                 IF j = k THEN [codes[j] EXCEPT !.st = "stored"]
                 ELSE IF Outdated(j, k) THEN [codes[j] EXCEPT !.st = "purged"]
                 ELSE codes[j]]
  /\ UNCHANGED <<clock, attempt, device, seen, callVars, checkVars>>

\* At the cap the transaction rolls back, the deletion included; the code was
\* never shown to anyone, so its id may as well be drawn again.
IssueRefused(k) ==
  /\ codes[k].st = "hashing"
  /\ ~HasRoom(k)
  /\ codes' = [codes EXCEPT ![k] = NoRow]
  /\ UNCHANGED <<clock, attempt, device, seen, callVars, checkVars>>

\* The command dies, or cannot take the database lock, before its transaction.
IssueFails(k) ==
  /\ codes[k].st = "hashing"
  /\ codes' = [codes EXCEPT ![k] = NoRow]
  /\ UNCHANGED <<clock, attempt, device, seen, callVars, checkVars>>

-----------------------------------------------------------------------------
(* Device side: redeem_pairing_code.                                         *)

\* A request arrives.  A throttled caller may knock again with the same body.
RedeemBegins(r, c, s) ==
  /\ \/ pc[r] = "idle"
     \/ pc[r] = "throttled" /\ client[r] = c /\ shown[r] = s
  /\ pc' = [pc EXCEPT ![r] = "reserve"]
  /\ now' = [now EXCEPT ![r] = clock]
  /\ client' = [client EXCEPT ![r] = c]
  /\ shown' = [shown EXCEPT ![r] = s]
  /\ wait' = [wait EXCEPT ![r] = 0]
  /\ UNCHANGED <<clock, codes, attempt, device, seen, verdict, checkVars>>

\* The rows left after DELETE ... WHERE attempted_at < t - retain_attempts_for.
Kept(t) == {r \in Calls : attempt[r] # "absent" /\ now[r] >= t - AttemptRetention}

\* Mutant: a guess counts only once its outcome is known.
InWindow_Settled(c, t) ==
  {r \in Kept(t) : /\ client[r] = c /\ now[r] > t - Window
                   /\ attempt[r] # "unknown"}

\* The rows that count: client_id = c AND attempted_at > t - window.
InWindow(c, t) == {r \in Kept(t) : client[r] = c /\ now[r] > t - Window}

AfterCleanup(t) == [r \in Calls |-> IF r \in Kept(t) THEN attempt[r] ELSE "absent"]

\* Mutant: the wait is for the newest slot instead of the oldest.
SecondsUntilFree_Newest(c, t) ==
  LET newest == CHOOSE m \in {now[r] : r \in InWindow(c, t)} :
                  \A r \in InWindow(c, t) : m >= now[r]
  IN  newest + Window - t

SecondsUntilFree(c, t) ==
  LET oldest == CHOOSE m \in {now[r] : r \in InWindow(c, t)} :
                  \A r \in InWindow(c, t) : m <= now[r]
      remaining == oldest + Window - t
      capped == IF remaining < Window THEN remaining ELSE Window
  IN  IF capped < 1 THEN 1 ELSE capped

SlotIsFree(r) == Cardinality(InWindow(client[r], now[r])) < Limit

\* The row is written before the code is looked at, as an "unknown" guess.
ReserveGrants(r) ==
  /\ pc[r] = "reserve"
  /\ SlotIsFree(r)
  /\ attempt' = [AfterCleanup(now[r]) EXCEPT ![r] = "unknown"]
  /\ pc' = [pc EXCEPT ![r] = "match"]
  /\ UNCHANGED <<clock, codes, device, seen, now, client, shown, verdict, wait, checkVars>>

\* The refusal commits too: the deletion of old rows is kept.
ReserveThrottles(r) ==
  /\ pc[r] = "reserve"
  /\ ~SlotIsFree(r)
  /\ attempt' = AfterCleanup(now[r])
  /\ wait' = [wait EXCEPT ![r] = SecondsUntilFree(client[r], now[r])]
  /\ pc' = [pc EXCEPT ![r] = "throttled"]
  /\ UNCHANGED <<clock, codes, device, seen, now, client, shown, verdict, checkVars>>

\* Mutant: rows are ranked by age alone.
Outranks_RecencyOnly(j, k, t) ==
  \/ codes[j].created > codes[k].created
  \/ codes[j].created = codes[k].created /\ j > k

\* ORDER BY live DESC, created_at DESC, code_id DESC
Outranks(j, k, t) ==
  \/ LiveAt(j, t) /\ ~LiveAt(k, t)
  \/ /\ LiveAt(j, t) = LiveAt(k, t)
     /\ \/ codes[j].created > codes[k].created
        \/ codes[j].created = codes[k].created /\ j > k

Candidates(t) ==
  LET rows == {k \in Codes : Stored(k) /\ codes[k].expires >= t - CodeRetention}
  IN  {k \in rows : Cardinality({j \in rows : Outranks(j, k, t)}) < MaxCandidates}

MatchVerdict(r) ==
  LET k == shown[r]
  IN  IF k = Malformed THEN "malformed"
      ELSE IF k \notin Candidates(now[r]) THEN "unknown"
      ELSE IF codes[k].consumed # Never THEN "reused"
      ELSE IF codes[k].expires <= now[r] THEN "expired"
      ELSE "accepted"

\* One read of the candidate rows; only a live, unused code goes on to a claim.
Match(r) ==
  /\ pc[r] = "match"
  /\ verdict' = [verdict EXCEPT ![r] = MatchVerdict(r)]
  /\ pc' = [pc EXCEPT ![r] = IF MatchVerdict(r) = "accepted" THEN "claim" ELSE "record"]
  /\ UNCHANGED <<clock, codes, attempt, device, seen, now, client, shown, wait, checkVars>>

\* Mutant: the UPDATE trusts the earlier read that the code was unused.
Claimable_ReadEarlier(r) ==
  Stored(shown[r]) /\ codes[shown[r]].expires > now[r]

\* UPDATE ... WHERE consumed_at IS NULL AND expires_at > now
Claimable(r) == LiveAt(shown[r], now[r])

\* Mutant: UPDATE and INSERT commit separately, and the process may die between.
ClaimWins_TwoCommits(r) ==
  /\ pc[r] = "claim"
  /\ Claimable(r)
  /\ codes' = [codes EXCEPT ![shown[r]].consumed = now[r]]
  /\ \/ device' = [device EXCEPT ![r] = "active"] /\ pc' = [pc EXCEPT ![r] = "record"]
     \/ device' = device /\ pc' = [pc EXCEPT ![r] = "failed"]
  /\ UNCHANGED <<clock, attempt, seen, now, client, shown, verdict, wait, checkVars>>

ClaimWins(r) ==
  /\ pc[r] = "claim"
  /\ Claimable(r)
  /\ codes' = [codes EXCEPT ![shown[r]].consumed = now[r]]
  /\ device' = [device EXCEPT ![r] = "active"]
  /\ pc' = [pc EXCEPT ![r] = "record"]
  /\ UNCHANGED <<clock, attempt, seen, now, client, shown, verdict, wait, checkVars>>

ClaimLoses(r) ==
  /\ pc[r] = "claim"
  /\ ~Claimable(r)
  /\ verdict' = [verdict EXCEPT ![r] = "reused"]
  /\ pc' = [pc EXCEPT ![r] = "record"]
  /\ UNCHANGED <<clock, codes, attempt, device, seen, now, client, shown, wait, checkVars>>

\* An UPDATE by attempt_id: no effect once the row has been deleted.
Recorded(r) == IF attempt[r] = "absent" THEN "absent" ELSE verdict[r]

Record(r) ==
  /\ pc[r] = "record"
  /\ attempt' = [attempt EXCEPT ![r] = Recorded(r)]
  /\ pc' = [pc EXCEPT ![r] = "done"]
  /\ UNCHANGED <<clock, codes, device, seen, now, client, shown, verdict, wait, checkVars>>

\* The process dies between two transactions, or the next one cannot be taken.
CallFails(r) ==
  /\ pc[r] \in {"reserve", "match", "claim", "record"}
  /\ pc' = [pc EXCEPT ![r] = IF pc[r] = "reserve" THEN "idle" ELSE "failed"]
  /\ UNCHANGED <<clock, codes, attempt, device, seen, now, client, shown, verdict, wait, checkVars>>

-----------------------------------------------------------------------------
(* Token verification and revocation.                                        *)

\* The secret left the host only in the answer of a finished call.
Delivered(r) == pc[r] = "done" /\ device[r] # "none"

CheckBegins(v, r, secret) ==
  /\ cpc[v] = "idle"
  /\ secret => Delivered(r)
  /\ cpc' = [cpc EXCEPT ![v] = "lookup"]
  /\ cnow' = [cnow EXCEPT ![v] = clock]
  /\ token' = [token EXCEPT ![v] = r]
  /\ genuine' = [genuine EXCEPT ![v] = secret]
  /\ UNCHANGED <<clock, codes, attempt, device, seen, callVars, admitted>>

\* Mutant: the row is read without looking at revoked_at.
Recognized_EvenRevoked(v) == genuine[v] /\ device[token[v]] # "none"

Recognized(v) == genuine[v] /\ device[token[v]] = "active"

CheckLooksUp(v) ==
  /\ cpc[v] = "lookup"
  /\ cpc' = [cpc EXCEPT ![v] = IF Recognized(v) THEN "touch" ELSE "done"]
  /\ UNCHANGED <<clock, codes, attempt, device, seen, callVars, cnow, token, genuine, admitted>>

\* touch_device is a transaction of its own and does not look at revoked_at.
CheckTouches(v) ==
  /\ cpc[v] = "touch"
  /\ seen' = [seen EXCEPT ![token[v]] = cnow[v]]
  /\ admitted' = [admitted EXCEPT ![v] = TRUE]
  /\ cpc' = [cpc EXCEPT ![v] = "done"]
  /\ UNCHANGED <<clock, codes, attempt, device, callVars, cnow, token, genuine>>

\* AUTH_UNAVAILABLE: the store could not be read or written.
CheckFails(v) ==
  /\ cpc[v] \in {"lookup", "touch"}
  /\ cpc' = [cpc EXCEPT ![v] = "done"]
  /\ UNCHANGED <<clock, codes, attempt, device, seen, callVars, cnow, token, genuine, admitted>>

\* A second revocation rolls back and keeps the first one's instant and reason.
Revoke(r) ==
  /\ device[r] = "active"
  /\ device' = [device EXCEPT ![r] = "revoked"]
  /\ UNCHANGED <<clock, codes, attempt, seen, callVars, checkVars>>

-----------------------------------------------------------------------------
Issue(k) ==
  \/ \E ttl \in TTLs : IssueBegins(k, ttl)
  \/ IssueStores(k) \/ IssueRefused(k) \/ IssueFails(k)

Redeem(r) ==
  \/ \E c \in Clients, s \in Codes \cup {Malformed} : RedeemBegins(r, c, s)
  \/ ReserveGrants(r) \/ ReserveThrottles(r)
  \/ Match(r) \/ ClaimWins(r) \/ ClaimLoses(r) \/ Record(r)
  \/ CallFails(r)

Verify(v) ==
  \/ \E r \in Calls, secret \in BOOLEAN : CheckBegins(v, r, secret)
  \/ CheckLooksUp(v) \/ CheckTouches(v) \/ CheckFails(v)

Next ==
  \/ Tick
  \/ \E k \in Codes : Issue(k)
  \/ \E r \in Calls : Redeem(r) \/ Revoke(r)
  \/ \E v \in Checks : Verify(v)

Spec == Init /\ [][Next]_vars

-----------------------------------------------------------------------------
(* Properties.                                                               *)

\* The calls that were given a slot, and so could test a code.
Spent(r) == pc[r] \in {"match", "claim", "record", "done", "failed"}

SpentBy(c, t) ==
  {r \in Calls : Spent(r) /\ client[r] = c /\ t < now[r] /\ now[r] <= t + Window}

(* In no window, wherever it starts, does one client get to test more than
   Limit codes: neither by racing its own calls, nor by dying halfway, nor
   because rows it still owes were deleted (reserve_pairing_attempt).        *)
RateLimit ==
  \A c \in Clients : \A t \in Times \cup {Never} :
    Cardinality(SpentBy(c, t)) <= Limit

(* Two calls that race on one code never both register a device
   (consume_code_and_register_device).                                       *)
SingleUse ==
  \A q, r \in Calls :
    device[q] # "none" /\ device[r] # "none" /\ shown[q] = shown[r] => q = r

(* A code is used up exactly when a device was registered from it: no crash
   leaves one without the other, and the stamp is that call's own instant,
   before the code's expiry.                                                 *)
ConsumedIffPaired ==
  /\ \A k \in Codes : codes[k].consumed # Never =>
       \E r \in Calls : device[r] # "none" /\ shown[r] = k
  /\ \A r \in Calls : device[r] # "none" =>
       /\ shown[r] \in Codes
       /\ codes[shown[r]].consumed = now[r]
       /\ now[r] < codes[shown[r]].expires

(* The audit rows do not lie: "accepted" only beside this call's own device,
   "reused" only when another call paired from that code, and a device whose
   call ended otherwise is still on record as a counted guess.               *)
AuditIsHonest ==
  \A r \in Calls :
    /\ attempt[r] = "accepted" => device[r] # "none"
    /\ attempt[r] = "reused" =>
         \E q \in Calls \ {r} : device[q] # "none" /\ shown[q] = shown[r]
    /\ device[r] # "none" => attempt[r] \in {"unknown", "accepted", "absent"}

(* However operators race, no more than MaxLive codes can be redeemed at any
   instant (insert_pairing_code counts and inserts in one transaction).      *)
LiveCodesBounded ==
  Cardinality({k \in Codes : LiveAt(k, clock)}) <= MaxLive

(* A call that shows a code which is live at this very moment is never told
   the code does not exist, however many dead rows or newer codes there are
   and however old the call's own `now' (candidate_pairing_codes).           *)
LiveCodeNeverBuried ==
  [][\A r \in Calls :
       /\ pc[r] = "match" /\ pc'[r] = "record"
       /\ verdict'[r] = "unknown"
       => shown[r] \in Codes /\ ~LiveAt(shown[r], clock)]_vars

Newest(r) == \A q \in Calls :
  attempt[q] # "absent" /\ client[q] = client[r] => now[q] <= now[r]

FreeIn(r, s) == Cardinality(InWindow(client[r], now[r] + s)) < Limit

(* The wait a throttled caller is told is exact: if nobody spends a slot in
   the meantime one is free after that many ticks, and none is free earlier
   (_seconds_until_free; "never reported as zero").  Said of calls that no
   later one has overtaken.                                                  *)
RetryAfterIsExact ==
  [][\A r \in Calls :
       pc[r] = "reserve" /\ pc'[r] = "throttled" /\ Newest(r)
       => FreeIn(r, wait'[r]) /\ ~FreeIn(r, wait'[r] - 1)]_vars

(* Codes, devices and token checks behave as PairingContract says.           *)
Contract == INSTANCE PairingContract WITH
    Devices <- Calls, NoCode <- Malformed,
    offered <- {k \in Codes : Stored(k) /\ codes[k].consumed = Never},
    spent   <- {k \in Codes : codes[k].st = "purged" \/ codes[k].consumed # Never},
    paired  <- [r \in Calls |-> IF device[r] = "none" THEN Malformed ELSE shown[r]],
    revoked <- {r \in Calls : device[r] = "revoked"},
    about   <- token,
    check   <- [v \in Checks |->
                  CASE cpc[v] = "idle"   -> "none"
                    [] cpc[v] = "lookup" -> "asking"
                    [] cpc[v] = "touch"  -> "granted"
                    [] OTHER -> IF admitted[v] THEN "granted" ELSE "refused"]

(* The refinement, as a property TLC checks.                                 *)
KeepsContract == Contract!Spec
=============================================================================
