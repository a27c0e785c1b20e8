# us-stock-helper: a TLA+ model of its shared state and its decisions

us-stock-helper is a personal research assistant for US equities: Python
services on one host (a market gateway in front of OpenD, an analysis API, the
libraries behind it), a script that installs them as launchd jobs, and a React
Native app on a phone. Two things in it are hard to test. One is the state that
several threads, requests, processes or devices share: pairing, caches, polling,
deadlines, files and jobs. The other is the path of one decision through many
small rules about time and trust: which bar, event or row was known at the
cutoff, what corroborates what, which gate has the last word. That is what these
modules are about.

All paths below are relative to `src/`, the root of the repository.

## 1. Inventory

600 files, 185 000 lines. `docs/`, `.agents/`, `.superpowers/`, fixtures, assets
and generated files are left aside.

| component | state it keeps | operations | interacts with |
|---|---|---|---|
| `services/device_auth` (store, service) | SQLite tables `pairing_codes`, `pairing_attempts`, `devices` | issue a code, redeem it, verify a token, revoke, list | the analysis API (device gate), the operator's command line, the phone |
| `services/analysis_api` `http_app`, `device_gate`, `service` | none of its own | admit a request, read its sources in order, decide, brief, render | device_auth, the evidence provider, the market gateway, the adviser |
| `market_universe_cache`, `market_brief` | named slots with a value, an expiry and an in-flight marker | `get_or_compute`, the bounded universe fetch | the market gateway, every dashboard load |
| `services/information_layer/feeds` (`coordinator`, `collector`) | per source: validators, published hashes and revisions, last poll; the store of accepted items | `poll`, `collect_with_failures`, `evidence`, `snapshot` | publishers over HTTP, concurrent requests |
| `coordinator_state`, `evidence_provider`, `__main__` | the snapshot file | save after a sweep, restore at start, final save | the coordinator, the file system |
| `cik_registry_provider` | one memoised registry | double-checked load | the SEC, every request |
| `services/information_layer` (`pipeline`, `clustering`, `sentiment`, ...) | none | from the events of one read to clusters, confirmation and sentiment | the evidence provider, the decision engine |
| `services/market_gateway` | a thread pool per snapshot, OpenD contexts | health, watchlist, quotes, candles, capital flow and distribution, holdings, snapshots v2 and v3 | OpenD, the analysis API, the phone |
| `services/adviser_llm` | none between calls | two blocks of bounded retried calls, tracing and gating of the answers | an external model |
| `services/decision_engine`, `analysis_core` | none | chart readings, features, gates, score, scenarios, risk plan | the analysis service, the gateway's chart |
| `services/adviser_layer` | none | the rule-based council | the decision engine, with no opinions given |
| `apps/mobile` data layer (`marketRepository`, `MarketDataProvider`, hooks) | shared in-flight requests, cached rows, per-scope sequence numbers | subscribe, abandon, refresh, decide | the gateway and the analysis API |
| `apps/mobile` device session | stored credential, session state | restore, pair, forget, revocation report | device_auth through the analysis API |
| `scripts/local_runtime*` | plists, staged plists, an ownership manifest, launchd jobs | install, reinstall, uninstall, recover, status | launchctl, lsof, the file system |

Where it is hard, and what correctness means there:

- **Pairing.** Every request has a thread of its own; each call makes several
  SQLite transactions, reads its clock before it waits for the first one (up to
  15 s) and may die between any two. Correct: a code pairs one device, the
  guess limit holds in every window, live codes are bounded and never hidden,
  the audit rows tell the truth, a revoked token is refused.
- **Universe cache.** Concurrent loads, a fetch that takes minutes outside the
  lock, a deadline in its middle, a key that rolls over while it runs. Correct:
  no marker outlives its call, no leader clears another one's, only complete
  results live for the day.
- **Evidence polling.** Two locks, one for the record of what was published and
  one for the store, I/O outside both, publishers that change under way, saves
  that race, restarts that keep one half of the state. Correct: publishers are
  asked no more often than allowed, nothing counted as published is lost,
  corrections keep their order, reads end.
- **Snapshot collection.** Four provider calls in threads of their own, gathered
  one after the other under a timeout each and a deadline for all, by a thread
  that may itself be late. Correct: timely results are kept, late ones are named
  as failed, the waits do not add up, hanging calls hold nothing up, and
  nothing is begun for a request that has ended.
- **Gateway operations.** An OpenD that pages, repeats keys, refuses batches,
  answers in part and stamps rows by its own clock; a host clock that may be set
  back. Correct: what is served is whole, nothing in it is newer than the
  cutoff, and what was left out is named.
- **Chart readings.** Every reading is computed anew from all the bars. Correct:
  a later bar never changes what was confirmed, counted or drawn, and functions
  that count the same thing agree.
- **A decision.** Half of its inputs are read before the cutoff and half after
  it, publishers revise, copies of one report arrive by several ways, the
  council answers when everything else is drawn. Correct: nothing known later
  enters, nothing the request read itself is lost, copies do not corroborate
  each other, a gate stays closed.
- **Local runtime.** A command is a dozen steps on files, jobs and a manifest,
  any of which may fail before or after its effect; the process may be killed
  and the machine restarted; other programs use the same ports and paths.
  Correct: the manifest accounts for what is there, interrupted commands are
  healed, failed ones undone, foreign files and jobs never touched.
- **Mobile data, device session.** Answers of abandoned scopes, revocation
  racing a new pairing. Planned, see section 2.

`PROJECT.json` lists the components with their status and the main hazards, each
at its line.

## 2. Plan

Written, in this order:

1. `DeviceAuth`, and `PairingContract` as the abstract specification it
   implements. The only component where a mistake hands out access.
2. `UniverseCache`. Self-contained, and the lock protocol is subtle.
3. `FeedPolling`. The longest path through shared state: coordinator, collector,
   provider and state file composed.
4. `SnapshotCollector`. The fan-out of the market gateway with its deadlines, the
   one place where the gateway's threads meet.
5. `LocalRuntime` and, one level below, `TrustedFile`: the largest component of
   the repository whose failures leave something behind.
6. `MarketGateway` on `SnapshotDocument`: the requests, the adapter and the
   documents around the fan-out.
7. `ChartShapes`, `EvidencePacket` and, composing the latter with the sources,
   the engine and the council, `DecisionPath`.

8. `FeedContract`, the abstract specification `FeedPolling` implements.
9. The proofs: every safety property of these modules, and the refinements of
   `PairingContract` and `FeedContract` (section 5).

To come:

10. `MarketRepository`: shared in-flight requests of `marketRepository.ts`
    119-232, and the hooks of `MarketDataProvider.tsx` that must drop answers of
    an abandoned scope.
11. `DeviceSession`: `DeviceSessionProvider.tsx` 179-270 and the pairing client,
    composed with `PairingContract` in place of the host; lost answers and
    reports of revocation that arrive late.
12. `TickerRegistry` (double-checked loading) and `SchemaInit` (two processes on
    an empty database, `store.py` 244-273).

An abstract specification still worth stating is one for the manifest (settled,
in transit, stuck) that `LocalRuntime` implements. `MovesAreAnnounced` and the
other theorems about it say the same of its variables already.

## 3. Modules and the code

| module | models |
|---|---|
| `DeviceAuth` | `device_auth/store.py`, `service.py` |
| `PairingContract` | abstract specification: what pairing promises |
| `UniverseCache` | `market_universe_cache.py`, `_fetch_universe` and `_trading_date` of `market_brief.py` |
| `FeedPolling` | `coordinator.py`, `collector.py`, the adapters' acceptance rule, `coordinator_state.py`, `evidence_provider.py` |
| `FeedContract` | abstract specification: what polling promises of each feed |
| `SnapshotCollector` | `_collect_snapshot_v3_batches` of `market_gateway/service.py` |
| `SnapshotDocument` | operators: the validation of batches and rows, the v2 document, the v3 sections (`service.py`, `snapshot.py`, `snapshot_v3.py`) |
| `MarketGateway` | `http_gateway.py`, `opend_adapter.py` and the operations of `service.py`; extends `SnapshotDocument` |
| `LocalRuntime` | `scripts/local_runtime.py` |
| `TrustedFile` | `atomic_write_trusted_file`, `quarantine_trusted_file` of `local_runtime_support.py` |
| `ChartShapes` | `patterns_shapes.py`, `patterns.py`, the pattern factor of `scoring.py`, the chart of the gateway's `snapshot.py` |
| `EvidencePacket` | operators: `pipeline.py`, `clustering.py`, `similarity.py`, `sentiment.py`, `_actionable_event_ids` |
| `DecisionPath` | `http_app.py`, `service.py` and the providers of the analysis API, `engine.py`, `score_horizon`, `adviser_llm`; extends `EvidencePacket` |
| `...Proofs` | theorems about the module each is named after; `DecisionPathProofs` also about `EvidencePacket`, `SnapshotProofs` about `SnapshotCollector` and `ChartShapes` |
| `MCDeviceAuth`, `MCFeedPolling`, `MCChartShapes`, `MCDecisionPath` | symmetry sets, tapes and events for TLC |

`map` in `PROJECT.json` gives the lines behind every definition. Operators whose
name has a suffix after an underscore and a comment that begins with "Mutant"
are deliberate mistakes: substituted for the definition they are named after,
each makes TLC find a property violated. They are not part of the model.

### DeviceAuth

A `BEGIN IMMEDIATE .. COMMIT` block, or a single statement outside one, is an
action. A redemption goes through `pc`:

    idle -> reserve -> match -> claim -> record -> done
               |         |        |                      (failed from any of them)
           throttled     +--------+--> record

| action | code |
|---|---|
| `RedeemBegins` | the request arrives and reads its clock (`redeem_pairing_code`) |
| `ReserveGrants`, `ReserveThrottles` | `reserve_pairing_attempt`: delete old rows, count, insert the guess or compute the wait |
| `Match` | normalise, read the candidate rows, compare hashes |
| `ClaimWins`, `ClaimLoses` | `consume_code_and_register_device`: conditional update and insert, one transaction |
| `Record` | `record_pairing_outcome` by attempt id |
| `CallFails` | the process dies, or the busy timeout raises, between two of them |
| `IssueBegins` .. `IssueFails` | `issue_pairing_code`: clock and hash outside the transaction, delete, count and insert inside |
| `CheckBegins`, `CheckLooksUp`, `CheckTouches`, `CheckFails` | `verify_token`: look-up and touch are two transactions |
| `Revoke` | `revoke_device`; a second one changes nothing |

A redemption call names its row in `pairing_attempts` and the row it may add to
`devices`; both carry the call's own instant, so only their other columns are
state. A code is an id: the hash comparison of the code is the equality of ids,
and `genuine` says whether a presented token carries the right secret. A caller
can present any id, issued or not, or a malformed one; it can present a genuine
token only if the answer that carried it was delivered.

Time is a clock in ticks. `MaxStall` is how far the clock may run ahead of the
instant a call has read while the call still decides by it; the code bounds
that by the busy timeout of each transaction. `RetentionAssumption`,
`Window + MaxStall <= AttemptRetention`, holds with a wide margin for the
defaults (one minute, three waits of 15 s, one day) and is what makes the limit
provable: without it a fast call could delete rows that a slow one must count.
`CodeRetentionAssumption`, `MaxStall <= CodeRetention` (15 s, one hour), says the
same of code rows: a code that a call has matched is still there when the call
claims it, so a lost claim means that somebody else used it.

`PairingContract` is the abstract specification: codes are offered and used up,
a device is paired from one offered code, a revocation is final, and a token
check is granted only at an instant, between its request and its answer, at
which the device was paired and not revoked. The refinement mapping is at the
end of `DeviceAuth`; `KeepsContract` is the property.

Left out: `labels`, revocation reasons, listings, the format of codes and
tokens, constant-time comparison, schema creation (planned), and the response
texts of `device_gate.py`, whose mapping of a storage error to
`AUTH_UNAVAILABLE` is `CheckFails`.

### UniverseCache

One named slot; slots share nothing but the lock. The three lock sections of
`get_or_compute` are the actions `Hit`/`Pending`/`Lead`, `Settle` (the
`finally`) and `Commit`. Between them a leader fetches symbol by symbol:
`FetchSymbol` before the deadline, answered or not, `SkipSymbol` after it,
`ComputeRaises` at any point. `Key(c)` is the trading date of the call's own
`as_of`; a day is `Day` ticks, so the key may roll over while a leader computes.
The value of a slot is named by the call that computed it (`slot.by`), which
still holds what its fetch counted. `ComputeReturns` leaves open whether the
bars reach back far enough, the other condition of a healthy entry.

### FeedPolling

One action per lock section or I/O step of a request:

| action | code |
|---|---|
| `Begin` | `_poll_sources` begins a sweep and reads the clock (the cutoff) |
| `SkipSource`, `Reserve` | the throttle of `poll()`, one lock section: too early, or stamp `last_polled_at` and take the validators |
| `NotModified`, `Answered`, `Unreadable` | the fetch, outside the lock: a 304, a body, a failure of transport or parsing, or an exception nobody but the request's own handler expects, which ends the request |
| `Commit` | the second lock section: validators, published hash, revision |
| `Insert` | the collector's store, under the collector's lock |
| `Evict`, `Select`, `SelectFails`, `Refuse` | retention, then the read: items, a `ValueError` from `freshness_seconds`, `EvidenceUnavailable` |
| `Snapshot`, `Replace`, `SaveFails` | `CoordinatorStateStore.save`: snapshot, temporary file, rename, or an `OSError` that is printed |
| `Crash`, `Stop` | the end of a process, without and with the final save, and the start of the next, which restores the coordinator and nothing else |
| `Publish` | a publisher (external) replaces the content of its feed |

Each feed carries one claim whose content the publisher replaces: content `v`
has hash `v` and its own event id, and a body with it has validators `v`.
Content 0 is a feed without entries. An entry counts only if it lies between
the lookback and the cutoff (`Accepted`), exactly the test of the adapters.
`asked` and `heard` are history: no action reads them. Reading the clock for the
answer is part of `Evict`: nothing another request does distinguishes the two.
`FeedContract` is the abstract specification: per feed, contents are put up,
announced in that order with numbers that count up, delivered to readers at most
once each, and forgotten; a saved record is of some moment of that line, and a
process that starts goes on from it, with nothing delivered. Requests,
intervals, clocks, responses and validators do not occur in it. The refinement
mapping, at the end of `FeedPolling`, reads what is announced off `published`,
the record off the file, and what is held off the store (`Holdings`: contents
with their revisions, without their age). `KeepsFeedContract` is the property.
`Commit` is the contract's `Announce` when it finds news, `Insert` its `Deliver`,
`Evict` its `Forget`, `Replace` its `Save`, `Crash` and `Stop` its `Restart`; the
other steps leave its variables alone.

`Stop` saves what the coordinator holds; an older save of a dying request that
lands after it is the same as that `Replace` followed by `Crash`.

Left out: `consecutive_failures`, which only recommends a delay; feeds with
several claims (the record is kept per claim key and claims do not interact);
malformed state files, which `os.replace` does not produce. A snapshot is taken
and renamed into place without a lock around both, so of two concurrent saves
the older one may land last; the model has that behaviour, and what it costs is
an announcement repeated after a restart that finds the older file.

### SnapshotCollector

One request: its executor is created for it and has a worker for each operation,
so requests do not meet. Three kinds of steps interleave: those of the
collector (the request's thread), those of the workers, and ticks.

| action | code |
|---|---|
| `BeginSubmit`, `Submit`, `SubmitRaises` | reading `submitted_at`, then `executor.submit`, which may take time or raise |
| `Start`, `Finish`, `Settle` | a worker takes the operation (external); it returns or raises and the `finally` of `timed_operation` records the time; the worker settles the future (external) |
| `Look` | reads the clock and computes `remaining` |
| `GiveUp`, `Wait` | `remaining <= 0 and not future.done()`, or `future.result(...)`, whose timeout runs from now and not from the look |
| `TimesOut`, `Take` | `FutureTimeoutError`, or a result or an error whose `completed_at` is compared with the deadline |
| `Close` | the `finally`: `cancel()` and `shutdown(wait=False, cancel_futures=True)`, which both reach queued operations only, so one step withdraws them |

An operation may finish at any time or never. `lag` counts the ticks that find
the collector with work to do: it was not scheduled, or `submit` was slow. It is
history, as is `settledAt`, the instant at which a future was done. The verdict `late` stands for the `PROVIDER_ERROR` of a
missed deadline, `error` for the failure an operation brought itself (which is
the same code unless the provider raised a `GatewayError`).

Left out: what the operations fetch, and the sections assembled from them, which
are in `MarketGateway` and `SnapshotDocument`.

### SnapshotDocument and MarketGateway

`SnapshotDocument` holds pure operators: a row is the instants it carries and
whether its other fields pass their checks; `Validated` is `_validate_batch`,
`Normal...` the five `_normalize_...` functions, `SnapshotV2` the document that
one bad batch fails, `SnapshotV3` the one whose sections stand alone, with
`HoldingsV3`, the walk over disclosed rows that names each it leaves out.

`MarketGateway` is one request through them; nothing is kept from one request
to the next, so one is enough.

| action | code |
|---|---|
| `Request` | `GatewayApplication.handle`: method, network, origin, token, route |
| `CheckHealth`, `Observe` | `_safe_health`, then `_health_state` against a second reading of the clock |
| `Connect`, `Call`, `CallFails` | the OpenD context and a single call; what fails is classified as an error |
| `Bisect` | one batch of `_watchlist_snapshots`; its recursion is the stack `work` |
| `Page` | one round of a paging loop, of candles or of holdings; a page is a row |
| `Respond`, `Receive` | the rows become items at one reading of the clock, the batch is stamped at the next |
| `Fetch`, `FetchFails` | a source of a snapshot has answered or failed |
| `Finish` | `_execute`, or the assembly of a document, at one more reading of the clock |
| `Tick`, `SetBack` | the host's clock, which may also be set back (external) |

OpenD may answer anything the adapter's checks let through: part of a batch, a
page key already seen, an endless chain of pages, rows out of order, rows stamped
ahead of the gateway's clock. `rows`, `pages` and `refused` are kept until the
answer, so that a property can compare what was served with what came.

Left out: the SDK's data frames and column names (a row is sound or not), what
makes an error retriable, the technical section's numbers (`ChartShapes` has the
rules of the chart), the snapshot's fan-out (`SnapshotCollector`).

### LocalRuntime

A component is a number, a plist or a job its version; the manifest is its
state with the digests it records, present and previous. `pc` is the phase of
the running command and `at` the component it is at; commands exclude each
other by a lock, so there is one.

| phases | code |
|---|---|
| `recheck`, `rHalt`, `rPlace`, `rBoot`, `rClear`, `rCommit` | `_recover_interrupted_state`, at the start of every command that finds an interrupted manifest: an install is rolled forward from its staged plists, an uninstall is finished |
| `plan`, `stage`, `intent` | preflight, staging, the manifest that names the transaction |
| `halt`, `place`, `boot`, `clear`, `commit` | `_install` and `uninstall`: boot the old jobs out, replace or remove the plists, boot the new ones, look at everything once more and settle the manifest |
| `look`, `bHalt`, `bPlace`, `bBoot`, `bSettle`, `giveUp` | `_rollback_install`; `giveUp` writes `rollback_required` |
| `putBack`, `resume`, `reBoot`, `uSettle` | the handlers of `uninstall` |

A step takes its luck from `Outcomes`: it works, it fails before its effect
(`early`), after it (`late`), and where the code tells those apart, after the
label is gone but before the port is free (`port`), or with the displaced file
not put back (`lost`). Each failure counts towards `MaxFaults`, as do the steps
of the environment: `Kill`, `Reboot` (launchd loads whatever plists there are),
`Squat` (a port is taken) and `Meddle` (a plist is replaced by a foreign one);
`Leave` and `OperatorBootout` are free.

The code looks and then acts, and somebody may put a plist of their own at the
path in between. So a check and what relies on it are steps of their own:
`Match` and `Displace` for the digest of a plist and the rename aside, `Prepare`
and `Boot` for the last look before a bootstrap and the bootstrap; `seen` is what
the step found. `GiveBack(private)` is what the re-read of a moved file leads to
when it is not the one that was found: the step fails, and the file goes back if
it is private (a regular file of this user, mode 0600, without ACLs) and the path
is free, and stays aside otherwise. `Publish` and `Clear` are the rest of a
replacement and of a removal, with the outcomes `TrustedFile` shows for the
system calls beneath them. `Status(c)` is what `status`, which takes no lock, answers at any
moment.

Four variables only observe. `met` says that the running command has moved or
started somebody else's plist. `owed` says that the running command began in a
state nobody else disturbed and has met no fault. `rebooted` says launchd has
loaded plists by itself, which makes a restart in the middle of an install
unrecoverable by design (`_validate_recovery_reachability`). `overtaken` marks
one corner with two faults: the settling write of the manifest fails after its
effect, the rollback begins with its commit already on disk, and is interrupted
as well; the manifest then says `installed` of what was being undone. The
properties except it by name.

Left out: the lock, directory creation and permissions, rendering of plists,
the launch wrapper with its logs and environment, the probing of ports by HTTP.

### TrustedFile

One file, the tombstone and the temporary file of the running call, and what
earlier calls left in the directory. An action is one system call:
`Capture` (the exclusive rename aside), `Verify` (what was moved is read again),
`Publish` (the exclusive rename of the new file), `Confirm`, `Absent`, `Restore`.
Each may fail before or after its effect; `Intrude` replaces or deletes the
target between any two of them. `live` collects the contents that nobody but
their owner may dispose of. A content is identified with its digest. `Exposed` are the
foreign contents in files that are not private: the re-read refuses such a file
whatever it holds, both ways of restoring compare its digest with the expected
one, and so a file of this kind that was moved is never put back.

### ChartShapes

Its specification is `ChartSpec`: the state is a series of completed bars that grows by one bar per step; `served`
is what the functions say of it, and `tape` bounds which bars may come. `Bar` is what
`OHLCVBar` accepts, a close between a low above zero and a high, and
`ChartAssumption` all that is assumed of a tape: that it consists of bars. The
detectors are set comprehensions over the extremes of the series; ratios are
compared in thousandths, necklines at twice and averages at five times their
value, so that integers suffice and no comparison is rounded. `Fractals`,
`Doubles`, `HeadShoulders` and `Pullbacks` are the detectors of
`patterns_shapes.py`, `TDSetup` and `MagicNine` the two counters of
`patterns.py`, `PatternFactor` what `scoring.py` makes of a reading, `Live` which
indicators of the gateway's chart have a value.

Two limits of what the code promises show up in the model. The replay claim of
`patterns_shapes.py` holds from a detector's minimum window on: a double whose
structure lies within the first six bars is found when the seventh arrives, at a
bar in the past (`detections[kind].live`). And an outside bar is a top and a
bottom fractal at once, whose two votes have equal size and time, so the order
of the list decides (`ListOrder`); nothing else depends on it.

Left out: the values of RSI, MACD and volatility, which do not decide anything
here but whether there are bars enough.

### EvidencePacket and DecisionPath

`EvidencePacket` goes from the events one read returned to the ones a decision
may count: `Visible`, `Clusters` (what is joined by a key, directly or through
others), `Active` (what nothing in the cluster corrects; when every report of it
is corrected by another, the `Newest`), `Action` (these without rumours),
`Reports` (one of each set of copies), `Identity` (a relayed report belongs to
whom it came from), `Actionable` (an authoritative source or two independent
ones, and enough trust), `Counted`. All corrections go round when a publisher
returns to an earlier wording: the coordinator announces the first event again
as a correction of its own correction. Who owns the publisher a report was
relayed from, `Identity` learns from the events of the same cluster that count
and from nothing else, as `owner_by_publisher` is built there: the answer depends
on what the read returned. No adapter in `src/` sets `ownership_group_id` or
`syndication_origin_id` yet; the core accepts both and its tests use them.
Averages are over events, without weights by age. `EventAssumption` says what
`EvidenceEvent` refuses to be built without (reliability and confidence between 0
and 100, sentiment between -1 and 1) and that a publisher has one owner.

`CorroboratedOnly` speaks of a cluster as a whole, because that is what the code
corroborates, and it names the two places where the code promises less than one
would expect: a corrected report may count if all of its story are corrected and
none is newer (`Reinstated`), and two accounts have different owners only as far
as the reports that count say so (`TwoAccounts`). What all this costs is told in
section 4.

`DecisionPath` is one request from the door to the answer:

    request -> bars -> evidence -> cutoff -> factors -> flow -> score -> brief
       |         |         |                                      |       |
    answered  unavailable  failed                              failed    news -> council -> done

| action | code |
|---|---|
| `Admit` | `_admit`: network, pairing path, credential, route (`Answers`); the answer of the pairing route is one of those `DeviceAuth` explains |
| `ReadBars`, `ReadEvidence` | before the cutoff; a source may fail, and a reader is the first to retrieve some of what it reads |
| `TakeCutoff` | `as_of = self.clock()`, and what the evidence amounts to at it |
| `ReadFactors`, `ReadFlow` | after it: rows published long ago or just now, a snapshot this request or another one started |
| `Evaluate` | `DecisionEngine.evaluate`: features, gates, score, scenarios, plan |
| `Brief`, `ModelAnswers`, `CallFails`, `AdviserFails` | the two blocks of the adviser with their retries, tracing, hard gate and cap |
| `SetBack` | the host's clock is set back, once (external) |

Magnitudes are sixths of full strength and a factor nobody supplied is `None`:
`score_horizon` gives its weight to those that were measured, which is the part
that matters. Variables no later step reads are reset as soon as they have been
used (`Evaluate`, `TakeCutoff`), which keeps the state space small; the action
properties look at them where they are used.

Left out: rendering of the answer, the market brief's route (`UniverseCache`),
sources beyond these five, prompts and wording of opinions (a conclusion is the
set of passages it cites, and whether its prose is grounded), the price levels
of a risk plan.

## 4. Runs

Twelve runs. Times are for two workers.

| run | asks | instance | size |
|---|---|---|---|
| `pairing` | `SingleUse`, `ConsumedIffPaired`, `AuditIsHonest`, `LiveCodesBounded`, `LiveCodeNeverBuried`, `KeepsContract` | 2 codes, 2 redemptions, 1 client, 1 check, lifetime 1, 1 live code, 1 candidate, clock to 2, stall 1 | 1.4 M states, 100 s |
| `ratelimit` | `RateLimit`, `RetryAfterIsExact` | 4 redemptions of 2 clients, limit 2 in a window of 2, retention 3, clock to 4 | 429 K states, 25 s |
| `universe_cache` | `HealthyMeansComplete`, `LeaderKeepsMarker`, `PendingIsTrue`, `SlotIsReleased` | 2 loads, 2 symbols, a rollover after 2 ticks, deadline and retry of 1, clock to 3 | 136 K states, 10 s |
| `feeds` | `PublishedIsHeld`, `PollsAreSpaced`, `RevisionsFollowThePublisher`, `KeepsFeedContract`, `EveryReadEnds` | 2 requests, 1 feed with 2 contents, interval 2, lookback 2, retention 1, polls of up to 1 tick, clock to 2, one restart | 430 K states, 90 s |
| `snapshot` | `TimelyIsKept`, `OnlyTimelyIsReported`, `AnswersInTime`, `NothingStartsAfterwards`, `AnswerComes` | 2 sources, source timeout 2, deadline 3, lag 2, clock to 5 | 306 K states, 10 s |
| `runtime` | `RecordIsTrue`, `LedgerCovers`, `HealsItself`, `FailureRestores`, `ForeignIsLeftAlone` | 2 components, 2 versions, 3 commands, 2 faults | 311 K states, 20 s |
| `trusted_file` | `NothingIsDestroyed`, `OneFaultIsUndone`, `OnlyTheExpectedIsReplaced` | 2 own contents and two foreign ones, one of them not private, 2 artifacts, 3 calls, 2 faults, 2 intrusions | 36 K states, 3 s |
| `gateway` | `SeriesIsWhole`, `WatchlistIsWhole`, `NothingFromTheFuture`, `RowsAreAccountedFor` | watchlists of up to 4, 2 page keys, 3 pages, 2 candles, ages 0 and 1, clock to 2, set back once | 364 K states, 20 s |
| `shapes` | `NeverRepainted`, `CountsAgree` | 5 tapes of 9 to 27 bars | 390 K states, 60 s |
| `decision` | `OwnReadingsCount`, `OnlyWhatWasKnown`, `GateHolds`, `CorroboratedOnly` | 8 events, reads of up to 3, 2 horizons, budget 3, 2 attempts, clock set back by 2 | 442 K states, 115 s |
| `feed_reads`, `decision_stopped` | one sentence of the repository each | the smallest instance with the case | seconds; violated |

Why the bounds are enough for the cases that matter:

- `pairing`: every hazard of a code is a race of two calls, and each call can
  fail between any two transactions. Lifetime 1, stall 1 and clock to 2 let a
  code expire between match and claim, and let its row be purged. Both the code
  table and the attempt table lose rows within the run. With one live code and
  one candidate allowed, a dead row or a second operator's code competes with
  the live one for the only place; the real values are 5 and 16. Limit 2 admits
  both racing guesses; the throttle is the subject of the next run.
- `ratelimit`: three guesses are needed to break a limit of two and a fourth,
  of the other client, to delete their rows with a clock that is ahead. The
  window (2) is longer than the stall (1), the retention (3) is exactly their
  sum, the least the assumption allows, and the clock (4) covers two windows.
- `universe_cache`: the rollover lies within the clock, the deadline is shorter
  than a day and falls between the two symbols.
- `feeds`: order and spacing are per feed, and what one feed's failure does to
  another's items is the absence of an action (`Unreadable` goes on to the next
  source, or ends the request with the items it has), so one feed is enough. A poll is shorter than the interval, see below.
- `snapshot`: the first of two sources is the slow one, the second the one that
  is looked at when its own time is over. With a lag of 2 the second can be
  submitted so late that the snapshot's deadline comes before its own, and the
  waits can overrun both. The clock runs on past the latest answer, so
  operations still run when the request has ended. The real values are 4
  sources, 5 s and 12 s.
- `runtime`: two components have a first and a second, one done and one not,
  in either direction. Three commands are an install, a command that a fault
  or a kill ends, and the one that meets what is left; two faults are one that
  starts an undo or a recovery and one that strikes within it. A foreign plist
  that arrives between a check and the step that relies on it is one of the two,
  so it is met at each such place, in a command and in its undo. The second
  version tells an upgrade from a repair.
- `trusted_file`: two faults are an error and an error while it is undone, two
  intrusions replace the target before and after it was moved. Of the foreign
  contents one can be put back and one cannot. Two artifacts
  reach the capacity (1024) by the third call.
- `gateway`: four codes are split twice, so that a code is refused alone, in a
  pair and in the whole list; two keys can repeat or circle, three pages reach
  the page limit (20). A session or a batch can be exactly as old as is allowed,
  and older. One step back of the clock suffices to put any reading before the
  one it follows.
- `shapes`: each tape makes one family of detectors meet its boundary values: a
  height alike to the last thousandth or not, a bar that is both a top and a
  bottom, an average that turns, a run of nine broken at every place and, on
  the rising tape, up to three runs after one another.
- `decision`: the eight events are a wire's report and its correction, a
  rewording that names the wire, a copy that names nobody, a report of another
  publisher of the wire's group, a filing and a correction of it that was taken
  back, and a rumour about the filing. Three of them in any combination show every
  rule of confirmation, a filing and its correction that revise each other among
  them, and the rewording beside the group's other report with the wire's own at
  hand, corrected, or missing. The clock set back by two falls behind both reads that precede
  the cutoff.

Symmetry is declared only in runs without a liveness property.
`CHECK_DEADLOCK FALSE` is set everywhere, as calls, requests, commands, tapes
and the clock are bounded and every behaviour stops.

**Fairness.** Liveness is asked of three modules. `UniverseCache` and
`FeedPolling` have weak fairness on the steps of a call that has begun: the
server gives each request a thread (`ThreadingHTTPServer`), no lock is held
across I/O, and every socket operation has a timeout, so each step is eventually
taken. There is no fairness for the arrival of requests, publishers, crashes or
the clock: what must end has to end even if the clock stands still.
`SnapshotCollector` has weak fairness on the collector's steps and on the clock,
as its waits end by time; none on the workers: a provider call may hang for
ever. The other modules have none: a call of `DeviceAuth` or a command of
`LocalRuntime` may be killed at any point and nothing is promised to it, and a
request to the gateway or for a decision is a finite sequence of steps.

### What the runs show that the text says otherwise

Each of the two has an entry under `findings` with the lines of both sides.

- `feed_reads`: a read takes its clock before the lock; an item inserted in
  between makes `freshness_seconds` raise, where a test
  (`test_evidence_collector.py` 519) is named after the opposite.
- `decision_stopped`: candles carry the time the gateway received them, and the
  stale-data gate compares that time with the cutoff, so it never fires for a
  series that has stopped. `scoring.py` 54-71 says what the budget is for:
  refusing to act on such a series.

Met while modelling, without a run:

- `market_universe_cache.py` 21-22 promises at most one universe fetch per
  burst. The leader clears its marker in the `finally` (131) and stores its
  result in a second lock section (136); a load that looks in between fetches
  again. Lines 13-15 promise a complete result the whole trading date; the slot
  is overwritten by whoever commits last, which may be a partial result or one
  for an earlier date.
- `evidence_provider.py` 3-4: an unreadable source must never look like a quiet
  market. A throttled source counts neither as failed nor as read, also when
  nothing was ever read from it: beside its first poll, or within the interval
  after that failed, a read has neither evidence nor a gap for it.
- `collector.py` 54-56: an empty result means that no source had anything to
  report. An entry dated after the start of the sweep is rejected while the
  validators of its body are kept; 304s then hide it until the feed changes.
- `errors.py` 77-79 of the gateway: a `PointInTimeViolation` must never be
  softened into an absence. In a v3 snapshot it becomes an unavailable section.
- `docs/handoffs/2026-08-17-agent-handoff.md` 155: a bootout and an install
  clear `rollback_required`. `_read_existing` refuses unless every plist is the
  one the manifest records as new, which a rollback that stopped half way
  seldom leaves (`GiveUp`, `Plan`).
- `clustering.py` decides whether a cluster's sentiment was measured from all of
  its events, rumours and corrected ones included, and averages the others: a
  cluster can count as measured with a sentiment of 0.0 nobody measured
  (`ClusterSentiment`), which `engine.py` 137-146 sets out to avoid.
- `clustering.py` 72-77 unions pairs, so a cluster is what is joined directly or
  through others. A wire report of "30 billion", the same headline without a
  figure in a daily, and a paper's report of "44 billion" become one cluster of
  independent sources and are actionable, though the figures keep the first and
  the last apart and neither would be actionable alone. `similarity.py` 8-11 calls
  over-merging the worse error and the rule conservative on every axis, which it
  is for a pair. `CorroboratedOnly` was first stated of pairs; its proof did not
  go through for events other than the seven the run then had, TLC showed why on three,
  and the code's `build_clusters` does the same. It now speaks of clusters.
- `similarity.py`: of copies of one report the first by event id is kept. If
  that is one which names no origin, the report counts as the copier's, and
  the original's other reports count as a second source. `CorroboratedOnly`
  therefore speaks of reports that come from different publishers by their own
  account.
- `clustering.py` 259-264 knows the owner of the publisher a report was relayed
  from only if a report of that publisher counts in the same cluster (231-238). A
  wire's group has a radio; a daily relays the wire. With the wire's report at
  hand the daily and the radio are one source and are not actionable; when a read
  lacks the wire's report, or holds it as a rumour, they are two and are. `test_reposts_do_not_inflate_independent_source_count`
  covers the case with the report at hand. A relay of a relay counts as its
  immediate source's: the chain is not followed to its end.
- `clustering.py` 89-93: a publisher that returns to its first wording makes the
  two events revise each other. While they are alone in their story the newer one
  counts; as soon as any other report of the story stands, a rumour included,
  neither does, and a verified filing that was restored stops confirming what it
  says.
- `local_runtime_support.py` 882-908: a plist somebody puts at the path between
  the digest check and the rename is moved aside. The re-read notices, but reads
  private files only; for any other it raises before it has a digest, both ways of
  restoring then find a digest other than the expected one, and the file stays
  aside under a forensic name while the path is empty. `OnlyTheExpectedIsReplaced`
  and `ForeignIsLeftAlone` say what is left: the command fails, and nothing of its
  own takes the place.
- `local_runtime.py` 1386-1404 looks at the plist a last time before `launchctl
  bootstrap` is called with its path. What is put there in between is started
  under the component's label. The command does not report success: the plist is
  no longer the one it wrote.
- `_remove_exact_intent` (`local_runtime.py` 1001-1016), which a rollback uses to remove what it had
  placed, asks only whether the path is empty: a foreign plist moved in that gap
  and left aside counts as removed.
- `adviser_provider.py` 216-255: an exception the adviser did not expect loses
  the token usage of calls already made (`AdviserFails`).
- The order-size proxy of the capital flow carries the time of its receipt,
  which is after `as_of`, so it enters a score only when another request's
  snapshot was joined (`ReadFlow`); `analysis_api/README.md` 30-33 reads as if
  it were always there.
- `apply_hard_gate` looks at the gates and not at `actionable`: a decision that
  is not actionable because nothing could be measured can still be moved.

A poll that takes longer than the minimum interval meets its successor at the
commit (`coordinator.py` 186-190 says so). Revisions still grow in commit order
then, but not in the publisher's; `RevisionsFollowThePublisher` is therefore
checked with polls shorter than the interval (the intervals are 60 to 1800 s,
the timeout 10 s for each socket operation).

## 5. Proofs

Proved by TLAPS for all values of the constants under the assumptions the
modules name:

| theorem | says | from |
|---|---|---|
| `DeviceAuthProofs!TypeCorrect` | `[]TypeOK` | `TypeOK` is inductive; a reported wait is between one tick and the window, as a set of naturals has a least member |
| `CodesAreSingleUse` | `[]SingleUse` | `PairInv` |
| `UsedUpMeansPaired` | `[]ConsumedIffPaired` | `PairInv` and `ConsumedHasDevice` |
| `GuessesAreRateLimited` | `[]RateLimit` | `RateInv` |
| `StoreKeepsContract` | `KeepsContract`: `DeviceAuth` implements `PairingContract` | `ContractInv`, one lemma for each kind of step |
| `AuditTrailIsHonest` | `[]AuditIsHonest` | `AuditInv`, `TimeInv` |
| `LiveCodesStayBounded` | `[]LiveCodesBounded` | `CapHolds`, `TimeInv` |
| `LiveCodesStayFindable` | `LiveCodeNeverBuried`, if `RoomForCandidates` | `BuriedInv` |
| `RetryAfterIsTrue` | `RetryAfterIsExact` | `WaitInv` |
| `UniverseCacheProofs!MarkersHaveLeaders`, `HealthyIsComplete` | `[]MarkerHasLeader`, `[]HealthyMeansComplete` | `CacheInv` |
| `LeadersKeepTheirMarkers`, `PendingTellsTheTruth` | `LeaderKeepsMarker`, `PendingIsTrue` | `CacheInv` and the actions |
| `FeedPollingProofs!PollingTypeCorrect` | `[]TypeOK` | `PollInv` |
| `PublishersAreSpared` | `[]PollsAreSpaced` | `PollInv` |
| `NothingPublishedIsLost` | `[]PublishedIsHeld` | `HeldInv` |
| `CorrectionsStayInOrder` | `[]RevisionsFollowThePublisher`, if `MaxFetch < Interval` | `OrderInv` |
| `NothingIsAnnouncedTwice` | `NotAnnouncedAgain`, if `MaxFetch < Interval` | `OrderInv` and the actions |
| `PollingKeepsContract` | `KeepsFeedContract`: `FeedPolling` implements `FeedContract`, if `MaxFetch < Interval` | `LineInv`, one lemma for each kind of step |
| `SnapshotProofs!CollectorTypeCorrect` | `[]TypeOK` | `CollectorInv` |
| `TimelySourcesAreKept`, `ReportsAreTimely`, `WaitsDoNotAddUp` | `[]TimelyIsKept`, `[]OnlyTimelyIsReported`, `[]AnswersInTime` | `CollectorInv` |
| `NothingIsBegunAfterwards` | `NothingStartsAfterwards` | `CollectorInv` and the actions |
| `ChartsAreRead` | `[]ChartInv`: a series of bars, and what is served was read from all of it | `ChartInv` is inductive |
| `ChartsAreNeverRepainted` | `NeverRepainted` | `ChartInv` and, for each detector, what one bar more leaves as it was |
| `CountersAgree` | `[]CountsAgree` | `ChartInv` and `Counted`, the invariant of the counter's walk |
| `TrustedFileProofs!NothingIsLost`, `FaultsAreUndone` | `[]NothingIsDestroyed`, `[]OneFaultIsUndone` | `FileInv` |
| `ExpectedIsReplaced` | `OnlyTheExpectedIsReplaced` | `FileInv` and the actions |
| `LocalRuntimeProofs!LedgerAccountsForEverything` | `[]LedgerCovers` | `RuntimeInv` |
| `RecordTellsTheTruth` | `[]RecordIsTrue` | `RuntimeInv` |
| `ForeignFilesAreLeftAlone` | `ForeignIsLeftAlone` | `SeenFits`, `MetInv` and the actions |
| `FailedCommandsAreUndone` | `FailureRestores` | `RuntimeInv` and the actions |
| `InterruptedCommandsHeal` | `[]HealsItself` | `HealInv`, `HoldsItsOwn` |
| `MovesAreAnnounced` | `NothingMovesUnannounced` | `RuntimeInv`, `AheadInv` and the actions |
| `MarketGatewayProofs!RequestsKeepOrder` | `[]GatewayInv` | `GatewayInv` is inductive |
| `WatchlistsAreWhole`, `SeriesAreWhole` | `[]WatchlistIsWhole`, `[]SeriesIsWhole` | `BatchesApart`, `PagesInOrder`, `BatchIsMade` |
| `NothingIsServedEarly` | `[]NothingFromTheFuture` | `GatewayInv` and what each normalisation lets through |
| `DisclosuresAreAccountedFor` | `[]RowsAreAccountedFor` | `SourcesInTurn` and the walk over the rows |
| `DecisionPathProofs!BreakingNewsCounts`, `GatesHold` | `[]OwnReadingsCount`, `[]GateHolds` | `PathInv` |
| `NothingOfTheFutureCounts` | `OnlyWhatWasKnown` | `PathInv` and the actions |
| `WhatCountsIsCorroborated` | `CorroboratedOnly` | the operators of `EvidencePacket` |

Four theorems have a hypothesis, and the code's values satisfy each of them.
`MaxFetch < Interval` was explained above. `RoomForCandidates` asks that twice the
cap on live codes fits among the candidate rows (5 and 16) and that no code
expires while a call waits for the database (60 s at least and 15 s). It is
needed: a code issued after a slow call has read its clock may rank before the
one the call was shown, so the rows before it are bounded by the cap twice, once
at either instant.

**Single use.** `SingleUse` alone is not inductive: a second claim of a code
must be impossible, so the invariant has to say that a paired code is consumed
and stays so. `DeviceHasItsCode` keeps, for each device, its code, the stamp it
left on it, and that the call which registered it will not show another code.
`Unconsumed` says that a code which is being issued carries no stamp, so
re-drawing an id cannot clear one that counts. For the converse half,
`ConsumedHasDevice` keeps a witness for every stamp; it needs `DeviceHasItsCode`
again, to know that a call which shows a new code has no device.

**Rate limit.** Take any window that contains the call which is granted a slot.
Every other guess of that client in the window is younger than `now - Window`,
and the transaction counts all rows younger than that, those of calls with a
later instant included; so if their rows still exist, the count bounds the
window. `RowOfSpent` says that they do: a call that holds a slot has its row, or
is older than the retention measured from the clock. `NowIsPast` and
`NowIsRecent` bound how far a deciding call's instant lies behind the clock, and
`RetentionAssumption` closes the gap between the two.

**The contract.** The refinement mapping reads codes and devices off the rows.
A winning claim is the contract's pairing, a look-up its check, and every other
step is one of the contract's or leaves its variables alone; a purge drops codes
the contract no longer needs. The one fact about the past it takes is
`AdmittedAtTheEnd`, that a check in flight has admitted nobody.

**Audit.** The outcome is recorded after the claim, from what the claim reported.
`ClaimFindsItsRow` says that a call about to claim still finds the row it has
matched, which the purge of dead codes could break and `CodeRetentionAssumption`
rules out. So a claim that loses has met a used-up code, and by
`ConsumedHasDevice` it is somebody else's.

**Live codes.** Counting the rows that are live now does not give an inductive
statement, as codes are stored with an earlier `created`. `CapHolds` counts for
every instant the codes issued by then and live at it: who is stored later with
an earlier instant has counted those, as count and insert are one transaction.

**The wait.** Every row counted against a client is a spent guess
(`RowsAreSpent`), so `RateLimit` bounds the rows of a window and the oldest of
them is the one whose end frees a slot. This holds for a caller nobody newer has
overtaken, as `RetryAfterIsExact` says.

**Universe cache.** `Ledger` says the symbols answered, missed and still to do
add up to the universe; `SlotIsAnOutcome` that a slot names a finished call
whose counts no longer change.

**Polling.** `OnRecord` relates the history of polls to `last_polled_at`: it is
never earlier than any poll a request of this process has reserved.
`SourceInHand` says a request in the middle of a poll has a source. Spacing
follows because the check and the stamp are one lock section.

**Nothing published is lost.** Between the commit, after which the coordinator
will not hand out a content again, and the insertion the content exists only in
the request that carries it. The property names both places, and a restart, after
which the store is empty by design; `SeenBefore` and `RecordSeen` say that what
is carried, recorded or saved was once put up by the publisher, which is what
makes the age at which it may be evicted meaningful.

**Corrections.** `Punctual` bounds the age of a poll in flight by `MaxFetch`; with
`OnRecord` two polls of one feed cannot overlap (lemma `OnePollAtATime`). Then an
answer in hand is not older than the record (`InOrder`), a commit moves the
record forward, what is stored has the revision it was recorded with
(`HeldAsRecorded`), and what is about to be stored is the newest there is
(`CarriedIsNewest`). `FileLags` says the saved copy, and the copies requests are
about to save in whatever order, are behind the record: a process can only
announce what the file does not have.

**The feed contract.** `LineInv` puts every copy of the record on one line: the
record itself, the file, and the snapshots requests are about to rename into
place are each at or before the record, and what has no content has no number
either. With it a save is always one of the contract's, whichever of two racing
ones lands last, and a restart goes on from a point of the line. Announcing
moves the end of the line, so everything on it stays on it (`NextOnLine`). That
a delivery is of what was announced last and has not been delivered before is
`CarriedIsNewest`, which is where the hypothesis comes in: of two polls of one
feed that overlap, one would deliver a content that is not the last any more.

**Snapshots.** `Waits` carries the deadlines from the look to the end of the wait:
what the collector still means to wait ends neither before the deadline of its
source (so who is called late was late) nor later than a source timeout or the
snapshot's deadline plus the lag (so the waits do not add up: a source was
submitted at an instant that is itself at most lag). `LateIsLate` and
`ReportIsTimely` keep the two verdicts true when a worker settles a future
afterwards, for which `Stamps` orders the instants of an operation. `Gathered`
says that sources before the one at hand have their answer, `NoneQueued` that an
ended request has nothing left to begin. `TypeOK` knows the source at hand is one
of them, which is why the lemmas about `Conclude` split on the last one.

**Charts.** A series and the series with one bar more are compared reading by
reading (`Longer`). A turning point looks at a fixed number of bars to either
side, so one bar more leaves those there were as they were and adds some at the
end only (`ExtremaStay`). A detector's outcome is decided at the first bar that
crosses its level; a bar that comes after it cannot come before it
(`DecisiveStays`). Together they give `ReadingsStay`: a shape that was resolved
is still there and resolved alike, and a shape found anew was not resolved at a
bar already read. The minimum window of a detector is a condition of it: below
it the series yields nothing, and on reaching it everything at once. `Pullbacks`
and `TDSetup` walk along the series by recursive functions; that such a function
exists on every series, and that the two walks agree on the bars both have, is
shown by induction in the form the prover takes: from the least bar at which it
fails. The same form shows that the two counters agree: `Tally` is the count at a
bar as a function of the length of the run that ends there, which is all
`magic_nine` looks at, and `Counted` says that the walk has drawn it at every
bar, and that it has either this count in progress or a run of nine completed
at the last bar.

**Trusted files.** That a rename loses nothing depends on what the running call
holds. `InHand` says what that is in each phase: in particular nothing is aside
yet when the target is moved aside, and what an ended call still held counts as
an artifact. `Expected` says that once a call may publish or succeed, the
tombstone is the file it was told to replace, and that a restoration which finds
another one follows a fault, or was given one that cannot be read. `Undisturbed` says, for executions without an
intruder and with at most one fault, where the file is in every phase, with two
cases for an error that came after its effect; it is what makes the last undo
succeed, because the one fault has been spent by then.

**Local runtime.** What is to be shown of files and jobs mentions neither phases
nor progress; the invariant has to. `Progress` and `PhaseFits` say which
components a phase has dealt with and on which manifest it may run;
`JobsAreDown` that a phase which moves plists has its jobs down, and therefore
`JobIsItsPlist`: a job runs what lies at its path. What remains is to compare the
manifest with the files: `Announced` says that before a step touches anything the
manifest on disk names both versions, `FilesAreKnown` that a file is one of them
or somebody else's, `SettledIsTrue` that a settled manifest names the one that is
there. A rollback and the handlers of an uninstall pass through the same
statements with the roles of the versions exchanged; `UnannouncedIsUndone` is the
case of an uninstall whose announcement itself failed.

That an undisturbed command heals what earlier ones left is a second invariant,
`HealInv`, with `RuntimeInv` below it. `FilesInStep` says how far the files are,
for both directions; `WayBack` that an interrupted manifest always leads
somewhere: what runs has a plist and what is missing is staged. `OnTrack` is a
statement for each phase of a command that has met no trouble, that the next step
finds what it asks for; so each of its failing branches is impossible.
`FailureEnds` closes the argument: a command with no excuse cannot have failed.

That files and jobs move only while the manifest announces it (the write-ahead
rule the recovery relies on) needs one thing more, as an undo is also entered
when the announcement itself has failed: `AheadInv` says that a command which
has brought a job down, or tried to bring one up, had announced itself first, so
such an undo finds nothing to do.

Because a check and what relies on it are two steps, each of these has to hold in
between as well. `SeenFits` says what a step may rely on there: what it found is
still at the path, or where the step itself moved it, unless somebody put a file
of theirs in its place. `MetInv` says that a command which has moved or started
such a file is on a path that ends in failure, and `HoldsItsOwn` that one without
an excuse never holds one. All these invariants need nothing but
`RuntimeAssumption`: any number of components, versions, commands and faults.

**Market gateway.** The bisection of a watchlist is a stack of parts. `BatchesApart`
says the parts are disjoint, not empty, of the list, and disjoint from what has
been answered and refused, so nothing is asked twice; `BatchIsMade` that what is
served is the list, in its order, without the refused codes, so nothing is
forgotten. `PagesInOrder` says every page key was asked for
once and an answered series has no next page; `BatchIsMade` also what the other
batches were made of; `SourcesInTurn` that a snapshot has asked all of its
sources when it is assembled. The properties then follow from facts about
sequences: that choosing from a sequence keeps its order, that sorting loses
nothing, that the walk over a disclosure puts each row among the kept or the
named. These hold for sequences of any length, by induction in the form the
prover takes: from the least counterexample. The model sorts and chooses with
its own `Ascending` and `Those`, which say what the result is; the library's
`SortSeq` and `SelectSeq` compute it by recursion the prover cannot unfold.

**Decision.** The numbers matter only through their range: a reading lies between
-`Full` and `Full`, a score between 0 and 100. Averages and scores are sums over
sets, about which the library has no theorem, so the first lemmas are about sums:
a sum over a set is one over its parts (`SumByParts`), hence bounded by the
bounds of its members (`SumWithin`), and dividing keeps the bound
(`TruncatedWithin`, `ScoreOnItsScale`). `PathInv` says what each phase may rely
on: what was read before the cutoff was there while nobody set the clock back
(`ReadInTime`), what is read after it was published before it (`KnownBefore`),
the council is silent before it met and for what was gated (`Gated`), and a
position is planned on a score that the cap cannot move past the middle
(`Leaning`). That what counts is corroborated follows from the operators alone:
of each set of copies one report is left, a counted story passed `Actionable`,
and `TwoIdentities` shows that two identities among its reports belong to two
accounts, whatever the read holds of their sources.

`TypeOK`, `ChartInv` and `MarkerHasLeader` have a theorem and no run: they are
conjuncts of the invariants above, and the runs ask what follows from them.
`NotAnnouncedAgain` has none either, as the run of `feeds` asks for more: in
`FeedContract` an announcement is later than the record it goes on from; nor has
`NothingMovesUnannounced`, on which `LedgerCovers` and `HealsItself` rest.

Only model-checked:

- the liveness properties `SlotIsReleased`, `EveryReadEnds` and `AnswerComes`:
  fairness and ENABLED are beyond the prover;
- the two sentences the runs refute.

## 6. What is not modelled

- The mobile data layer, the device session, the ticker registry and the
  creation of the database schema have state worth modelling; they are the
  remaining components of the plan.
- `feeds/http.py`, `registry.py`, `sec.py`, `nasdaq.py`, the device_auth support
  modules and the launch wrapper: configuration, parsing and I/O. What they can
  bring about (a 304, a failure, a code that is recognised) is an input of the
  models.
- `smoke_live.py`, `smoke_real_snapshot.py` and the other scripts that exercise a
  running system: they observe it and keep nothing.
- `adviser_layer`: a pure computation the service calls with no opinions.
- Floating-point values (RSI, MACD, volatility, levels of a risk plan, weights by
  age): TLC does not evaluate them, and where a rule compares them the model
  compares integers that meet both sides of the comparison.
- The app's decoding and screens: layout and data, no state between steps.
