------------------------------ MODULE FeedPolling ------------------------------
(***************************************************************************)
(* The evidence path of the analysis API: concurrent requests sweep the    *)
(* configured feeds through one shared EvidenceCollector and its           *)
(* PollingCoordinator, read what has been collected, and persist the       *)
(* coordinator's record for the next process.                              *)
(*                                                                         *)
(* The coordinator's lock, the collector's lock and os.replace make single *)
(* steps; whatever runs between them interleaves with the other requests,  *)
(* the publishers and the death of the process.                            *)
(*                                                                         *)
(* Each feed carries one claim, whose content a publisher replaces: content*)
(* v has hash v and its event id, and a body with it has the validators v. *)
(* Content 0 is a feed without entries.                                    *)
(***************************************************************************)
EXTENDS Integers, FiniteSets

CONSTANTS
  NSources,    \* the adapters, polled in this order
  Requests,    \* reads of the evidence
  Interval,    \* minimum_poll_interval_seconds
  Lookback,    \* lookback_seconds
  Retention,   \* retention_seconds
  MaxFetch,    \* ticks from reserving a poll to inserting its answer
  MaxVersion,  \* BOUND on the contents a publisher goes through
  MaxTime,     \* BOUND on the clock
  MaxStops     \* BOUND on crashes and restarts

ASSUME PollingAssumption ==
  /\ NSources \in Nat \ {0} /\ Requests # {} /\ IsFiniteSet(Requests)
  /\ Interval \in Nat \ {0} /\ Lookback \in Nat \ {0} /\ Retention \in Nat \ {0}
  /\ MaxFetch \in Nat /\ MaxVersion \in Nat \ {0} /\ MaxTime \in Nat
  /\ MaxStops \in Nat

Sources == 1 .. NSources
Contents == 1 .. MaxVersion
Times == 0 .. MaxTime
Never == -1     \* no time: never polled, not held
NoTag == -1     \* no validators

VARIABLES
  clock, stops,
  content,   \* what each publisher serves now
  stamp,     \* when a publisher put a content on its feed
  tag, published, lastPolled,   \* the coordinator's _AdapterState of each feed
  store,     \* the collector's _store: when a content became available, as which revision
  file,      \* the saved snapshot
  req        \* the local variables of each request

publishers == <<content, stamp>>
coordinator == <<tag, published, lastPolled>>
vars == <<clock, stops, publishers, coordinator, store, file, req>>

Tags == {NoTag} \cup 0 .. MaxVersion
Claim == [hash : 0 .. MaxVersion, rev : Nat]     \* hash 0: nothing published yet
Item == [at : Times \cup {Never}, rev : Nat]
Memory == [tag : [Sources -> Tags], published : [Sources -> Claim],
           lastPolled : [Sources -> Times \cup {Never}]]

Fresh == [tag |-> [s \in Sources |-> NoTag],
          published |-> [s \in Sources |-> [hash |-> 0, rev |-> 0]],
          lastPolled |-> [s \in Sources |-> Never]]

EmptyStore == [s \in Sources |-> [v \in Contents |-> [at |-> Never, rev |-> 0]]]

Request ==
  [pc : {"idle", "polling", "fetching", "committing", "inserting", "selecting",
         "saving", "writing", "served", "unsaved", "refused", "broken", "dead"},
   src : 1 .. NSources + 1,
   started : Times, etag : Tags,
   body : Tags, new : 0 .. MaxVersion, got : Times, rev : Nat,  \* the response in hand
   gaps : SUBSET Sources, asOf : Times,
   answer : SUBSET (Sources \X Contents),
   snap : Memory,
   asked : [Sources -> Times \cup {Never}]]          \* history: polls it reserved

NewRequest ==
  [pc |-> "idle", src |-> 1, started |-> 0, etag |-> NoTag, body |-> NoTag,
   new |-> 0, got |-> 0, rev |-> 0, gaps |-> {}, asOf |-> 0, answer |-> {}, snap |-> Fresh,
   asked |-> [s \in Sources |-> Never]]

TypeOK ==
  /\ clock \in Times /\ stops \in 0 .. MaxStops
  /\ content \in [Sources -> 0 .. MaxVersion]
  /\ stamp \in [Sources -> [Contents -> Times]]
  /\ tag \in [Sources -> Tags]
  /\ published \in [Sources -> Claim]
  /\ lastPolled \in [Sources -> Times \cup {Never}]
  /\ store \in [Sources -> [Contents -> Item]]
  /\ file \in Memory
  /\ req \in [Requests -> Request]

Init ==
  /\ clock = 0 /\ stops = 0
  /\ content = [s \in Sources |-> 0]
  /\ stamp = [s \in Sources |-> [v \in Contents |-> 0]]
  /\ tag = Fresh.tag /\ published = Fresh.published /\ lastPolled = Fresh.lastPolled
  /\ store = EmptyStore
  /\ file = Fresh
  /\ req = [r \in Requests |-> NewRequest]

-----------------------------------------------------------------------------
(* Time and the publishers.                                                  *)

Src(r) == req[r].src

\* A poll between its reservation and the collector's insertion.
Polling(r) == req[r].pc \in {"fetching", "committing", "inserting"}

Tick ==
  /\ clock < MaxTime
  /\ \A r \in Requests : Polling(r) => clock < req[r].asked[Src(r)] + MaxFetch
  /\ clock' = clock + 1
  /\ UNCHANGED <<stops, publishers, coordinator, store, file, req>>

\* External: an entry appears, or its text is corrected.
Publish(s) ==
  /\ content[s] < MaxVersion
  /\ content' = [content EXCEPT ![s] = @ + 1]
  /\ stamp' = [stamp EXCEPT ![s][content[s] + 1] = clock]
  /\ UNCHANGED <<clock, stops, coordinator, store, file, req>>

-----------------------------------------------------------------------------
(* _poll_sources and PollingCoordinator.poll.                                *)

Begin(r) ==
  /\ req[r].pc = "idle"
  /\ req' = [req EXCEPT ![r] = [@ EXCEPT !.pc = "polling", !.started = clock]]
  /\ UNCHANGED <<clock, stops, publishers, coordinator, store, file>>

\* The sweep goes on to the next source, and the response in hand is dropped.
Onward(r) == [req[r] EXCEPT !.pc = "polling", !.src = @ + 1, !.etag = NoTag,
                            !.body = NoTag, !.new = 0, !.got = 0, !.rev = 0]

Throttled(s) == lastPolled[s] # Never /\ clock - lastPolled[s] < Interval

\* Mutant: a throttled caller waits for the interval to pass.
SkipSource_Waits(r) ==
  /\ req[r].pc = "polling" /\ Src(r) <= NSources
  /\ Throttled(Src(r))
  /\ UNCHANGED vars

\* Asked too recently: the sweep goes on, and this source is not a failure.
SkipSource(r) ==
  /\ req[r].pc = "polling" /\ Src(r) <= NSources
  /\ Throttled(Src(r))
  /\ req' = [req EXCEPT ![r] = Onward(r)]
  /\ UNCHANGED <<clock, stops, publishers, coordinator, store, file>>

\* Mutant: the moment is recorded for a poll that has answered, not for this one.
Reserve_Unrecorded(r) ==
  /\ req[r].pc = "polling" /\ Src(r) <= NSources
  /\ ~Throttled(Src(r))
  /\ req' = [req EXCEPT ![r] = [@ EXCEPT !.pc = "fetching", !.etag = tag[Src(r)],
                                         !.asked[Src(r)] = clock]]
  /\ UNCHANGED <<clock, stops, publishers, coordinator, store, file>>

\* Check and reserve under the lock, and copy the validators for the request.
Reserve(r) ==
  /\ req[r].pc = "polling" /\ Src(r) <= NSources
  /\ ~Throttled(Src(r))
  /\ lastPolled' = [lastPolled EXCEPT ![Src(r)] = clock]
  /\ req' = [req EXCEPT ![r] = [@ EXCEPT !.pc = "fetching", !.etag = tag[Src(r)],
                                         !.asked[Src(r)] = clock]]
  /\ UNCHANGED <<clock, stops, publishers, tag, published, store, file>>

\* 304: the publisher still serves what the validators stand for.
NotModified(r) ==
  /\ req[r].pc = "fetching"
  /\ req[r].etag = content[Src(r)]
  /\ req' = [req EXCEPT ![r] = [@ EXCEPT !.pc = "committing", !.body = NoTag, !.new = 0]]
  /\ UNCHANGED <<clock, stops, publishers, coordinator, store, file>>

\* _parse: not dated after the sweep's cutoff, not older than its lookback.
Accepted(r, s, v) ==
  /\ v \in Contents
  /\ stamp[s][v] <= req[r].started
  /\ stamp[s][v] >= req[r].started - Lookback

\* 200, also from a publisher that ignores the validators.
Answered(r) ==
  /\ req[r].pc = "fetching"
  /\ LET s == Src(r)
         v == content[s]
     IN  req' = [req EXCEPT ![r] = [@ EXCEPT !.pc = "committing", !.body = v,
                                             !.new = IF Accepted(r, s, v) THEN v ELSE 0,
                                             !.got = clock]]
  /\ UNCHANGED <<clock, stops, publishers, coordinator, store, file>>

(* It raises, or answers with a status to retry later: a named gap.  What is
   neither a FeedError nor an OSError, a response cut short among it, no caller
   up to the request's own handler expects: the request ends there, with its
   other sources unasked.  The reservation stands.                           *)
Unreadable(r) ==
  /\ req[r].pc = "fetching"
  /\ \/ req' = [req EXCEPT ![r] = [Onward(r) EXCEPT !.gaps = @ \cup {Src(r)}]]
     \/ req' = [req EXCEPT ![r] = [@ EXCEPT !.pc = "dead"]]
  /\ UNCHANGED <<clock, stops, publishers, coordinator, store, file>>

\* Something the published record does not hold with this content.
IsNews(r) == req[r].new # 0 /\ published[Src(r)].hash # req[r].new

\* What remains to be inserted: nothing when it was published before.
News(r) == IF IsNews(r) THEN req[r].new ELSE 0

\* Mutant: a correction keeps the number of what it corrects.
Revision_NotCounted(c, v) == [hash |-> v, rev |-> c.rev]

\* The first content of a claim is revision 0, a later one counts up.
Revision(c, v) == [hash |-> v, rev |-> IF c.hash = 0 THEN 0 ELSE c.rev + 1]

\* The commit section: validators, published record, and what to insert.
Commit(r) ==
  /\ req[r].pc = "committing"
  /\ LET s == Src(r)
         claim == Revision(published[s], req[r].new)
     IN  /\ tag' = IF req[r].body = NoTag THEN tag ELSE [tag EXCEPT ![s] = req[r].body]
         /\ published' = IF IsNews(r) THEN [published EXCEPT ![s] = claim] ELSE published
         /\ req' = [req EXCEPT ![r] = [@ EXCEPT !.pc = "inserting",
                                                !.new = News(r), !.rev = claim.rev]]
  /\ UNCHANGED <<clock, stops, publishers, lastPolled, store, file>>

\* Mutant: a claim the store already holds is left as it is.
Insert_FirstOnly(r) ==
  /\ req[r].pc = "inserting"
  /\ store' = IF req[r].new = 0 \/ \E v \in Contents : store[Src(r)][v].at # Never THEN store
              ELSE [store EXCEPT ![Src(r)][req[r].new] =
                                   [at |-> req[r].got, rev |-> req[r].rev]]
  /\ req' = [req EXCEPT ![r] = Onward(r)]
  /\ UNCHANGED <<clock, stops, publishers, coordinator, file>>

\* The collector's own lock, taken after the coordinator's was released.
Insert(r) ==
  /\ req[r].pc = "inserting"
  /\ store' = IF req[r].new = 0 THEN store
              ELSE [store EXCEPT ![Src(r)][req[r].new] =
                                   [at |-> req[r].got, rev |-> req[r].rev]]
  /\ req' = [req EXCEPT ![r] = Onward(r)]
  /\ UNCHANGED <<clock, stops, publishers, coordinator, file>>

-----------------------------------------------------------------------------
(* evidence and collect_with_failures.                                       *)

Held(s, v) == store[s][v].at # Never

\* Every source was asked: evict by the time the sweep began, then read the
\* clock for the answer (no step of another request tells the two apart).
Evict(r) ==
  /\ req[r].pc = "polling" /\ Src(r) > NSources
  /\ store' = [s \in Sources |-> [v \in Contents |->
                 IF store[s][v].at < req[r].started - Retention
                 THEN EmptyStore[s][v] ELSE store[s][v]]]
  /\ req' = [req EXCEPT ![r] = [@ EXCEPT !.pc = "selecting", !.asOf = clock]]
  /\ UNCHANGED <<clock, stops, publishers, coordinator, file>>

Selected == {i \in Sources \X Contents : Held(i[1], i[2])}

\* freshness_seconds raises: something became available after asOf was read.
FromTheFuture(r) == \E i \in Selected : store[i[1]][i[2]].at > req[r].asOf

SelectFails(r) ==
  /\ req[r].pc = "selecting"
  /\ FromTheFuture(r)
  /\ req' = [req EXCEPT ![r] = [@ EXCEPT !.pc = "broken"]]
  /\ UNCHANGED <<clock, stops, publishers, coordinator, store, file>>

\* Nothing read, and something could not be read: EvidenceUnavailable.
Refuse(r) ==
  /\ req[r].pc = "selecting"
  /\ ~FromTheFuture(r)
  /\ Selected = {} /\ req[r].gaps # {}
  /\ req' = [req EXCEPT ![r] = [@ EXCEPT !.pc = "refused"]]
  /\ UNCHANGED <<clock, stops, publishers, coordinator, store, file>>

Select(r) ==
  /\ req[r].pc = "selecting"
  /\ ~FromTheFuture(r)
  /\ Selected # {} \/ req[r].gaps = {}
  /\ req' = [req EXCEPT ![r] = [@ EXCEPT !.pc = "saving", !.answer = Selected]]
  /\ UNCHANGED <<clock, stops, publishers, coordinator, store, file>>

-----------------------------------------------------------------------------
(* CoordinatorStateStore, and the end of a process.                          *)

Now == [tag |-> tag, published |-> published, lastPolled |-> lastPolled]

\* coordinator.snapshot(), under its lock.
Snapshot(r) ==
  /\ req[r].pc = "saving"
  /\ req' = [req EXCEPT ![r] = [@ EXCEPT !.pc = "writing", !.snap = Now]]
  /\ UNCHANGED <<clock, stops, publishers, coordinator, store, file>>

\* os.replace of the temporary file.
Replace(r) ==
  /\ req[r].pc = "writing"
  /\ file' = req[r].snap
  /\ req' = [req EXCEPT ![r] = [@ EXCEPT !.pc = "served", !.snap = Fresh]]
  /\ UNCHANGED <<clock, stops, publishers, coordinator, store>>

\* An OSError is printed and the read is answered all the same.
SaveFails(r) ==
  /\ req[r].pc = "writing"
  /\ req' = [req EXCEPT ![r] = [@ EXCEPT !.pc = "unsaved", !.snap = Fresh]]
  /\ UNCHANGED <<clock, stops, publishers, coordinator, store, file>>

\* Mutant: the published record is not restored with the rest.
Restored_NoRecord(m) == [m EXCEPT !.published = Fresh.published]

\* from_snapshot: everything the file holds.
Restored(m) == m

\* The process ends, saving first if it is asked to stop; a new one restores
\* the coordinator and collects from nothing.  Requests in flight are lost.
Restart(last) ==
  /\ stops < MaxStops
  /\ stops' = stops + 1
  /\ file' = last
  /\ tag' = Restored(last).tag
  /\ published' = Restored(last).published
  /\ lastPolled' = Restored(last).lastPolled
  /\ store' = EmptyStore
  /\ req' = [r \in Requests |->
               IF req[r].pc = "idle" THEN NewRequest
               ELSE [NewRequest EXCEPT !.pc = "dead"]]
  /\ UNCHANGED <<clock, publishers>>

Crash == Restart(file)
Stop == Restart(Now)

-----------------------------------------------------------------------------
Step(r) ==
  \/ SkipSource(r) \/ Reserve(r)
  \/ NotModified(r) \/ Answered(r) \/ Unreadable(r)
  \/ Commit(r) \/ Insert(r)
  \/ Evict(r) \/ SelectFails(r) \/ Refuse(r) \/ Select(r)
  \/ Snapshot(r) \/ Replace(r) \/ SaveFails(r)

Next ==
  \/ Tick
  \/ \E s \in Sources : Publish(s)
  \/ \E r \in Requests : Begin(r) \/ Step(r)
  \/ Crash \/ Stop

(* Each request has a thread of its own, no lock is held across I/O, and each
   read of a socket has a timeout: a request that has begun keeps moving.  No
   fairness is asked of publishers, of the clock or of new requests.         *)
Spec == Init /\ [][Next]_vars /\ \A r \in Requests : WF_vars(Step(r))

-----------------------------------------------------------------------------
(* Properties.                                                               *)

(* However requests race, within the life of a process no publisher is asked
   twice in less than its interval: the check and the reservation of poll()
   are one step.                                                             *)
PollsAreSpaced ==
  \A q, r \in Requests : \A s \in Sources :
    q # r /\ req[q].asked[s] # Never /\ req[r].asked[s] # Never =>
      \/ req[q].asked[s] - req[r].asked[s] >= Interval
      \/ req[r].asked[s] - req[q].asked[s] >= Interval

Carrying(r, s, v) ==
  req[r].pc = "inserting" /\ Src(r) = s /\ req[r].new = v

(* What the coordinator counts as published, and will therefore never hand
   out again, has reached the collector's store or is on its way there, until
   it is old enough to be evicted.  Said of a process that began from nothing:
   a restarted one restores the record and not the store.                    *)
PublishedIsHeld ==
  stops = 0 => \A s \in Sources : published[s].hash # 0 =>
    \/ Held(s, published[s].hash)
    \/ \E r \in Requests : Carrying(r, s, published[s].hash)
    \/ stamp[s][published[s].hash] < clock - Retention

(* Of two contents of a claim in the store, the one the publisher put up later
   is the higher revision: a correction is never filed below what it corrects
   (the commit section of poll(), as long as no poll outlasts the interval). *)
RevisionsFollowThePublisher ==
  \A s \in Sources : \A v, w \in Contents :
    Held(s, v) /\ Held(s, w) /\ v < w => store[s][v].rev < store[s][w].rev

(* Once the saved record says a content was published, no process announces
   it again, whatever requests were in flight when the last one ended and in
   whichever order their saves landed (coordinator_state).                   *)
NotAnnouncedAgain ==
  [][\A s \in Sources :
       published'[s] # published[s] /\ stops' = stops
       => published'[s].hash # file.published[s].hash]_vars

\* What readers are given of a feed.
Holdings ==
  [s \in Sources |-> {[hash |-> v, rev |-> store[s][v].rev] : v \in {v \in Contents : Held(s, v)}}]

Contract == INSTANCE FeedContract
            WITH Feeds <- Sources, served <- content, announced <- published,
                 recorded <- file.published, held <- Holdings

(* The coordinator and the collector implement FeedContract: behind all the
   requests that race for a feed there is one line of announcements, in the
   publisher's order, each delivered at most once and under its number, and
   every save is of a moment on that line.                                   *)
KeepsFeedContract == Contract!Spec

Ended(r) == req[r].pc \in {"served", "unsaved", "refused", "broken", "dead"}

(* Every read that has begun comes to an end: a throttled, failing or slow
   source does not hold it up, and no request waits for another.             *)
EveryReadEnds == \A r \in Requests : req[r].pc = "polling" ~> Ended(r)

(* What a test of the collector is called: "a concurrent poll cannot corrupt a
   read in progress".                                                        *)
ReadsAreNotBroken == \A r \in Requests : req[r].pc # "broken"
=============================================================================
