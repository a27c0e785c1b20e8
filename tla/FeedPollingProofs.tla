--------------------------- MODULE FeedPollingProofs ---------------------------
(***************************************************************************)
(* Safety of the evidence path for any number of feeds and requests, any   *)
(* interval, any slowness of the publishers and any number of restarts.    *)
(*                                                                         *)
(* That publishers are not asked too often rests on one fact: a feed's     *)
(* last_polled_at is never earlier than any poll a request of this process *)
(* has reserved, so who finds the interval over finds it over for all.     *)
(*                                                                         *)
(* That nothing published is lost follows what a response holds from the   *)
(* answer to the store; that corrections keep their order needs polls that *)
(* end within the interval, so that no two of them are on one feed.        *)
(* Under the same condition the whole of it implements FeedContract.       *)
(***************************************************************************)
EXTENDS FeedPolling, TLAPS

\* A request that deals with a response has a source left to deal with.
SourceInHand ==
  \A r \in Requests :
    req[r].pc \in {"fetching", "committing", "inserting"} => req[r].src <= NSources

\* The newest reservation is the one on record.
OnRecord ==
  \A r \in Requests : \A s \in Sources : req[r].asked[s] <= lastPolled[s]

PollInv == TypeOK /\ SourceInHand /\ OnRecord /\ PollsAreSpaced

(* What a process begins with is well-typed.                                 *)
LEMMA FreshTypes ==
  /\ Fresh \in Memory
  /\ NewRequest \in Request
  /\ EmptyStore \in [Sources -> [Contents -> Item]]
<1> USE PollingAssumption
<1>1. Fresh \in Memory
  BY DEF Fresh, Memory, Tags, Claim, Never, NoTag, Times
<1>2. NewRequest \in Request
  BY <1>1 DEF NewRequest, Request, Tags, Never, NoTag, Times, Sources
<1>3. EmptyStore \in [Sources -> [Contents -> Item]]
  BY DEF EmptyStore, Item, Never, NoTag, Times
<1> QED BY <1>1, <1>2, <1>3

(* The initial state satisfies the invariant.                                *)
LEMMA InitPollInv == Init => PollInv
<1> SUFFICES ASSUME Init PROVE PollInv
  OBVIOUS
<1> USE PollingAssumption
<1>1. TypeOK
  BY FreshTypes DEF Init, TypeOK, Memory, Times
<1>2. SourceInHand /\ OnRecord /\ PollsAreSpaced
  BY DEF Init, NewRequest, Fresh, SourceInHand, OnRecord, PollsAreSpaced, Never
<1> QED BY <1>1, <1>2 DEF PollInv

(* Time and publishers.                                                      *)
LEMMA OutsideKeepsPollInv ==
  ASSUME PollInv, Tick \/ (\E s \in Sources : Publish(s)) \/ UNCHANGED vars
  PROVE  PollInv'
<1> USE PollingAssumption
    DEF PollInv, TypeOK, SourceInHand, OnRecord, PollsAreSpaced, publishers, coordinator
<1>1. CASE Tick
  BY <1>1 DEF Tick, Times
<1>2. ASSUME NEW s \in Sources, Publish(s) PROVE PollInv'
  BY <1>2 DEF Publish, Contents, Times
<1>3. CASE UNCHANGED vars
  BY <1>3 DEF vars
<1> QED BY <1>1, <1>2, <1>3

(* A request, its fields and its source, as the type invariant gives them.   *)
LEMMA RequestType ==
  ASSUME TypeOK, NEW r \in Requests
  PROVE  /\ req[r] \in Request /\ clock \in Times
         /\ \A q : [req EXCEPT ![r] = q][r] = q
         /\ req[r].src \in 1 .. NSources + 1
         /\ req[r].src <= NSources => Src(r) \in Sources
<1>1. req[r] \in Request /\ clock \in Times /\ \A q : [req EXCEPT ![r] = q][r] = q
  BY DEF TypeOK
<1>2. req[r].src \in 1 .. NSources + 1
  BY <1>1 DEF Request
<1> QED BY <1>1, <1>2, PollingAssumption DEF Sources, Src

(* The contents a response can bring, and what a snapshot holds.             *)
LEMMA ContentTypes ==
  ASSUME TypeOK, NEW s \in Sources
  PROVE  /\ NoTag \in Tags /\ tag[s] \in Tags /\ content[s] \in Tags
         /\ content[s] \in 0 .. MaxVersion /\ 0 \in 0 .. MaxVersion
  BY PollingAssumption DEF TypeOK, Tags

LEMMA NowType == TypeOK => Now \in Memory
  BY DEF TypeOK, Now, Memory

(* Going on to the next source keeps a request well-typed.                   *)
LEMMA OnwardType ==
  ASSUME TypeOK, NEW r \in Requests, req[r].src <= NSources
  PROVE  /\ Onward(r) \in Request
         /\ Onward(r).pc = "polling" /\ Onward(r).asked = req[r].asked
         /\ Onward(r).gaps = req[r].gaps
<1>1. req[r] \in Request /\ req[r].src + 1 \in 1 .. NSources + 1
  BY RequestType, PollingAssumption
<1>2. NoTag \in Tags /\ 0 \in 0 .. MaxVersion /\ 0 \in Times /\ 0 \in Nat
  BY PollingAssumption DEF Tags, Times
<1> QED BY <1>1, <1>2 DEF Request, Onward

(* A step that changes only one request, to one that has reserved no poll
   more and still has its source in hand, disturbs nothing.                  *)
LEMMA OwnStepKeepsPollInv ==
  ASSUME PollInv, NEW r \in Requests, NEW q \in Request,
         req' = [req EXCEPT ![r] = q],
         q.asked = req[r].asked,
         q.pc \in {"fetching", "committing", "inserting"} => q.src <= NSources,
         UNCHANGED <<clock, stops, publishers, lastPolled>>,
         tag' \in [Sources -> Tags], published' \in [Sources -> Claim],
         store' \in [Sources -> [Contents -> Item]], file' \in Memory
  PROVE  PollInv'
  BY DEF PollInv, TypeOK, SourceInHand, OnRecord, PollsAreSpaced, publishers

(* What each kind of step does to a request's record keeps it well-typed.     *)
LEMMA BeganType ==
  ASSUME NEW x \in Request, NEW t \in Times
  PROVE  LET q == [x EXCEPT !.pc = "polling", !.started = t]
         IN  q \in Request /\ q.asked = x.asked /\ q.pc = "polling"
  BY DEF Request

WithPoll(x, s, v, t) == [x EXCEPT !.pc = "fetching", !.etag = v, !.asked[s] = t]

LEMMA ReservedType ==
  ASSUME NEW x \in Request, NEW s \in Sources, NEW v \in Tags, NEW t \in Times
  PROVE  LET q == WithPoll(x, s, v, t)
         IN  /\ q \in Request /\ q.src = x.src /\ q.pc = "fetching"
             /\ q.asked = [x.asked EXCEPT ![s] = t]
  BY DEF Request, WithPoll

Unmodified(x) ==
  [x EXCEPT !.pc = "committing", !.body = NoTag, !.new = 0]

LEMMA UnmodifiedType ==
  ASSUME NEW x \in Request
  PROVE  LET q == Unmodified(x)
         IN  q \in Request /\ q.asked = x.asked /\ q.src = x.src
<1>1. NoTag \in Tags /\ 0 \in 0 .. MaxVersion
  BY PollingAssumption DEF Tags
<1> QED BY <1>1 DEF Request, Unmodified

WithAnswer(x, s, v, n, t) ==
  [x EXCEPT !.pc = "committing", !.body = v, !.new = n, !.got = t]

LEMMA AnsweredType ==
  ASSUME NEW x \in Request, NEW s \in Sources, NEW v \in Tags,
         NEW n \in 0 .. MaxVersion, NEW t \in Times
  PROVE  LET q == WithAnswer(x, s, v, n, t)
         IN  q \in Request /\ q.asked = x.asked /\ q.src = x.src
  BY DEF Request, WithAnswer

WithNews(x, n, m) == [x EXCEPT !.pc = "inserting", !.new = n, !.rev = m]

LEMMA CommittedType ==
  ASSUME NEW x \in Request, NEW n \in 0 .. MaxVersion, NEW m \in Nat
  PROVE  LET q == WithNews(x, n, m)
         IN  q \in Request /\ q.asked = x.asked /\ q.src = x.src
  BY DEF Request, WithNews

LEMMA GapType ==
  ASSUME NEW x \in Request, NEW s \in Sources
  PROVE  LET q == [x EXCEPT !.gaps = @ \cup {s}]
         IN  q \in Request /\ q.asked = x.asked /\ q.pc = x.pc
  BY DEF Request

LEMMA ReadType ==
  ASSUME NEW x \in Request, NEW t \in Times
  PROVE  LET q == [x EXCEPT !.pc = "selecting", !.asOf = t]
         IN  q \in Request /\ q.asked = x.asked /\ q.pc = "selecting"
  BY DEF Request

LEMMA SelectedType ==
  ASSUME NEW x \in Request, NEW a \in SUBSET (Sources \X Contents)
  PROVE  LET q == [x EXCEPT !.pc = "saving", !.answer = a]
         IN  q \in Request /\ q.asked = x.asked /\ q.pc = "saving"
  BY DEF Request

LEMMA SavingType ==
  ASSUME NEW x \in Request, NEW m \in Memory,
         NEW p \in {"writing", "served", "unsaved"}
  PROVE  LET q == [x EXCEPT !.pc = p, !.snap = m]
         IN  q \in Request /\ q.asked = x.asked /\ q.pc = p
  BY DEF Request

LEMMA EndedType ==
  ASSUME NEW x \in Request, NEW p \in {"broken", "refused", "dead"}
  PROVE  LET q == [x EXCEPT !.pc = p]
         IN  q \in Request /\ q.asked = x.asked /\ q.pc = p
  BY DEF Request

(* Asking the publisher and hearing from it.                                 *)
LEMMA SweepKeepsPollInv ==
  ASSUME PollInv, NEW r \in Requests,
         \/ Begin(r) \/ SkipSource(r) \/ NotModified(r) \/ Answered(r) \/ Unreadable(r)
  PROVE  PollInv'
<1> USE DEF coordinator, publishers
<1>0. TypeOK /\ SourceInHand
  BY DEF PollInv
<1>t. /\ req[r] \in Request /\ clock \in Times
      /\ req[r].src <= NSources => Src(r) \in Sources
  BY <1>0, RequestType
<1>u. /\ tag \in [Sources -> Tags] /\ published \in [Sources -> Claim]
      /\ store \in [Sources -> [Contents -> Item]] /\ file \in Memory
  BY <1>0 DEF TypeOK
<1>1. CASE Begin(r)
  <2> DEFINE q == [req[r] EXCEPT !.pc = "polling", !.started = clock]
  <2>1. q \in Request /\ q.asked = req[r].asked /\ q.pc = "polling"
    BY <1>t, BeganType
  <2>2. req' = [req EXCEPT ![r] = q]
    BY <1>1 DEF Begin
  <2> HIDE DEF q
  <2> QED BY <1>1, <1>u, <2>1, <2>2, OwnStepKeepsPollInv DEF Begin
<1>2. CASE SkipSource(r)
  <2>1. req[r].src <= NSources
    BY <1>2 DEF SkipSource, Src
  <2> QED BY <1>2, <1>0, <1>u, <2>1, OnwardType, OwnStepKeepsPollInv DEF SkipSource
<1>3. CASE NotModified(r)
  <2> DEFINE q == Unmodified(req[r])
  <2>1. req[r].src <= NSources /\ Src(r) \in Sources
    BY <1>3, <1>0, <1>t DEF NotModified, SourceInHand
  <2>2. content[Src(r)] \in Tags
    BY <1>0, <2>1, ContentTypes
  <2>3. q \in Request /\ q.asked = req[r].asked /\ q.src = req[r].src
    BY <1>t, <2>1, <2>2, UnmodifiedType
  <2>4. req' = [req EXCEPT ![r] = q]
    BY <1>3 DEF NotModified, Unmodified
  <2> HIDE DEF q
  <2> QED BY <1>3, <1>u, <2>1, <2>3, <2>4, OwnStepKeepsPollInv DEF NotModified
<1>4. CASE Answered(r)
  <2> DEFINE v == content[Src(r)]
             n == IF Accepted(r, Src(r), v) THEN v ELSE 0
             q == WithAnswer(req[r], Src(r), v, n, clock)
  <2>1. req[r].src <= NSources /\ Src(r) \in Sources
    BY <1>4, <1>0, <1>t DEF Answered, SourceInHand
  <2>2. v \in Tags /\ n \in 0 .. MaxVersion
    BY <1>0, <2>1, ContentTypes
  <2>3. req' = [req EXCEPT ![r] = q]
    BY <1>4 DEF Answered, WithAnswer
  <2> HIDE DEF v, n
  <2>4. q \in Request /\ q.asked = req[r].asked /\ q.src = req[r].src
    BY <1>t, <2>1, <2>2, AnsweredType
  <2> HIDE DEF q
  <2> QED BY <1>4, <1>u, <2>1, <2>3, <2>4, OwnStepKeepsPollInv DEF Answered
<1>5. CASE Unreadable(r)
  <2> DEFINE x == Onward(r)
             q == [x EXCEPT !.gaps = @ \cup {Src(r)}]
  <2>1. req[r].src <= NSources /\ Src(r) \in Sources
    BY <1>5, <1>0, <1>t DEF Unreadable, SourceInHand
  <2>2. x \in Request /\ x.asked = req[r].asked /\ x.pc = "polling"
    BY <1>0, <2>1, OnwardType
  <2> DEFINE d == [req[r] EXCEPT !.pc = "dead"]
  <2>3. req' = [req EXCEPT ![r] = q] \/ req' = [req EXCEPT ![r] = d]
    BY <1>5 DEF Unreadable
  <2> HIDE DEF x
  <2>4. q \in Request /\ q.asked = x.asked /\ q.pc = x.pc
    BY <2>1, <2>2, GapType
  <2>5. d \in Request /\ d.asked = req[r].asked /\ d.pc = "dead"
    BY <1>t, EndedType
  <2> HIDE DEF q, d
  <2>6. CASE req' = [req EXCEPT ![r] = q]
    BY <1>5, <1>u, <2>2, <2>6, <2>4, OwnStepKeepsPollInv DEF Unreadable
  <2>7. CASE req' = [req EXCEPT ![r] = d]
    BY <1>5, <1>u, <2>5, <2>7, OwnStepKeepsPollInv DEF Unreadable
  <2> QED BY <2>3, <2>6, <2>7
<1> QED BY <1>1, <1>2, <1>3, <1>4, <1>5

(* The two lock sections that take an answer in.                             *)
LEMMA TakeInKeepsPollInv ==
  ASSUME PollInv, NEW r \in Requests, Commit(r) \/ Insert(r)
  PROVE  PollInv'
<1> USE DEF coordinator, publishers
<1>0. TypeOK /\ SourceInHand
  BY DEF PollInv
<1>1. req[r] \in Request /\ req[r].src <= NSources /\ Src(r) \in Sources
  BY <1>0, RequestType DEF Commit, Insert, SourceInHand
<1>2. /\ req[r].new \in 0 .. MaxVersion /\ req[r].body \in Tags
      /\ req[r].got \in Times /\ req[r].rev \in Nat
  BY <1>1 DEF Request
<1>u. /\ tag \in [Sources -> Tags] /\ published \in [Sources -> Claim]
      /\ store \in [Sources -> [Contents -> Item]] /\ file \in Memory
  BY <1>0 DEF TypeOK
<1>3. CASE Commit(r)
  <2> DEFINE claim == Revision(published[Src(r)], req[r].new)
             q == WithNews(req[r], News(r), claim.rev)
  <2>1. tag' \in [Sources -> Tags]
    BY <1>3, <1>1, <1>2, <1>u DEF Commit
  <2>2. published[Src(r)] \in Claim
    BY <1>1, <1>u
  <2>3. claim \in Claim
    BY <1>2, <2>2 DEF Revision, Claim
  <2>4. published' \in [Sources -> Claim]
    BY <1>3, <1>1, <1>u, <2>3 DEF Commit
  <2>5. News(r) \in 0 .. MaxVersion /\ claim.rev \in Nat
    BY <1>2, <2>3, PollingAssumption DEF Claim, News
  <2>6. req' = [req EXCEPT ![r] = q]
    BY <1>3 DEF Commit, WithNews
  <2> HIDE DEF claim
  <2>7. q \in Request /\ q.asked = req[r].asked /\ q.src = req[r].src
    BY <1>1, <2>5, CommittedType
  <2> HIDE DEF q
  <2> QED BY <1>3, <1>1, <1>u, <2>1, <2>4, <2>6, <2>7, OwnStepKeepsPollInv DEF Commit
<1>4. CASE Insert(r)
  <2> DEFINE item == [at |-> req[r].got, rev |-> req[r].rev]
  <2>1. item \in Item
    BY <1>2 DEF Item
  <2>2. store' \in [Sources -> [Contents -> Item]]
    BY <1>4, <1>1, <1>2, <1>u, <2>1 DEF Insert, Contents
  <2> QED BY <1>4, <1>0, <1>1, <1>u, <2>2, OnwardType, OwnStepKeepsPollInv DEF Insert
<1> QED BY <1>3, <1>4

(* Answering and saving.                                                     *)
LEMMA AnswerKeepsPollInv ==
  ASSUME PollInv, NEW r \in Requests,
         \/ Evict(r) \/ SelectFails(r) \/ Refuse(r) \/ Select(r)
         \/ Snapshot(r) \/ Replace(r) \/ SaveFails(r)
  PROVE  PollInv'
<1> USE DEF coordinator, publishers
<1>0. TypeOK
  BY DEF PollInv
<1>t. req[r] \in Request /\ req[r].snap \in Memory /\ clock \in Times
  BY <1>0, RequestType DEF Request
<1>u. /\ tag \in [Sources -> Tags] /\ published \in [Sources -> Claim]
      /\ store \in [Sources -> [Contents -> Item]] /\ file \in Memory
  BY <1>0 DEF TypeOK
<1>1. CASE Evict(r)
  <2> DEFINE q == [req[r] EXCEPT !.pc = "selecting", !.asOf = clock]
  <2>1. q \in Request /\ q.asked = req[r].asked /\ q.pc = "selecting"
    BY <1>t, ReadType
  <2>2. store' \in [Sources -> [Contents -> Item]]
    BY <1>1, <1>u, FreshTypes DEF Evict
  <2>3. req' = [req EXCEPT ![r] = q]
    BY <1>1 DEF Evict
  <2> HIDE DEF q
  <2> QED BY <1>1, <1>u, <2>1, <2>2, <2>3, OwnStepKeepsPollInv DEF Evict
<1>2. CASE SelectFails(r)
  <2> DEFINE q == [req[r] EXCEPT !.pc = "broken"]
  <2>1. q \in Request /\ q.asked = req[r].asked /\ q.pc = "broken"
    BY <1>t, EndedType
  <2>2. req' = [req EXCEPT ![r] = q]
    BY <1>2 DEF SelectFails
  <2> HIDE DEF q
  <2> QED BY <1>2, <1>u, <2>1, <2>2, OwnStepKeepsPollInv DEF SelectFails
<1>3. CASE Refuse(r)
  <2> DEFINE q == [req[r] EXCEPT !.pc = "refused"]
  <2>1. q \in Request /\ q.asked = req[r].asked /\ q.pc = "refused"
    BY <1>t, EndedType
  <2>2. req' = [req EXCEPT ![r] = q]
    BY <1>3 DEF Refuse
  <2> HIDE DEF q
  <2> QED BY <1>3, <1>u, <2>1, <2>2, OwnStepKeepsPollInv DEF Refuse
<1>4. CASE Select(r)
  <2> DEFINE q == [req[r] EXCEPT !.pc = "saving", !.answer = Selected]
  <2>1. Selected \in SUBSET (Sources \X Contents)
    BY DEF Selected
  <2>2. q \in Request /\ q.asked = req[r].asked /\ q.pc = "saving"
    BY <1>t, <2>1, SelectedType
  <2>3. req' = [req EXCEPT ![r] = q]
    BY <1>4 DEF Select
  <2> HIDE DEF q
  <2> QED BY <1>4, <1>u, <2>2, <2>3, OwnStepKeepsPollInv DEF Select
<1>5. CASE Snapshot(r)
  <2> DEFINE q == [req[r] EXCEPT !.pc = "writing", !.snap = Now]
  <2>1. q \in Request /\ q.asked = req[r].asked /\ q.pc = "writing"
    BY <1>0, <1>t, NowType, SavingType
  <2>2. req' = [req EXCEPT ![r] = q]
    BY <1>5 DEF Snapshot
  <2> HIDE DEF q
  <2> QED BY <1>5, <1>u, <2>1, <2>2, OwnStepKeepsPollInv DEF Snapshot
<1>6. CASE Replace(r)
  <2> DEFINE q == [req[r] EXCEPT !.pc = "served", !.snap = Fresh]
  <2>1. q \in Request /\ q.asked = req[r].asked /\ q.pc = "served"
    BY <1>t, FreshTypes, SavingType
  <2>2. req' = [req EXCEPT ![r] = q] /\ file' \in Memory
    BY <1>6, <1>t DEF Replace
  <2> HIDE DEF q
  <2> QED BY <1>6, <1>u, <2>1, <2>2, OwnStepKeepsPollInv DEF Replace
<1>7. CASE SaveFails(r)
  <2> DEFINE q == [req[r] EXCEPT !.pc = "unsaved", !.snap = Fresh]
  <2>1. q \in Request /\ q.asked = req[r].asked /\ q.pc = "unsaved"
    BY <1>t, FreshTypes, SavingType
  <2>2. req' = [req EXCEPT ![r] = q]
    BY <1>7 DEF SaveFails
  <2> HIDE DEF q
  <2> QED BY <1>7, <1>u, <2>1, <2>2, OwnStepKeepsPollInv DEF SaveFails
<1> QED BY <1>1, <1>2, <1>3, <1>4, <1>5, <1>6, <1>7

(* The step the property is about: who may ask records that it does.         *)
LEMMA ReserveKeepsPollInv ==
  ASSUME PollInv, NEW r \in Requests, Reserve(r)
  PROVE  PollInv'
<1> USE PollingAssumption
<1> DEFINE s == Src(r)
           q == WithPoll(req[r], s, tag[s], clock)
<1>0. TypeOK /\ SourceInHand /\ OnRecord /\ PollsAreSpaced
  BY DEF PollInv
<1>1. /\ req[r] \in Request /\ clock \in Times /\ s \in Sources
      /\ req[r].src <= NSources /\ tag[s] \in Tags
  BY <1>0, RequestType, ContentTypes DEF Reserve, Src
<1>2. /\ q \in Request /\ q.pc = "fetching" /\ q.src <= NSources
      /\ q.asked = [req[r].asked EXCEPT ![s] = clock]
  BY <1>1, ReservedType
<1>3. req' = [req EXCEPT ![r] = q]
  BY DEF Reserve, WithPoll
<1> HIDE DEF q
<1>4. TypeOK'
  BY <1>0, <1>1, <1>2, <1>3 DEF Reserve, TypeOK, publishers
<1>5. SourceInHand'
  BY <1>0, <1>2, <1>3 DEF SourceInHand, TypeOK
<1>6. ASSUME NEW p \in Requests, req[p].asked[s] # Never
      PROVE  clock - req[p].asked[s] >= Interval
  <2>1. /\ req[p].asked[s] \in Times
        /\ lastPolled[s] \in Times \cup {Never}
        /\ req[p].asked[s] <= lastPolled[s]
    BY <1>0, <1>1, <1>6 DEF TypeOK, Request, OnRecord
  <2>2. lastPolled[s] # Never
    BY <2>1 DEF Times, Never
  <2>3. clock - lastPolled[s] >= Interval
    BY <1>0, <2>1, <2>2 DEF Reserve, Throttled, Times, TypeOK
  <2> QED BY <1>0, <2>1, <2>2, <2>3 DEF Times, TypeOK
<1>7. ASSUME NEW p \in Requests, NEW u \in Sources
      PROVE  /\ req'[p].asked[u] = IF p = r /\ u = s THEN clock ELSE req[p].asked[u]
             /\ lastPolled'[u] = IF u = s THEN clock ELSE lastPolled[u]
  BY <1>0, <1>1, <1>2, <1>3 DEF Reserve, TypeOK, Request
<1>8. OnRecord'
  <2> SUFFICES ASSUME NEW p \in Requests, NEW u \in Sources
               PROVE  req'[p].asked[u] <= lastPolled'[u]
    BY DEF OnRecord
  <2>1. CASE p = r /\ u = s
    BY <1>0, <1>7, <2>1 DEF TypeOK, Times
  <2>2. CASE u = s /\ p # r
    <3>1. req[p].asked[s] \in Times \cup {Never} /\ clock \in Times
      BY <1>0, <1>1 DEF TypeOK, Request
    <3>2. req[p].asked[s] <= clock
      BY <3>1, <1>6 DEF Times, Never
    <3> QED BY <1>7, <2>2, <3>2
  <2>3. CASE u # s
    BY <1>0, <1>7, <2>3 DEF OnRecord
  <2> QED BY <2>1, <2>2, <2>3
<1>9. PollsAreSpaced'
  <2> SUFFICES ASSUME NEW a \in Requests, NEW b \in Requests, NEW u \in Sources,
                      a # b, req'[a].asked[u] # Never, req'[b].asked[u] # Never
               PROVE  \/ req'[a].asked[u] - req'[b].asked[u] >= Interval
                      \/ req'[b].asked[u] - req'[a].asked[u] >= Interval
    BY DEF PollsAreSpaced
  <2>1. CASE u = s /\ a = r
    BY <1>6, <1>7, <2>1
  <2>2. CASE u = s /\ b = r
    BY <1>6, <1>7, <2>2
  <2>3. CASE u # s \/ (a # r /\ b # r)
    BY <1>0, <1>7, <2>3 DEF PollsAreSpaced
  <2> QED BY <2>1, <2>2, <2>3
<1> QED BY <1>4, <1>5, <1>8, <1>9 DEF PollInv

(* The end of a process: nothing it reserved is remembered by a request.     *)
LEMMA RestartKeepsPollInv ==
  ASSUME PollInv, Crash \/ Stop
  PROVE  PollInv'
<1> USE PollingAssumption
<1>1. TypeOK /\ Now \in Memory
  BY NowType DEF PollInv
<1>2. PICK m \in Memory : Restart(m)
  BY <1>1 DEF Crash, Stop, TypeOK
<1>3. /\ tag' \in [Sources -> Tags] /\ published' \in [Sources -> Claim]
      /\ lastPolled' \in [Sources -> Times \cup {Never}] /\ file' \in Memory
  BY <1>2 DEF Restart, Restored, Memory
<1>4. ASSUME NEW r \in Requests
      PROVE  /\ req'[r] \in Request /\ req'[r].pc \in {"idle", "dead"}
             /\ req'[r].asked = [s \in Sources |-> Never]
  <2> DEFINE ended == [NewRequest EXCEPT !.pc = "dead"]
  <2>1. NewRequest.pc = "idle" /\ NewRequest.asked = [s \in Sources |-> Never]
    BY DEF NewRequest
  <2>2. ended \in Request /\ ended.asked = NewRequest.asked /\ ended.pc = "dead"
    BY FreshTypes, EndedType
  <2>3. req'[r] \in {NewRequest, ended}
    BY <1>2 DEF Restart
  <2> HIDE DEF ended
  <2> QED BY <2>1, <2>2, <2>3, FreshTypes
<1>5. TypeOK'
  <2>1. req' \in [Requests -> Request]
    BY <1>2, <1>4 DEF Restart
  <2>2. stops' \in 0 .. MaxStops
    BY <1>1, <1>2 DEF Restart, TypeOK
  <2>3. store' = EmptyStore /\ UNCHANGED <<clock, content, stamp>>
    BY <1>2 DEF Restart, publishers
  <2> QED BY <1>1, <1>3, <2>1, <2>2, <2>3, FreshTypes DEF TypeOK
<1>6. SourceInHand' /\ OnRecord' /\ PollsAreSpaced'
  BY <1>3, <1>4 DEF SourceInHand, OnRecord, PollsAreSpaced, Times, Never
<1> QED BY <1>5, <1>6 DEF PollInv

(* The invariant holds in every reachable state.                             *)
THEOREM PollInvariant == Spec => []PollInv
<1>1. PollInv /\ [Next]_vars => PollInv'
  <2> SUFFICES ASSUME PollInv, [Next]_vars PROVE PollInv'
    OBVIOUS
  <2>1. ASSUME NEW r \in Requests, Begin(r) \/ Step(r) PROVE PollInv'
    BY <2>1, SweepKeepsPollInv, TakeInKeepsPollInv, AnswerKeepsPollInv,
       ReserveKeepsPollInv DEF Step
  <2> QED BY <2>1, OutsideKeepsPollInv, RestartKeepsPollInv DEF Next
<1> QED BY InitPollInv, <1>1, PTL DEF Spec

(* Type correctness of the evidence path.                                    *)
THEOREM PollingTypeCorrect == Spec => []TypeOK
  BY PollInvariant, PTL DEF PollInv

(* Within the life of a process no publisher is asked twice in less than its
   interval, however many requests race and however long a poll takes: the
   check and the reservation of PollingCoordinator.poll are one step.        *)
THEOREM PublishersAreSpared == Spec => []PollsAreSpaced
  BY PollInvariant, PTL DEF PollInv

-----------------------------------------------------------------------------
(* What a step does to the request that takes it, and to no other.           *)
OthersRest(r) == \A p \in Requests \ {r} : req'[p] = req[p]

LEMMA DropStep ==
  ASSUME TypeOK, NEW r \in Requests,
         \/ Begin(r) \/ SkipSource(r) \/ Unreadable(r) \/ Insert(r)
         \/ Evict(r) \/ SelectFails(r) \/ Refuse(r) \/ Select(r)
         \/ Snapshot(r) \/ Replace(r) \/ SaveFails(r)
  PROVE  /\ OthersRest(r)
         /\ req'[r].pc \notin {"fetching", "committing", "inserting"}
         /\ req'[r].started = req[r].started \/ req'[r].started = clock
         /\ req'[r].snap = req[r].snap \/ req'[r].snap = Now \/ req'[r].snap = Fresh
         /\ UNCHANGED <<clock, stops, content, stamp, published>>
<1> USE DEF publishers, coordinator
<1>1. OthersRest(r)
  BY DEF OthersRest, TypeOK, Begin, SkipSource, Unreadable, Insert, Evict, SelectFails, Refuse,
         Select, Snapshot, Replace, SaveFails
<1>2. UNCHANGED <<clock, stops, content, stamp, published>>
  BY DEF Begin, SkipSource, Unreadable, Insert, Evict, SelectFails, Refuse, Select, Snapshot,
         Replace, SaveFails
<1>3. /\ req[r] \in Request
      /\ \A q : [req EXCEPT ![r] = q][r] = q
  BY RequestType
<1> DEFINE x == Onward(r)
<1>4. x.pc = "polling" /\ x.started = req[r].started /\ x.snap = req[r].snap
  BY <1>3 DEF Onward, Request
<1>5. CASE Begin(r) \/ SelectFails(r) \/ Refuse(r) \/ Select(r)
  <2>1. /\ req'[r].pc \notin {"fetching", "committing", "inserting"}
        /\ req'[r].started = req[r].started \/ req'[r].started = clock
        /\ req'[r].snap = req[r].snap
    <3>1. CASE Begin(r)
      BY <1>3, <3>1 DEF Begin, Request
    <3>2. CASE SelectFails(r)
      BY <1>3, <3>2 DEF SelectFails, Request
    <3>3. CASE Refuse(r)
      BY <1>3, <3>3 DEF Refuse, Request
    <3>4. CASE Select(r)
      BY <1>3, <3>4 DEF Select, Request
    <3> QED
      BY <1>5, <3>1, <3>2, <3>3, <3>4
  <2> QED
    BY <1>1, <1>2, <2>1
<1>6. CASE SkipSource(r) \/ Insert(r)
  BY <1>1, <1>2, <1>3, <1>4, <1>6 DEF SkipSource, Insert
<1>7. CASE Unreadable(r)
  <2>1. req'[r] \in {[x EXCEPT !.gaps = @ \cup {Src(r)}], [req[r] EXCEPT !.pc = "dead"]}
    BY <1>3, <1>7 DEF Unreadable
  <2>2. [x EXCEPT !.gaps = @ \cup {Src(r)}].pc = x.pc
        /\ [x EXCEPT !.gaps = @ \cup {Src(r)}].started = x.started
        /\ [x EXCEPT !.gaps = @ \cup {Src(r)}].snap = x.snap
    BY <1>3 DEF Onward, Request
  <2>3. [req[r] EXCEPT !.pc = "dead"].pc = "dead"
        /\ [req[r] EXCEPT !.pc = "dead"].started = req[r].started
        /\ [req[r] EXCEPT !.pc = "dead"].snap = req[r].snap
    BY <1>3 DEF Request
  <2> QED
    BY <1>1, <1>2, <1>4, <2>1, <2>2, <2>3
<1>8. CASE Evict(r)
  BY <1>1, <1>2, <1>3, <1>8 DEF Evict, Request
<1>9. CASE Snapshot(r) \/ Replace(r) \/ SaveFails(r)
  <2>1. /\ req'[r].pc \notin {"fetching", "committing", "inserting"}
        /\ req'[r].started = req[r].started
        /\ req'[r].snap = Now \/ req'[r].snap = Fresh
    <3>1. CASE Snapshot(r)
      BY <1>3, <3>1 DEF Snapshot, Request
    <3>2. CASE Replace(r)
      BY <1>3, <3>2 DEF Replace, Request
    <3>3. CASE SaveFails(r)
      BY <1>3, <3>3 DEF SaveFails, Request
    <3> QED
      BY <1>9, <3>1, <3>2, <3>3
  <2> QED
    BY <1>1, <1>2, <2>1
<1> QED
  BY <1>5, <1>6, <1>7, <1>8, <1>9

LEMMA AskStep ==
  ASSUME TypeOK, NEW r \in Requests, Reserve(r)
  PROVE  /\ OthersRest(r)
         /\ Src(r)' = Src(r) /\ Src(r) \in Sources
         /\ req'[r].pc = "fetching" /\ req'[r].asked[Src(r)] = clock
         /\ UNCHANGED <<clock, stops, content, stamp, published, store, file>>
         /\ req'[r].started = req[r].started /\ req'[r].snap = req[r].snap
<1>1. req[r] \in Request /\ Src(r) \in Sources /\ \A q : [req EXCEPT ![r] = q][r] = q
  BY RequestType DEF Reserve, Src
<1> QED
  BY <1>1 DEF Reserve, OthersRest, TypeOK, publishers, Request, Src

LEMMA HearStep ==
  ASSUME TypeOK, NEW r \in Requests, NotModified(r) \/ Answered(r)
  PROVE  /\ OthersRest(r)
         /\ Src(r)' = Src(r) /\ req'[r].asked = req[r].asked
         /\ req[r].pc = "fetching" /\ req'[r].pc = "committing"
         /\ req'[r].new # 0 => /\ req'[r].new = content[Src(r)] /\ req'[r].got = clock
                               /\ stamp[Src(r)][content[Src(r)]] <= req[r].started
         /\ UNCHANGED <<clock, stops, content, stamp, published, store, file>>
         /\ req'[r].started = req[r].started /\ req'[r].snap = req[r].snap
<1> USE DEF publishers, coordinator
<1>1. req[r] \in Request /\ \A q : [req EXCEPT ![r] = q][r] = q
  BY RequestType
<1>2. CASE NotModified(r)
  BY <1>1, <1>2 DEF NotModified, OthersRest, TypeOK, Request, Src
<1>3. CASE Answered(r)
  BY <1>1, <1>3 DEF Answered, Accepted, OthersRest, TypeOK, Request, Src
<1> QED
  BY <1>2, <1>3

LEMMA TakeStep ==
  ASSUME TypeOK, SourceInHand, NEW r \in Requests, Commit(r)
  PROVE  /\ OthersRest(r)
         /\ Src(r)' = Src(r) /\ Src(r) \in Sources /\ req'[r].asked = req[r].asked
         /\ req[r].pc = "committing" /\ req'[r].pc = "inserting"
         /\ req'[r].new = News(r)
         /\ req'[r].rev = Revision(published[Src(r)], req[r].new).rev
         /\ req'[r].got = req[r].got
         /\ published' = IF IsNews(r)
                         THEN [published EXCEPT ![Src(r)] = Revision(published[Src(r)], req[r].new)]
                         ELSE published
         /\ UNCHANGED <<clock, stops, content, stamp, store, file>>
         /\ req'[r].started = req[r].started /\ req'[r].snap = req[r].snap
<1>1. req[r] \in Request /\ \A q : [req EXCEPT ![r] = q][r] = q
  BY RequestType
<1>2. Src(r) \in Sources /\ req[r].pc = "committing"
  BY RequestType DEF SourceInHand, Commit
<1> DEFINE claim == Revision(published[Src(r)], req[r].new)
<1>3. req' = [req EXCEPT ![r] = WithNews(req[r], News(r), claim.rev)]
  BY DEF Commit, WithNews
<1> HIDE DEF claim
<1>4. /\ WithNews(req[r], News(r), claim.rev).pc = "inserting"
      /\ WithNews(req[r], News(r), claim.rev).new = News(r)
      /\ WithNews(req[r], News(r), claim.rev).rev = claim.rev
      /\ \A f \in {"src", "asked", "got", "started", "snap"} :
            WithNews(req[r], News(r), claim.rev)[f] = req[r][f]
  BY <1>1 DEF WithNews, Request
<1>5. OthersRest(r)
  BY <1>3 DEF OthersRest, TypeOK
<1>6. req'[r] = WithNews(req[r], News(r), claim.rev)
  BY <1>1, <1>3
<1>7. /\ UNCHANGED <<clock, stops, content, stamp, store, file>>
      /\ published' = IF IsNews(r) THEN [published EXCEPT ![Src(r)] = claim] ELSE published
  BY DEF Commit, publishers, claim
<1> QED
  BY <1>2, <1>4, <1>5, <1>6, <1>7 DEF Src, claim

-----------------------------------------------------------------------------
(* What a poll has in hand.                                                  *)
InHand(r) == req[r].pc \in {"committing", "inserting"} /\ req[r].new # 0

\* Nothing is known that a publisher has not put up before.
SeenBefore ==
  /\ \A s \in Sources : \A v \in Contents : Held(s, v) =>
       v <= content[s] /\ stamp[s][v] <= store[s][v].at
  /\ \A r \in Requests : req[r].started <= clock
  /\ \A r \in Requests : InHand(r) =>
       req[r].new <= content[Src(r)] /\ stamp[Src(r)][req[r].new] <= req[r].got

KnownTo(m) == \A s \in Sources : m.published[s].hash <= content[s]

\* Nor is it in the record, in the file or in a snapshot about to replace it.
RecordSeen == KnownTo(Now) /\ KnownTo(file) /\ \A r \in Requests : KnownTo(req[r].snap)

HeldInv == SeenBefore /\ RecordSeen /\ PublishedIsHeld

(* The types the proofs below keep using.                                    *)
LEMMA FlowTypes ==
  ASSUME TypeOK
  PROVE  /\ clock \in Nat /\ stops \in Nat
         /\ \A s \in Sources : /\ content[s] \in Nat
                               /\ published[s].hash \in 0 .. MaxVersion
                               /\ published[s].rev \in Nat
                               /\ file.published[s].hash \in Nat
         /\ \A s \in Sources : \A v \in Contents :
              /\ stamp[s][v] \in Nat /\ v \in Nat /\ v # 0
              /\ store[s][v].at \in Nat \cup {Never} /\ store[s][v].rev \in Nat
         /\ \A r \in Requests :
              /\ req[r].started \in Nat /\ req[r].got \in Times /\ req[r].rev \in Nat
              /\ req[r].new \in 0 .. MaxVersion
              /\ \A s \in Sources : req[r].snap.published[s].hash \in Nat
              /\ \A s \in Sources : req[r].asked[s] \in Nat \cup {Never}
<1> USE PollingAssumption DEF Times
<1>1. clock \in Nat /\ stops \in Nat
  BY DEF TypeOK
<1>2. \A s \in Sources : /\ content[s] \in Nat
                         /\ published[s].hash \in 0 .. MaxVersion
                         /\ published[s].rev \in Nat
                         /\ file.published[s].hash \in Nat
  BY DEF TypeOK, Claim, Memory
<1>3. \A s \in Sources : \A v \in Contents :
         /\ stamp[s][v] \in Nat /\ v \in Nat /\ v # 0
         /\ store[s][v].at \in Nat \cup {Never} /\ store[s][v].rev \in Nat
  BY DEF TypeOK, Item, Contents
<1>4. \A r \in Requests :
        /\ req[r].started \in Nat /\ req[r].got \in Times /\ req[r].rev \in Nat
        /\ req[r].new \in 0 .. MaxVersion
        /\ \A s \in Sources : req[r].snap.published[s].hash \in Nat
        /\ \A s \in Sources : req[r].asked[s] \in Nat \cup {Never}
  BY DEF TypeOK, Request, Memory, Claim
<1> QED
  BY <1>1, <1>2, <1>3, <1>4

(* The clock and the publishers only add to what was seen.                   *)
LEMMA OutsideHeldInv ==
  ASSUME TypeOK, SourceInHand, HeldInv,
         Tick \/ (\E s \in Sources : Publish(s)) \/ UNCHANGED vars
  PROVE  HeldInv'
<1> USE DEF HeldInv, publishers, coordinator
<1>1. UNCHANGED <<stops, published, store, file, req>> /\ clock' \in {clock, clock + 1}
  BY DEF Tick, Publish, vars
<1>2. \A s \in Sources : content[s] <= content'[s] /\ content'[s] \in Nat
  <2>1. ASSUME NEW u \in Sources, Publish(u)
        PROVE  \A s \in Sources : content[s] <= content'[s] /\ content'[s] \in Nat
    BY <2>1, FlowTypes DEF Publish, TypeOK
  <2> QED
    BY <2>1, FlowTypes DEF Tick, vars
<1>3. \A s \in Sources : \A v \in Contents : v <= content[s] => stamp'[s][v] = stamp[s][v]
  <2>1. ASSUME NEW u \in Sources, Publish(u),
               NEW s \in Sources, NEW v \in Contents, v <= content[s]
        PROVE  stamp'[s][v] = stamp[s][v]
    <3>1. stamp' = [stamp EXCEPT ![u][content[u] + 1] = clock]
      BY <2>1 DEF Publish
    <3>2. u # s \/ v # content[u] + 1
      BY <2>1, FlowTypes
    <3> QED
      BY <3>1, <3>2 DEF TypeOK
  <2> QED
    BY <2>1 DEF Tick, vars
<1>4. SeenBefore'
  <2>1. \A s \in Sources, v \in Contents : Held(s, v)' = Held(s, v)
    BY <1>1 DEF Held
  <2>2. \A s \in Sources : \A v \in Contents : Held(s, v)' =>
           v <= content'[s] /\ stamp'[s][v] <= store'[s][v].at
    BY <1>1, <1>2, <1>3, <2>1, FlowTypes DEF SeenBefore
  <2>3. \A r \in Requests : req'[r].started <= clock'
    BY <1>1, FlowTypes DEF SeenBefore
  <2>4. ASSUME NEW r \in Requests, InHand(r)'
        PROVE  /\ req'[r].new <= content'[Src(r)']
               /\ stamp'[Src(r)'][req'[r].new] <= req'[r].got
    <3>1. InHand(r) /\ req' = req /\ Src(r)' = Src(r)
      BY <1>1, <2>4 DEF InHand, Src
    <3>2. Src(r) \in Sources /\ req[r].new \in Contents
      BY <3>1, RequestType, FlowTypes DEF SourceInHand, InHand, Contents
    <3> QED
      BY <1>2, <1>3, <3>1, <3>2, FlowTypes DEF SeenBefore
  <2> QED
    BY <2>2, <2>3, <2>4 DEF SeenBefore
<1>5. RecordSeen'
  <2>1. \A s \in Sources : content[s] \in Nat
    BY FlowTypes
  <2> QED
    BY <1>1, <1>2, <2>1, FlowTypes DEF RecordSeen, KnownTo, Now
<1>6. PublishedIsHeld'
  <2> SUFFICES ASSUME stops' = 0, NEW s \in Sources, published'[s].hash # 0
               PROVE  \/ Held(s, published[s].hash)'
                      \/ \E r \in Requests : Carrying(r, s, published[s].hash)'
                      \/ (stamp[s][published[s].hash] < clock - Retention)'
    BY DEF PublishedIsHeld
  <2> DEFINE h == published[s].hash
  <2>1. published' = published /\ h \in Contents /\ h <= content[s]
    BY <1>1, FlowTypes DEF RecordSeen, KnownTo, Now, Contents
  <2>2. \/ Held(s, h) \/ \E r \in Requests : Carrying(r, s, h)
        \/ stamp[s][h] < clock - Retention
    BY <1>1, <2>1 DEF PublishedIsHeld
  <2>3. stamp'[s][h] = stamp[s][h]
    BY <1>3, <2>1
  <2>4. stamp[s][h] < clock - Retention => stamp[s][h] < clock' - Retention
    BY <1>1, <2>1, FlowTypes, PollingAssumption
  <2> QED
    BY <1>1, <2>1, <2>2, <2>3, <2>4 DEF Held, Carrying, Src
<1> QED
  BY <1>4, <1>5, <1>6

(* A step of a request that neither takes in an answer nor gives one up: what
   was carried is still carried, and the record is as known as it was.       *)
LEMMA RestingHeldInv ==
  ASSUME TypeOK, SourceInHand, HeldInv, NEW r \in Requests,
         OthersRest(r), ~Carrying(r, Src(r), req[r].new) \/ req[r].new = 0,
         UNCHANGED <<clock, stops, content, stamp, published>>,
         \A s \in Sources, v \in Contents : store'[s][v].at # Never => store'[s][v] = store[s][v],
         \A s \in Sources, v \in Contents : Held(s, v) =>
            Held(s, v)' \/ stamp[s][v] < clock - Retention,
         KnownTo(file)', KnownTo(req'[r].snap),
         req'[r].started \in {req[r].started, clock},
         InHand(r)' => /\ Src(r)' = Src(r) /\ req'[r].new = content[Src(r)]
                       /\ stamp[Src(r)][content[Src(r)]] <= req'[r].got
                       /\ content[Src(r)] \in Nat
  PROVE  HeldInv'
<1> USE DEF HeldInv
<1>1. SeenBefore'
  <2>1. \A s \in Sources : \A v \in Contents : Held(s, v)' =>
          v <= content'[s] /\ stamp'[s][v] <= store'[s][v].at
    BY DEF SeenBefore, Held
  <2>2. \A p \in Requests : req'[p].started <= clock'
    BY FlowTypes DEF SeenBefore, OthersRest
  <2>3. \A p \in Requests : InHand(p)' =>
          /\ req'[p].new <= content'[Src(p)']
          /\ stamp'[Src(p)'][req'[p].new] <= req'[p].got
    BY DEF SeenBefore, OthersRest, InHand, Src
  <2> QED
    BY <2>1, <2>2, <2>3 DEF SeenBefore
<1>2. RecordSeen'
  BY DEF RecordSeen, KnownTo, Now, OthersRest
<1>3. PublishedIsHeld'
  <2> SUFFICES ASSUME stops = 0, NEW s \in Sources, published[s].hash # 0
               PROVE  \/ Held(s, published[s].hash)'
                      \/ \E p \in Requests : Carrying(p, s, published[s].hash)'
                      \/ stamp[s][published[s].hash] < clock - Retention
    BY DEF PublishedIsHeld
  <2> DEFINE h == published[s].hash
  <2>1. h \in Contents
    BY FlowTypes DEF Contents
  <2>2. \A p \in Requests : Carrying(p, s, h) => p # r
    BY DEF Carrying
  <2>3. \A p \in Requests : Carrying(p, s, h) => Carrying(p, s, h)'
    BY <2>2 DEF Carrying, OthersRest, Src
  <2> QED
    BY <2>1, <2>3 DEF PublishedIsHeld
<1> QED
  BY <1>1, <1>2, <1>3

LEMMA FreshIsKnown == TypeOK => KnownTo(Fresh)
  BY FlowTypes DEF KnownTo, Fresh

LEMMA ReadingHeldInv ==
  ASSUME TypeOK, SourceInHand, HeldInv, NEW r \in Requests,
         \/ Begin(r) \/ SkipSource(r) \/ Unreadable(r)
         \/ SelectFails(r) \/ Refuse(r) \/ Select(r)
         \/ Snapshot(r) \/ Replace(r) \/ SaveFails(r)
         \/ Reserve(r) \/ NotModified(r) \/ Answered(r)
  PROVE  HeldInv'
<1> USE DEF publishers, coordinator
<1>1. req[r].pc # "inserting" /\ UNCHANGED store
  BY DEF Begin, SkipSource, Unreadable, SelectFails, Refuse, Select, Snapshot, Replace,
         SaveFails, Reserve, NotModified, Answered
<1>2. /\ OthersRest(r) /\ UNCHANGED <<clock, stops, content, stamp, published>>
      /\ req'[r].started \in {req[r].started, clock}
      /\ req'[r].snap \in {req[r].snap, Now, Fresh}
      /\ InHand(r)' => /\ Src(r)' = Src(r) /\ req'[r].new = content[Src(r)]
                       /\ req'[r].got = clock
                       /\ stamp[Src(r)][content[Src(r)]] <= req[r].started
                       /\ Src(r) \in Sources
  <2>1. CASE Reserve(r)
    BY <2>1, AskStep DEF InHand
  <2>2. CASE NotModified(r) \/ Answered(r)
    <3>1. Src(r) \in Sources
      BY <2>2, RequestType DEF SourceInHand, NotModified, Answered
    <3> QED
      BY <2>2, <3>1, HearStep DEF InHand
  <2>3. CASE ~(Reserve(r) \/ NotModified(r) \/ Answered(r))
    BY <2>3, DropStep DEF InHand
  <2> QED
    BY <2>1, <2>2, <2>3
<1>3. KnownTo(req'[r].snap)
  BY <1>2, FreshIsKnown DEF HeldInv, RecordSeen
<1>4. file' \in {file, req[r].snap}
  BY DEF Begin, SkipSource, Unreadable, SelectFails, Refuse, Select, Snapshot, Replace,
         SaveFails, Reserve, NotModified, Answered
<1>5. KnownTo(file)'
  BY <1>2, <1>4 DEF HeldInv, RecordSeen, KnownTo
<1>6. InHand(r)' => /\ Src(r)' = Src(r) /\ req'[r].new = content[Src(r)]
                    /\ stamp[Src(r)][content[Src(r)]] <= req'[r].got
                    /\ content[Src(r)] \in Nat
  <2> SUFFICES ASSUME InHand(r)'
               PROVE  /\ stamp[Src(r)][content[Src(r)]] <= clock
                      /\ content[Src(r)] \in Nat
    BY <1>2
  <2>1. content[Src(r)] \in Nat /\ Src(r) \in Sources /\ content[Src(r)] # 0
    BY <1>2, FlowTypes DEF InHand
  <2>2. content[Src(r)] \in Contents
    BY <2>1, ContentTypes DEF Contents
  <2>3. stamp[Src(r)][content[Src(r)]] \in Nat
    BY <2>1, <2>2, FlowTypes
  <2> QED
    BY <1>2, <2>1, <2>3, FlowTypes DEF HeldInv, SeenBefore
<1> QED
  BY <1>1, <1>2, <1>3, <1>5, <1>6, RestingHeldInv DEF Carrying, Held

(* Eviction drops what became available, and so was put up, too long ago.    *)
LEMMA EvictHeldInv ==
  ASSUME TypeOK, SourceInHand, HeldInv, NEW r \in Requests, Evict(r)
  PROVE  HeldInv'
<1>1. /\ OthersRest(r) /\ UNCHANGED <<clock, stops, content, stamp, published, file>>
      /\ req'[r].started \in {req[r].started, clock}
      /\ req'[r].snap \in {req[r].snap, Now, Fresh} /\ ~InHand(r)'
      /\ req[r].pc # "inserting"
  BY DropStep DEF Evict, InHand
<1>2. \A s \in Sources : \A v \in Contents :
        store'[s][v] = IF store[s][v].at < req[r].started - Retention
                       THEN EmptyStore[s][v] ELSE store[s][v]
  BY DEF Evict
<1>3. \A s \in Sources, v \in Contents : EmptyStore[s][v].at = Never
  BY DEF EmptyStore
<1>4. ASSUME NEW s \in Sources, NEW v \in Contents, store'[s][v].at # Never
      PROVE  store'[s][v] = store[s][v]
  BY <1>2, <1>3, <1>4
<1>5. ASSUME NEW s \in Sources, NEW v \in Contents, Held(s, v)
      PROVE  Held(s, v)' \/ stamp[s][v] < clock - Retention
  <2>1. stamp[s][v] <= store[s][v].at /\ req[r].started <= clock
    BY <1>5 DEF HeldInv, SeenBefore
  <2>2. /\ stamp[s][v] \in Int /\ store[s][v].at \in Int
        /\ req[r].started \in Int /\ clock \in Int
    BY <1>5, FlowTypes DEF Held
  <2> QED
    BY <1>2, <1>5, <2>1, <2>2, PollingAssumption DEF Held
<1>6. KnownTo(req'[r].snap) /\ KnownTo(file)'
  BY <1>1, FreshIsKnown DEF HeldInv, RecordSeen, KnownTo
<1> QED
  BY <1>1, <1>4, <1>5, <1>6, RestingHeldInv DEF Carrying

(* What was carried is held now.                                             *)
LEMMA InsertHeldInv ==
  ASSUME TypeOK, SourceInHand, HeldInv, NEW r \in Requests, Insert(r)
  PROVE  HeldInv'
<1> DEFINE u == Src(r)
           n == req[r].new
<1>1. /\ OthersRest(r) /\ UNCHANGED <<clock, stops, content, stamp, published, file>>
      /\ req'[r].started \in {req[r].started, clock}
      /\ req'[r].snap \in {req[r].snap, Now, Fresh} /\ ~InHand(r)'
      /\ req[r].pc = "inserting"
  BY DropStep DEF Insert, InHand
<1>2. u \in Sources /\ n \in 0 .. MaxVersion /\ req[r].got \in Times
  BY <1>1, RequestType, FlowTypes DEF SourceInHand
<1>3. KnownTo(req'[r].snap) /\ KnownTo(file)'
  BY <1>1, FreshIsKnown DEF HeldInv, RecordSeen, KnownTo
<1>4. CASE n = 0
  BY <1>1, <1>3, <1>4, RestingHeldInv DEF Insert, Held
<1>5. CASE n # 0
  <2>1. n \in Contents /\ n <= content[u] /\ stamp[u][n] <= req[r].got
    BY <1>1, <1>2, <1>5 DEF HeldInv, SeenBefore, InHand, Contents
  <2>2. store' = [store EXCEPT ![u][n] = [at |-> req[r].got, rev |-> req[r].rev]]
    BY <1>5 DEF Insert
  <2>3. /\ store'[u][n].at = req[r].got
        /\ \A s \in Sources, v \in Contents : (s = u /\ v = n) \/ store'[s][v] = store[s][v]
    BY <1>2, <2>1, <2>2 DEF TypeOK
  <2>4. req[r].got # Never
    BY <1>2 DEF Times, Never
  <2>5. SeenBefore'
    <3>1. \A s \in Sources : \A v \in Contents : Held(s, v)' =>
            v <= content'[s] /\ stamp'[s][v] <= store'[s][v].at
      BY <1>1, <2>1, <2>3 DEF HeldInv, SeenBefore, Held
    <3>2. \A p \in Requests : req'[p].started <= clock'
      BY <1>1, FlowTypes DEF HeldInv, SeenBefore, OthersRest
    <3>3. \A p \in Requests : InHand(p)' =>
            /\ req'[p].new <= content'[Src(p)']
            /\ stamp'[Src(p)'][req'[p].new] <= req'[p].got
      BY <1>1 DEF HeldInv, SeenBefore, OthersRest, InHand, Src
    <3> QED
      BY <3>1, <3>2, <3>3 DEF SeenBefore
  <2>6. RecordSeen'
    BY <1>1, <1>3 DEF HeldInv, RecordSeen, KnownTo, Now, OthersRest
  <2>7. PublishedIsHeld'
    <3> SUFFICES ASSUME stops = 0, NEW s \in Sources, published[s].hash # 0
                 PROVE  \/ Held(s, published[s].hash)'
                        \/ \E p \in Requests : Carrying(p, s, published[s].hash)'
                        \/ stamp[s][published[s].hash] < clock - Retention
      BY <1>1 DEF PublishedIsHeld
    <3> DEFINE h == published[s].hash
    <3>1. h \in Contents
      BY FlowTypes DEF Contents
    <3>2. CASE Held(s, h)
      BY <1>1, <2>3, <2>4, <3>1, <3>2 DEF Held
    <3>3. ASSUME NEW p \in Requests, Carrying(p, s, h)
          PROVE  Held(s, h)' \/ Carrying(p, s, h)'
      BY <1>1, <2>3, <2>4, <3>3 DEF Held, Carrying, OthersRest, Src
    <3> QED
      BY <3>1, <3>2, <3>3 DEF HeldInv, PublishedIsHeld
  <2> QED
    BY <2>5, <2>6, <2>7 DEF HeldInv
<1> QED
  BY <1>4, <1>5

(* What is recorded is carried from then on.                                 *)
LEMMA CommitHeldInv ==
  ASSUME TypeOK, SourceInHand, HeldInv, NEW r \in Requests, Commit(r)
  PROVE  HeldInv'
<1> DEFINE u == Src(r)
           n == req[r].new
<1>1. /\ OthersRest(r) /\ UNCHANGED <<clock, stops, content, stamp, store, file>>
      /\ Src(r)' = u /\ u \in Sources
      /\ req[r].pc = "committing" /\ req'[r].pc = "inserting"
      /\ req'[r].new = News(r) /\ req'[r].got = req[r].got
      /\ req'[r].started = req[r].started /\ req'[r].snap = req[r].snap
  BY TakeStep
<1>2. IsNews(r) => n # 0 /\ n <= content[u] /\ stamp[u][n] <= req[r].got
  BY <1>1 DEF HeldInv, SeenBefore, InHand, IsNews
<1>3. /\ \A s \in Sources : s # u \/ ~IsNews(r) => published'[s] = published[s]
      /\ IsNews(r) => published'[u].hash = n
  BY <1>1, TakeStep DEF TypeOK, Revision
<1>4. SeenBefore'
  <2>1. \A s \in Sources : \A v \in Contents : Held(s, v)' =>
          v <= content'[s] /\ stamp'[s][v] <= store'[s][v].at
    BY <1>1 DEF HeldInv, SeenBefore, Held
  <2>2. \A p \in Requests : req'[p].started <= clock'
    BY <1>1 DEF HeldInv, SeenBefore, OthersRest
  <2>3. \A p \in Requests : InHand(p)' =>
          /\ req'[p].new <= content'[Src(p)']
          /\ stamp'[Src(p)'][req'[p].new] <= req'[p].got
    BY <1>1, <1>2 DEF HeldInv, SeenBefore, OthersRest, InHand, Src, News
  <2> QED
    BY <2>1, <2>2, <2>3 DEF SeenBefore
<1>5. RecordSeen'
  BY <1>1, <1>2, <1>3 DEF HeldInv, RecordSeen, KnownTo, Now, OthersRest
<1>6. PublishedIsHeld'
  <2> SUFFICES ASSUME stops' = 0, NEW s \in Sources, published'[s].hash # 0
               PROVE  \/ Held(s, published[s].hash)'
                      \/ \E p \in Requests : Carrying(p, s, published[s].hash)'
                      \/ (stamp[s][published[s].hash] < clock - Retention)'
    BY DEF PublishedIsHeld
  <2>1. CASE s = u /\ IsNews(r)
    <3>1. Carrying(r, s, published[s].hash)'
      BY <1>1, <1>3, <2>1 DEF Carrying, News
    <3> QED
      BY <3>1
  <2>2. CASE ~(s = u /\ IsNews(r))
    <3>1. published'[s] = published[s] /\ stops = 0
      BY <1>1, <1>3, <2>2, TakeStep
    <3>2. \A p \in Requests : Carrying(p, s, published[s].hash) =>
                                Carrying(p, s, published[s].hash)'
      BY <1>1, <3>1 DEF Carrying, OthersRest, Src
    <3>3. Held(s, published[s].hash) => Held(s, published[s].hash)'
      BY <1>1, <3>1 DEF Held
    <3>4. stamp[s][published[s].hash] < clock - Retention
            => (stamp[s][published[s].hash] < clock - Retention)'
      BY <1>1, <3>1
    <3>5. published[s].hash # 0
      BY <3>1
    <3>6. \/ Held(s, published[s].hash)
          \/ \E p \in Requests : Carrying(p, s, published[s].hash)
          \/ stamp[s][published[s].hash] < clock - Retention
      BY <3>1, <3>5 DEF HeldInv, PublishedIsHeld
    <3> QED
      BY <3>6, <3>2, <3>3, <3>4
  <2> QED
    BY <2>1, <2>2
<1> QED
  BY <1>4, <1>5, <1>6 DEF HeldInv

(* A new process has read nothing and serves nothing.                        *)
LEMMA RestartHeldInv ==
  ASSUME TypeOK, HeldInv, Crash \/ Stop
  PROVE  HeldInv'
<1>1. PICK m \in {file, Now} : Restart(m)
  BY DEF Crash, Stop
<1>2. KnownTo(m)
  BY DEF HeldInv, RecordSeen
<1>3. /\ UNCHANGED <<clock, content, stamp>> /\ file' = m /\ published' = m.published
      /\ store' = EmptyStore /\ stops' = stops + 1
  BY <1>1 DEF Restart, Restored, publishers
<1>4. \A r \in Requests : /\ req'[r].pc \in {"idle", "dead"}
                          /\ req'[r].started = 0 /\ req'[r].snap = Fresh
  BY <1>1 DEF Restart, NewRequest
<1>5. \A s \in Sources, v \in Contents : ~Held(s, v)'
  BY <1>3 DEF Held, EmptyStore
<1>6. SeenBefore'
  BY <1>3, <1>4, <1>5, FlowTypes DEF SeenBefore, InHand
<1>7. RecordSeen'
  BY <1>2, <1>3, <1>4, FreshIsKnown DEF RecordSeen, KnownTo, Now
<1>8. PublishedIsHeld'
  BY <1>3, FlowTypes DEF PublishedIsHeld
<1> QED
  BY <1>6, <1>7, <1>8 DEF HeldInv

LEMMA InitHeldInv == Init => HeldInv
<1> SUFFICES ASSUME Init PROVE HeldInv
  OBVIOUS
<1> USE PollingAssumption
<1>1. SeenBefore
  BY DEF Init, SeenBefore, Held, EmptyStore, InHand, NewRequest
<1>2. RecordSeen
  BY DEF Init, RecordSeen, KnownTo, Now, Fresh, NewRequest
<1>3. PublishedIsHeld
  BY DEF Init, PublishedIsHeld, Fresh
<1> QED
  BY <1>1, <1>2, <1>3 DEF HeldInv

LEMMA StepHeldInv == PollInv /\ HeldInv /\ [Next]_vars => HeldInv'
<1> SUFFICES ASSUME PollInv, HeldInv, [Next]_vars PROVE HeldInv'
  OBVIOUS
<1>1. TypeOK /\ SourceInHand
  BY DEF PollInv
<1>2. ASSUME NEW r \in Requests, Begin(r) \/ Step(r) PROVE HeldInv'
  BY <1>1, <1>2, ReadingHeldInv, EvictHeldInv, InsertHeldInv, CommitHeldInv DEF Step
<1> QED
  BY <1>1, <1>2, OutsideHeldInv, RestartHeldInv DEF Next

(* What the coordinator will never hand out again has reached the store or is
   being carried there, until it is old enough to be evicted: no answer is
   lost between the two lock sections of a poll, for any number of requests. *)
THEOREM NothingPublishedIsLost == Spec => []PublishedIsHeld
<1>1. HeldInv => PublishedIsHeld
  BY DEF HeldInv
<1> QED
  BY PollInvariant, InitHeldInv, StepHeldInv, <1>1, PTL DEF Spec

-----------------------------------------------------------------------------
(* The order of what is published.  While no poll outlasts the interval, no
   two of them are on one feed at a time (OnePollAtATime); so an answer is
   committed before the feed is asked again, the record only moves forward,
   and every saved copy of it lags behind.                                   *)
\* No poll outlives MaxFetch.
Punctual ==
  \A r \in Requests : Polling(r) =>
    /\ req[r].asked[Src(r)] # Never
    /\ req[r].asked[Src(r)] <= clock /\ clock <= req[r].asked[Src(r)] + MaxFetch

BehindRecord(m) == \A s \in Sources : m.published[s].hash <= published[s].hash

\* The file, and the snapshots about to replace it, are older than the record.
FileLags == BehindRecord(file) /\ \A r \in Requests : BehindRecord(req[r].snap)

\* An answer in hand is not older than the record.
InOrder ==
  \A r \in Requests : req[r].pc = "committing" /\ req[r].new # 0 =>
    published[Src(r)].hash <= req[r].new

\* The store holds nothing newer than the record, and numbers it as recorded.
HeldAsRecorded ==
  \A s \in Sources : \A v \in Contents : Held(s, v) =>
    /\ v <= published[s].hash
    /\ v = published[s].hash => store[s][v].rev = published[s].rev
    /\ v < published[s].hash => store[s][v].rev < published[s].rev

\* What is on its way to the store is what the record says last.
CarriedIsNewest ==
  \A r \in Requests : req[r].pc = "inserting" /\ req[r].new # 0 =>
    /\ published[Src(r)].hash = req[r].new /\ published[Src(r)].rev = req[r].rev
    /\ ~Held(Src(r), req[r].new)

OrderInv ==
  /\ Punctual /\ FileLags /\ InOrder
  /\ HeldAsRecorded /\ CarriedIsNewest /\ RevisionsFollowThePublisher

Known == MaxFetch < Interval /\ PollInv /\ HeldInv /\ OrderInv

LEMMA OnePollAtATime ==
  ASSUME MaxFetch < Interval, PollInv, Punctual,
         NEW p \in Requests, NEW r \in Requests, p # r, Polling(p), Polling(r)
  PROVE  Src(p) # Src(r)
<1> SUFFICES ASSUME Src(p) = Src(r) PROVE FALSE
  OBVIOUS
<1> DEFINE s == Src(r)
           a == req[p].asked[s]
           b == req[r].asked[s]
<1>1. s \in Sources /\ TypeOK
  BY RequestType DEF PollInv, SourceInHand, Polling
<1>2. a \in Nat \cup {Never} /\ b \in Nat \cup {Never} /\ clock \in Nat
  BY <1>1, FlowTypes
<1>3. a # Never /\ b # Never /\ clock <= a + MaxFetch /\ clock <= b + MaxFetch
  BY DEF Punctual
<1>4. a - b >= Interval \/ b - a >= Interval
  BY <1>1, <1>3 DEF PollInv, PollsAreSpaced
<1>5. a <= clock /\ b <= clock
  BY DEF Punctual
<1> HIDE DEF a, b
<1> QED
  BY <1>2, <1>3, <1>4, <1>5, PollingAssumption DEF Never

LEMMA OutsideOrderInv ==
  ASSUME Known, Tick \/ (\E s \in Sources : Publish(s)) \/ UNCHANGED vars
  PROVE  OrderInv'
<1> USE DEF publishers, coordinator
<1>1. UNCHANGED <<published, store, file, req>>
  BY DEF Tick, Publish, vars
<1>2. FileLags' /\ InOrder' /\ HeldAsRecorded' /\ CarriedIsNewest'
        /\ RevisionsFollowThePublisher'
  BY <1>1 DEF Known, OrderInv, FileLags, BehindRecord, InOrder, HeldAsRecorded,
     CarriedIsNewest, RevisionsFollowThePublisher, Held, Src
<1>3. Punctual'
  <2> SUFFICES ASSUME NEW r \in Requests, Polling(r)
               PROVE  /\ req[r].asked[Src(r)] # Never
                      /\ req[r].asked[Src(r)] <= clock'
                      /\ clock' <= req[r].asked[Src(r)] + MaxFetch
    BY <1>1 DEF Punctual, Polling, Src
  <2>1. Src(r) \in Sources /\ TypeOK
    BY RequestType DEF Known, PollInv, SourceInHand, Polling
  <2>2. clock \in Nat /\ req[r].asked[Src(r)] \in Nat \cup {Never}
    BY <2>1, FlowTypes
  <2>3. clock' = clock \/ (clock' = clock + 1 /\ clock < req[r].asked[Src(r)] + MaxFetch)
    BY DEF Tick, Publish, vars
  <2> QED
    BY <2>2, <2>3, PollingAssumption DEF Known, OrderInv, Punctual, Never
<1> QED
  BY <1>2, <1>3 DEF OrderInv

(* A step that leaves the record alone and puts nothing into the store.      *)
LEMMA RestingOrderInv ==
  ASSUME Known, NEW r \in Requests, OthersRest(r),
         UNCHANGED <<clock, published>>,
         \A s \in Sources, v \in Contents : store'[s][v].at # Never => store'[s][v] = store[s][v],
         BehindRecord(file'), BehindRecord(req'[r].snap),
         Polling(r)' => /\ req'[r].asked[Src(r)'] # Never
                        /\ req'[r].asked[Src(r)'] <= clock
                        /\ clock <= req'[r].asked[Src(r)'] + MaxFetch,
         req'[r].pc # "inserting",
         req'[r].pc = "committing" /\ req'[r].new # 0 => published[Src(r)'].hash <= req'[r].new
  PROVE  OrderInv'
<1> USE DEF Known, OrderInv
<1>1. Punctual'
  BY DEF Punctual, OthersRest, Polling, Src
<1>2. FileLags'
  BY DEF FileLags, BehindRecord, OthersRest
<1>3. InOrder'
  BY DEF InOrder, OthersRest, Src
<1>4. \A s \in Sources, v \in Contents : Held(s, v)' => Held(s, v) /\ store'[s][v] = store[s][v]
  BY DEF Held
<1>5. HeldAsRecorded' /\ RevisionsFollowThePublisher'
  BY <1>4 DEF HeldAsRecorded, RevisionsFollowThePublisher
<1>6. CarriedIsNewest'
  <2> SUFFICES ASSUME NEW p \in Requests, req'[p].pc = "inserting", req'[p].new # 0
               PROVE  /\ published[Src(p)'].hash = req'[p].new
                      /\ published[Src(p)'].rev = req'[p].rev
                      /\ ~Held(Src(p), req[p].new)'
    BY DEF CarriedIsNewest
  <2>1. p # r /\ req'[p] = req[p] /\ Src(p)' = Src(p)
    BY DEF OthersRest, Src
  <2>2. Src(p) \in Sources /\ req[p].new \in Contents
    BY <2>1, RequestType, FlowTypes DEF PollInv, SourceInHand, Contents
  <2> QED
    BY <1>4, <2>1, <2>2 DEF CarriedIsNewest, Held
<1> QED
  BY <1>1, <1>2, <1>3, <1>5, <1>6

LEMMA FreshIsBehind == TypeOK => BehindRecord(Fresh)
  BY FlowTypes DEF BehindRecord, Fresh

LEMMA NowIsBehind == TypeOK => BehindRecord(Now)
  BY FlowTypes DEF BehindRecord, Now

LEMMA ReadingOrderInv ==
  ASSUME Known, NEW r \in Requests,
         \/ Begin(r) \/ SkipSource(r) \/ Unreadable(r) \/ Evict(r)
         \/ SelectFails(r) \/ Refuse(r) \/ Select(r)
         \/ Snapshot(r) \/ Replace(r) \/ SaveFails(r)
  PROVE  OrderInv'
<1> USE DEF publishers, coordinator
<1>1. /\ OthersRest(r) /\ UNCHANGED <<clock, published>>
      /\ req'[r].snap \in {req[r].snap, Now, Fresh}
      /\ ~Polling(r)' /\ req'[r].pc \notin {"inserting", "committing"}
      /\ TypeOK
  BY DropStep DEF Polling, Known, PollInv
<1>2. BehindRecord(req'[r].snap)
  BY <1>1, FreshIsBehind, NowIsBehind DEF Known, OrderInv, FileLags
<1>3. file' \in {file, req[r].snap}
  BY DEF Begin, SkipSource, Unreadable, SelectFails, Refuse, Select, Snapshot, Replace,
         SaveFails, Evict
<1>4. BehindRecord(file')
  BY <1>3 DEF Known, OrderInv, FileLags
<1>5. \A s \in Sources, v \in Contents : store'[s][v].at # Never => store'[s][v] = store[s][v]
  <2>1. CASE Evict(r)
    BY <2>1 DEF Evict, EmptyStore
  <2>2. CASE ~Evict(r)
    BY <2>2 DEF Begin, SkipSource, Unreadable, SelectFails, Refuse, Select, Snapshot, Replace,
                SaveFails
  <2> QED
    BY <2>1, <2>2
<1> QED
  BY <1>1, <1>2, <1>4, <1>5, RestingOrderInv

LEMMA AskingOrderInv ==
  ASSUME Known, NEW r \in Requests, Reserve(r) \/ NotModified(r) \/ Answered(r)
  PROVE  OrderInv'
<1>1. TypeOK /\ SourceInHand /\ clock \in Nat
  BY FlowTypes DEF Known, PollInv
<1>2. BehindRecord(req[r].snap) /\ BehindRecord(file)
  BY DEF Known, OrderInv, FileLags
<1>3. CASE Reserve(r)
  <2>1. clock # Never /\ clock <= clock + MaxFetch
    BY <1>1, PollingAssumption DEF Never
  <2> QED
    BY <1>1, <1>2, <1>3, <2>1, AskStep, RestingOrderInv
<1>4. CASE NotModified(r) \/ Answered(r)
  <2>1. Src(r) \in Sources
    BY <1>1, <1>4, RequestType DEF SourceInHand, NotModified, Answered
  <2>2. published[Src(r)].hash <= content[Src(r)]
    BY <2>1 DEF Known, HeldInv, RecordSeen, KnownTo, Now
  <2>3. Polling(r)
    BY <1>4 DEF NotModified, Answered, Polling
  <2>4. /\ req[r].asked[Src(r)] # Never /\ req[r].asked[Src(r)] <= clock
        /\ clock <= req[r].asked[Src(r)] + MaxFetch
    BY <2>3 DEF Known, OrderInv, Punctual
  <2> QED
    BY <1>1, <1>2, <1>4, <2>2, <2>4, HearStep, RestingOrderInv
<1> QED
  BY <1>3, <1>4

(* A commit puts the record forward, and no other poll is on its feed.       *)
LEMMA CommitOrderInv ==
  ASSUME Known, NEW r \in Requests, Commit(r)
  PROVE  OrderInv'
<1> DEFINE u == Src(r)
           n == req[r].new
           c == published[u]
<1>1. TypeOK /\ SourceInHand
  BY DEF Known, PollInv
<1>2. /\ OthersRest(r) /\ UNCHANGED <<clock, store, file>>
      /\ Src(r)' = u /\ u \in Sources /\ req'[r].asked = req[r].asked
      /\ req[r].pc = "committing" /\ req'[r].pc = "inserting"
      /\ req'[r].new = News(r) /\ req'[r].rev = Revision(c, n).rev
      /\ req'[r].snap = req[r].snap
  BY <1>1, TakeStep
<1>3. /\ \A s \in Sources : s # u \/ ~IsNews(r) => published'[s] = published[s]
      /\ IsNews(r) => published'[u] = Revision(c, n)
  BY <1>1, <1>2, TakeStep DEF TypeOK
<1>4. /\ c.hash \in Nat /\ c.rev \in Nat /\ n \in Nat
      /\ Revision(c, n).hash = n
      /\ c.hash # 0 => Revision(c, n).rev = c.rev + 1
  BY <1>1, <1>2, FlowTypes, PollingAssumption DEF Revision
<1>5. IsNews(r) => n # 0 /\ c.hash < n
  BY <1>2, <1>4 DEF IsNews, Known, OrderInv, InOrder
<1>6. ASSUME NEW p \in Requests, p # r, req[p].pc \in {"committing", "inserting"}
      PROVE  Src(p) # u
  BY <1>2, <1>6, OnePollAtATime DEF Known, OrderInv, Polling
<1> HIDE DEF u, n, c
<1>7. \A s \in Sources : published[s].hash <= published'[s].hash
  BY <1>1, <1>3, <1>4, <1>5, FlowTypes DEF c
<1>8. Punctual'
  BY <1>2 DEF Known, OrderInv, Punctual, OthersRest, Polling, Src, u
<1>9. FileLags'
  <2>1. \A m : BehindRecord(m) /\ (\A s \in Sources : m.published[s].hash \in Nat)
                 => \A s \in Sources : m.published[s].hash <= published'[s].hash
    <3>1. \A s \in Sources : published[s].hash \in Nat /\ published'[s].hash \in Nat
      BY <1>1, <1>3, <1>4, FlowTypes
    <3> QED
      BY <1>7, <3>1 DEF BehindRecord
  <2>2. \A s \in Sources : file.published[s].hash <= published'[s].hash
    BY <1>1, <2>1, FlowTypes DEF Known, OrderInv, FileLags
  <2>3. \A p \in Requests : \A s \in Sources :
           req[p].snap.published[s].hash <= published'[s].hash
    BY <1>1, <2>1, FlowTypes DEF Known, OrderInv, FileLags
  <2>4. \A p \in Requests : req'[p].snap = req[p].snap
    BY <1>2 DEF OthersRest
  <2> QED
    BY <1>2, <2>2, <2>3, <2>4 DEF FileLags, BehindRecord
<1>10. InOrder'
  <2> SUFFICES ASSUME NEW p \in Requests, req'[p].pc = "committing", req'[p].new # 0
               PROVE  published'[Src(p)'].hash <= req'[p].new
    BY DEF InOrder
  <2>1. p # r /\ req'[p] = req[p] /\ Src(p)' = Src(p)
    BY <1>2 DEF OthersRest, Src
  <2>2. Src(p) # u /\ Src(p) \in Sources
    BY <1>1, <1>6, <2>1, RequestType DEF SourceInHand
  <2> QED
    BY <1>3, <2>1, <2>2 DEF Known, OrderInv, InOrder
<1>11. ASSUME NEW v \in Contents, Held(u, v), IsNews(r)
       PROVE  v < n /\ store[u][v].rev < Revision(c, n).rev
  <2>1. /\ v <= c.hash
        /\ v = c.hash => store[u][v].rev = c.rev
        /\ v < c.hash => store[u][v].rev < c.rev
    BY <1>2, <1>11 DEF Known, OrderInv, HeldAsRecorded, c
  <2>2. v \in Nat /\ v # 0 /\ store[u][v].rev \in Nat
    BY <1>1, <1>2, <1>11, FlowTypes
  <2> QED
    BY <1>4, <1>5, <1>11, <2>1, <2>2
<1>12. HeldAsRecorded'
  <2> SUFFICES ASSUME NEW s \in Sources, NEW v \in Contents, Held(s, v)
               PROVE  /\ v <= published'[s].hash
                      /\ v = published'[s].hash => store[s][v].rev = published'[s].rev
                      /\ v < published'[s].hash => store[s][v].rev < published'[s].rev
    BY <1>2 DEF HeldAsRecorded, Held
  <2>1. CASE s = u /\ IsNews(r)
    <3>1. v \in Nat /\ n \in Nat
      BY <1>1, <1>4, FlowTypes
    <3> QED
      BY <1>3, <1>4, <1>11, <2>1, <3>1
  <2>2. CASE ~(s = u /\ IsNews(r))
    BY <1>3, <2>2 DEF Known, OrderInv, HeldAsRecorded
  <2> QED
    BY <2>1, <2>2
<1>13. CarriedIsNewest'
  <2> SUFFICES ASSUME NEW p \in Requests, req'[p].pc = "inserting", req'[p].new # 0
               PROVE  /\ published'[Src(p)'].hash = req'[p].new
                      /\ published'[Src(p)'].rev = req'[p].rev
                      /\ ~Held(Src(p)', req'[p].new)
    BY <1>2 DEF CarriedIsNewest, Held
  <2>1. CASE p = r
    <3>1. IsNews(r) /\ req'[r].new = n
      BY <1>2, <2>1 DEF News, n
    <3>2. n \in Contents
      BY <1>1, <1>5, <3>1, FlowTypes DEF Contents, n
    <3>3. ~Held(u, n)
      BY <1>4, <1>11, <3>1, <3>2
    <3> QED
      BY <1>2, <1>3, <1>4, <2>1, <3>1, <3>3
  <2>2. CASE p # r
    <3>1. req'[p] = req[p] /\ Src(p)' = Src(p)
      BY <1>2, <2>2 DEF OthersRest, Src
    <3>2. Src(p) # u /\ Src(p) \in Sources
      BY <1>1, <1>6, <2>2, <3>1, RequestType DEF SourceInHand
    <3> QED
      BY <1>3, <3>1, <3>2 DEF Known, OrderInv, CarriedIsNewest
  <2> QED
    BY <2>1, <2>2
<1>14. RevisionsFollowThePublisher'
  BY <1>2 DEF Known, OrderInv, RevisionsFollowThePublisher, Held
<1> QED
  BY <1>8, <1>9, <1>10, <1>12, <1>13, <1>14 DEF OrderInv

(* What is inserted is the newest there is.                                  *)
LEMMA InsertOrderInv ==
  ASSUME Known, NEW r \in Requests, Insert(r)
  PROVE  OrderInv'
<1> DEFINE u == Src(r)
           n == req[r].new
<1>1. TypeOK /\ SourceInHand
  BY DEF Known, PollInv
<1>2. /\ OthersRest(r) /\ UNCHANGED <<clock, published, file>>
      /\ req'[r].snap \in {req[r].snap, Now, Fresh}
      /\ req[r].pc = "inserting"
      /\ req'[r].pc \notin {"fetching", "committing", "inserting"}
  BY <1>1, DropStep DEF Insert
<1>3. u \in Sources /\ n \in 0 .. MaxVersion /\ req[r].got \in Times
  BY <1>1, <1>2, RequestType, FlowTypes DEF SourceInHand
<1>4. BehindRecord(req'[r].snap) /\ BehindRecord(file')
  BY <1>1, <1>2, FreshIsBehind, NowIsBehind DEF Known, OrderInv, FileLags
<1>5. CASE n = 0
  BY <1>2, <1>4, <1>5, RestingOrderInv DEF Insert, Polling
<1>6. CASE n # 0
  <2>1. /\ published[u].hash = n /\ published[u].rev = req[r].rev /\ ~Held(u, n)
        /\ n \in Contents
    BY <1>2, <1>3, <1>6 DEF Known, OrderInv, CarriedIsNewest, Contents
  <2>2. store' = [store EXCEPT ![u][n] = [at |-> req[r].got, rev |-> req[r].rev]]
    BY <1>6 DEF Insert
  <2>3. /\ store'[u][n].rev = req[r].rev
        /\ \A s \in Sources, v \in Contents :
             ~(s = u /\ v = n) => store'[s][v] = store[s][v]
    <3>1. store \in [Sources -> [Contents -> Item]]
      BY <1>1 DEF TypeOK
    <3> HIDE DEF u, n
    <3> QED
      BY <1>3, <2>1, <2>2, <3>1
  <2>4. \A s \in Sources, v \in Contents : Held(s, v)' /\ ~(s = u /\ v = n)
           => Held(s, v) /\ store'[s][v] = store[s][v]
    BY <2>3 DEF Held
  <2>5. Punctual'
    BY <1>2 DEF Known, OrderInv, Punctual, OthersRest, Polling, Src
  <2>6. FileLags'
    BY <1>2, <1>4 DEF Known, OrderInv, FileLags, BehindRecord, OthersRest
  <2>7. InOrder'
    BY <1>2 DEF Known, OrderInv, InOrder, OthersRest, Src
  <2>8. HeldAsRecorded'
    <3> SUFFICES ASSUME NEW s \in Sources, NEW v \in Contents, Held(s, v)'
                 PROVE  /\ v <= published[s].hash
                        /\ v = published[s].hash => store'[s][v].rev = published[s].rev
                        /\ v < published[s].hash => store'[s][v].rev < published[s].rev
      BY <1>2 DEF HeldAsRecorded
    <3>1. CASE s = u /\ v = n
      <4>1. n \in Nat
        BY <1>3
      <4> QED
        BY <2>1, <2>3, <3>1, <4>1
    <3>2. CASE ~(s = u /\ v = n)
      BY <2>4, <3>2 DEF Known, OrderInv, HeldAsRecorded
    <3> QED
      BY <3>1, <3>2
  <2>9. CarriedIsNewest'
    <3> SUFFICES ASSUME NEW p \in Requests, req'[p].pc = "inserting", req'[p].new # 0
                 PROVE  /\ published[Src(p)'].hash = req'[p].new
                        /\ published[Src(p)'].rev = req'[p].rev
                        /\ ~Held(Src(p), req[p].new)'
      BY <1>2 DEF CarriedIsNewest
    <3>1. p # r /\ req'[p] = req[p] /\ Src(p)' = Src(p)
      BY <1>2 DEF OthersRest, Src
    <3>2. Src(p) # u /\ Src(p) \in Sources
      BY <1>1, <1>2, <3>1, OnePollAtATime, RequestType
      DEF Known, OrderInv, Polling, SourceInHand
    <3>3. /\ published[Src(p)].hash = req[p].new /\ published[Src(p)].rev = req[p].rev
          /\ ~Held(Src(p), req[p].new)
      BY <3>1 DEF Known, OrderInv, CarriedIsNewest
    <3>4. req[p].new \in Contents
      BY <1>1, <3>1, FlowTypes DEF Contents
    <3> QED
      BY <2>4, <3>1, <3>2, <3>3, <3>4 DEF Held
  <2>10. RevisionsFollowThePublisher'
    <3> SUFFICES ASSUME NEW s \in Sources, NEW v \in Contents, NEW w \in Contents,
                        Held(s, v)', Held(s, w)', v < w
                 PROVE  store'[s][v].rev < store'[s][w].rev
      BY DEF RevisionsFollowThePublisher
    <3>1. v \in Nat /\ w \in Nat /\ n \in Nat
      BY <1>1, <1>3, FlowTypes
    <3>2. CASE s = u /\ w = n
      <4>1. Held(s, v) /\ store'[s][v] = store[s][v]
        BY <2>4, <3>1, <3>2
      <4> QED
        BY <2>1, <2>3, <3>2, <4>1 DEF Known, OrderInv, HeldAsRecorded
    <3>3. CASE s = u /\ v = n
      <4>1. Held(s, w) /\ w <= n
        BY <2>1, <2>4, <3>1, <3>3 DEF Known, OrderInv, HeldAsRecorded
      <4> QED
        BY <3>1, <3>3, <4>1
    <3>4. CASE ~(s = u /\ w = n) /\ ~(s = u /\ v = n)
      BY <2>4, <3>4 DEF Known, OrderInv, RevisionsFollowThePublisher
    <3> QED
      BY <3>2, <3>3, <3>4
  <2> QED
    BY <2>5, <2>6, <2>7, <2>8, <2>9, <2>10 DEF OrderInv
<1> QED
  BY <1>5, <1>6

LEMMA RestartOrderInv ==
  ASSUME Known, Crash \/ Stop
  PROVE  OrderInv'
<1>1. TypeOK
  BY DEF Known, PollInv
<1>2. PICK m \in {file, Now} : Restart(m)
  BY DEF Crash, Stop
<1>3. file' = m /\ published' = m.published /\ store' = EmptyStore
  BY <1>2 DEF Restart, Restored
<1>4. \A r \in Requests : req'[r].pc \in {"idle", "dead"} /\ req'[r].snap = Fresh
  BY <1>2 DEF Restart, NewRequest
<1>5. \A s \in Sources : m.published[s].hash \in Nat
  BY <1>1, FlowTypes DEF Now
<1>6. FileLags'
  <2>1. \A s \in Sources : file'.published[s].hash <= published'[s].hash
    BY <1>3, <1>5
  <2>2. \A r \in Requests : \A s \in Sources :
          req'[r].snap.published[s].hash <= published'[s].hash
    BY <1>3, <1>4, <1>5 DEF Fresh
  <2> QED
    BY <2>1, <2>2 DEF FileLags, BehindRecord
<1>7. \A s \in Sources, v \in Contents : ~Held(s, v)'
  BY <1>3 DEF Held, EmptyStore
<1> QED
  BY <1>4, <1>6, <1>7 DEF OrderInv, Punctual, Polling, InOrder, CarriedIsNewest,
     HeldAsRecorded, RevisionsFollowThePublisher

LEMMA InitOrderInv == Init => OrderInv
<1> SUFFICES ASSUME Init PROVE OrderInv
  OBVIOUS
<1>1. Punctual /\ InOrder /\ CarriedIsNewest
  BY DEF Init, Punctual, Polling, InOrder, CarriedIsNewest, NewRequest
<1>2. FileLags
  BY DEF Init, FileLags, BehindRecord, Fresh, NewRequest
<1>3. HeldAsRecorded /\ RevisionsFollowThePublisher
  BY DEF Init, HeldAsRecorded, RevisionsFollowThePublisher, Held, EmptyStore
<1> QED
  BY <1>1, <1>2, <1>3 DEF OrderInv

LEMMA StepOrderInv == Known /\ [Next]_vars => OrderInv'
<1> SUFFICES ASSUME Known, [Next]_vars PROVE OrderInv'
  OBVIOUS
<1>1. ASSUME NEW r \in Requests, Begin(r) \/ Step(r) PROVE OrderInv'
  BY <1>1, ReadingOrderInv, AskingOrderInv, CommitOrderInv, InsertOrderInv DEF Step
<1> QED
  BY <1>1, OutsideOrderInv, RestartOrderInv DEF Next

(* The record goes on to what the saved copy does not have.                  *)
LEMMA CommitAnnouncesNews ==
  ASSUME Known, [Next]_vars, NEW s \in Sources, published'[s] # published[s], stops' = stops
  PROVE  published'[s].hash # file.published[s].hash
<1>1. TypeOK /\ SourceInHand
  BY DEF Known, PollInv
<1>2. PICK r \in Requests : Commit(r)
  <2>1. ~Crash /\ ~Stop
    BY <1>1, FlowTypes DEF Crash, Stop, Restart
  <2>2. ASSUME NEW r \in Requests, Begin(r) \/ Step(r), ~Commit(r)
        PROVE  published' = published
    BY <1>1, <2>2, DropStep, AskStep, HearStep DEF Step
  <2> QED
    BY <2>1, <2>2 DEF Next, Tick, Publish, coordinator, vars
<1>3. /\ s = Src(r) /\ IsNews(r) /\ req[r].pc = "committing"
      /\ published'[s].hash = req[r].new
  BY <1>1, <1>2, TakeStep DEF TypeOK, Revision
<1>4. published[s].hash <= req[r].new /\ published[s].hash # req[r].new
  BY <1>3 DEF IsNews, Known, OrderInv, InOrder
<1>5. file.published[s].hash <= published[s].hash
  BY DEF Known, OrderInv, FileLags, BehindRecord
<1>6. /\ req[r].new \in Int /\ published[s].hash \in Int /\ file.published[s].hash \in Int
  BY <1>1, FlowTypes
<1> QED
  BY <1>3, <1>4, <1>5, <1>6

(* Of two contents in the store the one the publisher put out later has the
   higher revision, as long as no poll outlasts the interval: for any number
   of requests, sources and restarts (the commit section of poll()).         *)
THEOREM CorrectionsStayInOrder ==
  MaxFetch < Interval => (Spec => []RevisionsFollowThePublisher)
<1> SUFFICES ASSUME MaxFetch < Interval PROVE Spec => []RevisionsFollowThePublisher
  OBVIOUS
<1>1. PollInv /\ HeldInv /\ OrderInv => Known
  BY DEF Known
<1>2. OrderInv => RevisionsFollowThePublisher
  BY DEF OrderInv
<1> QED
  BY PollInvariant, InitHeldInv, StepHeldInv, InitOrderInv, StepOrderInv, <1>1, <1>2, PTL
  DEF Spec

(* What the saved record says has been announced is announced by no later
   process, as long as no poll outlasts the interval, and whichever order the
   saves land in (the commit section of poll(); coordinator_state).          *)
THEOREM NothingIsAnnouncedTwice == MaxFetch < Interval => (Spec => NotAnnouncedAgain)
<1> SUFFICES ASSUME MaxFetch < Interval PROVE Spec => NotAnnouncedAgain
  OBVIOUS
<1>1. PollInv /\ HeldInv /\ OrderInv => Known
  BY DEF Known
<1>2. Known /\ [Next]_vars =>
        \A s \in Sources : published'[s] # published[s] /\ stops' = stops
          => published'[s].hash # file.published[s].hash
  BY CommitAnnouncesNews
<1> QED
  BY PollInvariant, InitHeldInv, StepHeldInv, InitOrderInv, StepOrderInv, <1>1, <1>2, PTL
  DEF Spec, NotAnnouncedAgain

-----------------------------------------------------------------------------
(* The contract.  Behind the record, the file and the snapshots about to      *)
(* replace it is one line of announcements: the record is its end, the others *)
(* are earlier points of it.                                                  *)

OnLine(m) ==
  \A s \in Sources :
    /\ Contract!NotAfter(m.published[s], published[s])
    /\ m.published[s].hash = 0 => m.published[s] = Contract!Nothing

LineInv == OnLine(Now) /\ OnLine(file) /\ \A r \in Requests : OnLine(req[r].snap)

LEMMA ClaimTypes ==
  ASSUME TypeOK, NEW s \in Sources
  PROVE  /\ published[s] \in Claim /\ file.published[s] \in Claim
         /\ \A r \in Requests : req[r].snap.published[s] \in Claim
         /\ \A c \in Claim : c.hash \in Nat /\ c.rev \in Nat /\ c = [hash |-> c.hash, rev |-> c.rev]
<1>1. \A r \in Requests : req[r].snap \in Memory
  BY DEF TypeOK, Request
<1> QED
  BY <1>1, PollingAssumption DEF TypeOK, Memory, Claim

\* What begins from nothing is on every line, and the record is on its own.
LEMMA StartsOnLine ==
  ASSUME TypeOK, OnLine(Now)
  PROVE  OnLine(Fresh) /\ OnLine(Now)
<1> SUFFICES ASSUME NEW s \in Sources
             PROVE  /\ Contract!NotAfter(Fresh.published[s], published[s])
                    /\ Fresh.published[s] = Contract!Nothing
  BY DEF OnLine
<1>1. Fresh.published[s] = Contract!Nothing
  BY DEF Fresh, Contract!Nothing
<1>2. published[s].hash = 0 => published[s] = Contract!Nothing
  BY DEF OnLine, Now
<1>3. published[s].hash \in Nat
  BY ClaimTypes
<1>4. Contract!Nothing.hash = 0
  BY DEF Contract!Nothing
<1> QED
  BY <1>1, <1>2, <1>3, <1>4 DEF Contract!NotAfter

LEMMA InitLineInv == Init => LineInv
<1> SUFFICES ASSUME Init PROVE LineInv
  OBVIOUS
<1>1. \A s \in Sources : Fresh.published[s] = Contract!Nothing
  BY DEF Fresh, Contract!Nothing
<1>2. published = Fresh.published /\ file = Fresh /\ \A r \in Requests : req[r].snap = Fresh
  BY DEF Init, NewRequest
<1> QED
  BY <1>1, <1>2 DEF LineInv, OnLine, Now, Contract!NotAfter

\* A step that announces nothing, and saves or copies at most the record.
LEMMA RestingLineInv ==
  ASSUME TypeOK, LineInv, published' = published,
         file' = file \/ \E r \in Requests : file' = req[r].snap,
         \A r \in Requests : \/ req'[r].snap = req[r].snap
                             \/ req'[r].snap = Now \/ req'[r].snap = Fresh
  PROVE  LineInv'
<1>1. OnLine(Fresh) /\ OnLine(Now)
  BY StartsOnLine DEF LineInv
<1>2. \A s \in Sources :
        /\ Contract!NotAfter(Now'.published[s], published'[s])
        /\ Now'.published[s].hash = 0 => Now'.published[s] = Contract!Nothing
  BY <1>1 DEF Now, OnLine
<1>3. \A s \in Sources :
        /\ Contract!NotAfter(file'.published[s], published'[s])
        /\ file'.published[s].hash = 0 => file'.published[s] = Contract!Nothing
  BY DEF LineInv, OnLine
<1>4. \A r \in Requests : \A s \in Sources :
        /\ Contract!NotAfter(req'[r].snap.published[s], published'[s])
        /\ req'[r].snap.published[s].hash = 0 => req'[r].snap.published[s] = Contract!Nothing
  BY <1>1 DEF LineInv, OnLine
<1> QED
  BY <1>2, <1>3, <1>4 DEF LineInv, OnLine

\* Announcing the next content puts what was at the end behind it.
LEMMA NextOnLine ==
  ASSUME NEW c \in Claim, NEW n \in Nat, c.hash < n,
         c.hash = 0 => c = Contract!Nothing,
         NEW a \in Claim, Contract!NotAfter(a, c)
  PROVE  /\ Contract!NotAfter(a, Revision(c, n))
         /\ Revision(c, n) = [hash |-> n, rev |-> Contract!Follows(c)]
         /\ Revision(c, n) # Contract!Nothing /\ Revision(c, n).hash = n
<1>1. c.hash \in Nat /\ c.rev \in Nat /\ a.hash \in Nat /\ a.rev \in Nat
  BY PollingAssumption DEF Claim
<1>2. c = Contract!Nothing <=> c.hash = 0
  BY DEF Contract!Nothing
<1>3. Revision(c, n) = [hash |-> n, rev |-> Contract!Follows(c)]
  BY <1>2 DEF Revision, Contract!Follows
<1>4. Revision(c, n).hash = n /\ n > 0
      /\ (c.hash # 0 => Revision(c, n).rev = c.rev + 1)
  BY <1>1 DEF Revision
<1>5. Revision(c, n) # Contract!Nothing
  BY <1>4 DEF Contract!Nothing
<1>6. Contract!NotAfter(a, Revision(c, n))
  <2>1. CASE c.hash = 0
    <3>1. a = Contract!Nothing
      BY <1>1, <1>2, <2>1 DEF Contract!NotAfter
    <3> QED
      BY <1>4, <3>1 DEF Contract!NotAfter, Contract!Nothing
  <2>2. CASE c.hash # 0
    BY <1>1, <1>4, <2>2 DEF Contract!NotAfter
  <2> QED
    BY <2>1, <2>2
<1> QED
  BY <1>3, <1>4, <1>5, <1>6

LEMMA CommitContract ==
  ASSUME Known, LineInv, NEW r \in Requests, Commit(r)
  PROVE  LineInv' /\ [Contract!Next]_(Contract!cvars)
<1> DEFINE u == Src(r)
           n == req[r].new
           c == published[u]
<1>1. TypeOK /\ SourceInHand
  BY DEF Known, PollInv
<1>2. /\ OthersRest(r) /\ u \in Sources /\ req[r].pc = "committing"
      /\ req'[r].snap = req[r].snap
      /\ published' = IF IsNews(r) THEN [published EXCEPT ![u] = Revision(c, n)] ELSE published
      /\ UNCHANGED <<content, store, file>>
  BY <1>1, TakeStep
<1>3. \A p \in Requests : req'[p].snap = req[p].snap
  BY <1>2 DEF OthersRest
<1>4. Holdings' = Holdings
  BY <1>2 DEF Holdings, Held
<1>5. CASE ~IsNews(r)
  <2>1. published' = published
    BY <1>2, <1>5
  <2>2. LineInv'
    BY <1>1, <1>2, <1>3, <2>1, RestingLineInv
  <2> QED
    BY <1>2, <1>4, <2>1, <2>2 DEF Contract!cvars
<1>6. CASE IsNews(r)
  <2>1. c \in Claim /\ n \in 0 .. MaxVersion /\ n \in Nat
    BY <1>1, <1>2, ClaimTypes, FlowTypes, PollingAssumption
  <2>2. n # 0 /\ c.hash # n /\ c.hash <= n
    BY <1>2, <1>6 DEF IsNews, Known, OrderInv, InOrder
  <2>4. c.hash < n
    BY <2>1, <2>2, PollingAssumption DEF Claim
  <2>5. c.hash = 0 => c = Contract!Nothing
    BY <1>2 DEF LineInv, OnLine, Now
  <2>6. /\ published'[u] = Revision(c, n)
        /\ \A s \in Sources \ {u} : published'[s] = published[s]
    BY <1>1, <1>2, <1>6 DEF TypeOK
  <2>7. \A a \in Claim : Contract!NotAfter(a, c) => Contract!NotAfter(a, Revision(c, n))
    BY <2>1, <2>4, <2>5, NextOnLine
  <2>8. /\ Revision(c, n) = [hash |-> n, rev |-> Contract!Follows(c)]
        /\ Revision(c, n) # Contract!Nothing /\ Revision(c, n).hash = n
    <3>1. Contract!NotAfter(c, c)
      BY DEF Contract!NotAfter
    <3> QED
      BY <2>1, <2>4, <2>5, <3>1, NextOnLine
  <2> HIDE DEF u, n, c
  <2>9. ASSUME NEW m, OnLine(m), \A s \in Sources : m.published[s] \in Claim
        PROVE  \A s \in Sources :
                 /\ Contract!NotAfter(m.published[s], published'[s])
                 /\ m.published[s].hash = 0 => m.published[s] = Contract!Nothing
    BY <2>6, <2>7, <2>9 DEF OnLine, c
  <2>10. LineInv'
    <3>1. \A s \in Sources :
            /\ Contract!NotAfter(file'.published[s], published'[s])
            /\ file'.published[s].hash = 0 => file'.published[s] = Contract!Nothing
      BY <1>1, <1>2, <2>9, ClaimTypes DEF LineInv
    <3>2. \A p \in Requests : \A s \in Sources :
            /\ Contract!NotAfter(req'[p].snap.published[s], published'[s])
            /\ req'[p].snap.published[s].hash = 0 => req'[p].snap.published[s] = Contract!Nothing
      <4> TAKE p \in Requests
      <4>1. OnLine(req[p].snap) /\ \A s \in Sources : req[p].snap.published[s] \in Claim
        BY <1>1, ClaimTypes DEF LineInv
      <4> QED
        BY <1>3, <2>9, <4>1
    <3>3. \A s \in Sources :
            /\ Contract!NotAfter(Now'.published[s], published'[s])
            /\ Now'.published[s].hash = 0 => Now'.published[s] = Contract!Nothing
      <4> TAKE s \in Sources
      <4>1. Now'.published[s] = published'[s]
        BY DEF Now
      <4>2. published'[s].hash = 0 => published'[s] = Contract!Nothing
        <5>1. s # u => (published[s].hash = 0 => published[s] = Contract!Nothing)
          BY DEF LineInv, OnLine, Now
        <5> QED
          BY <2>2, <2>6, <2>8, <5>1
      <4> QED
        BY <4>1, <4>2 DEF Contract!NotAfter
    <3> QED
      BY <3>1, <3>2, <3>3 DEF LineInv, OnLine
  <2>11. Contract!Announce(u, n)
    <3>1. n <= content[u]
      BY <1>2, <1>6 DEF Known, HeldInv, SeenBefore, InHand, IsNews, u, n
    <3>2. published' = [published EXCEPT ![u] = [hash |-> n, rev |-> Contract!Follows(published[u])]]
      BY <1>2, <1>6, <2>8 DEF c
    <3> QED
      BY <1>2, <1>4, <2>4, <3>1, <3>2 DEF Contract!Announce, c
  <2>12. n \in Contents
    BY <2>1, <2>2 DEF Contents
  <2> QED
    BY <1>2, <2>10, <2>11, <2>12 DEF Contract!Next
<1> QED
  BY <1>5, <1>6

\* What readers are given, content by content.
LEMMA HoldingsAre ==
  ASSUME NEW s \in Sources
  PROVE  Holdings[s] = {[hash |-> v, rev |-> store[s][v].rev] : v \in {v \in Contents : Held(s, v)}}
BY DEF Holdings

LEMMA InsertContract ==
  ASSUME Known, LineInv, NEW r \in Requests, Insert(r)
  PROVE  [Contract!Next]_(Contract!cvars)
<1> DEFINE u == Src(r)
           n == req[r].new
           k == req[r].rev
<1>1. TypeOK /\ SourceInHand
  BY DEF Known, PollInv
<1>2. /\ req[r].pc = "inserting" /\ u \in Sources
      /\ UNCHANGED <<content, published, file>>
      /\ store' = IF n = 0 THEN store
                  ELSE [store EXCEPT ![u][n] = [at |-> req[r].got, rev |-> k]]
  BY <1>1, RequestType DEF Insert, SourceInHand, publishers, coordinator
<1>3. CASE n = 0
  BY <1>2, <1>3 DEF Contract!cvars, Holdings, Held
<1>4. CASE n # 0
  <2>1. /\ published[u].hash = n /\ published[u].rev = k /\ ~Held(u, n)
    BY <1>2, <1>4 DEF Known, OrderInv, CarriedIsNewest
  <2>2. n \in Contents /\ req[r].got # Never
    BY <1>1, <1>4, FlowTypes, PollingAssumption DEF Contents, Times, Never
  <2>3. published[u] = [hash |-> n, rev |-> k]
    BY <1>1, <1>2, <2>1, ClaimTypes
  <2>4. /\ store'[u][n] = [at |-> req[r].got, rev |-> k]
        /\ \A s \in Sources, v \in Contents : s # u \/ v # n => store'[s][v] = store[s][v]
    BY <1>1, <1>2, <1>4, <2>2 DEF TypeOK
  <2>5. published[u] # Contract!Nothing
    BY <1>4, <2>3 DEF Contract!Nothing
  <2> HIDE DEF u, n, k
  <2>6. published[u] \notin Holdings[u]
    <3>1. \A v \in Contents : Held(u, v) => v # n
      BY <2>1
    <3>2. \A v \in Contents : [hash |-> v, rev |-> store[u][v].rev] = published[u] => v = n
      BY <2>3
    <3>3. Holdings[u] = {[hash |-> v, rev |-> store[u][v].rev] : v \in {v \in Contents : Held(u, v)}}
      BY <1>2, HoldingsAre
    <3> QED
      BY <3>1, <3>2, <3>3
  <2>7. \A s \in Sources, v \in Contents : Held(s, v)' <=> Held(s, v) \/ (s = u /\ v = n)
    BY <2>2, <2>4 DEF Held
  <2>8. Holdings' = [Holdings EXCEPT ![u] = @ \cup {published[u]}]
    <3> DEFINE claim(s, v) == [hash |-> v, rev |-> store[s][v].rev]
               later(s, v) == [hash |-> v, rev |-> store'[s][v].rev]
    <3>1. Holdings' = [s \in Sources |-> {later(s, v) : v \in {v \in Contents : Held(s, v)'}}]
      BY DEF Holdings
    <3>2. Holdings = [s \in Sources |-> {claim(s, v) : v \in {v \in Contents : Held(s, v)}}]
      BY DEF Holdings
    <3>3. later(u, n) = published[u]
      BY <2>3, <2>4
    <3>4. \A s \in Sources, v \in Contents : s # u \/ v # n => later(s, v) = claim(s, v)
      BY <2>4
    <3> HIDE DEF claim, later
    <3>5. ASSUME NEW s \in Sources, s # u
          PROVE  {later(s, v) : v \in {v \in Contents : Held(s, v)'}}
                   = {claim(s, v) : v \in {v \in Contents : Held(s, v)}}
      <4>1. \A v \in Contents : (Held(s, v)' <=> Held(s, v)) /\ later(s, v) = claim(s, v)
        BY <2>7, <3>4, <3>5
      <4>2. {v \in Contents : Held(s, v)'} = {v \in Contents : Held(s, v)}
        BY <4>1
      <4> DEFINE V == {v \in Contents : Held(s, v)}
      <4>3. \A v \in V : later(s, v) = claim(s, v)
        BY <4>1
      <4> HIDE DEF V
      <4>4. {later(s, v) : v \in V} = {claim(s, v) : v \in V}
        BY <4>3
      <4> QED
        BY <4>2, <4>4 DEF V
    <3>6. ASSUME NEW s \in Sources, s = u
          PROVE  {later(s, v) : v \in {v \in Contents : Held(s, v)'}}
                   = {claim(s, v) : v \in {v \in Contents : Held(s, v)}} \cup {published[u]}
      <4> DEFINE V == {v \in Contents : Held(s, v)}
      <4>1. {v \in Contents : Held(s, v)'} = V \cup {n}
        BY <2>2, <2>7, <3>6
      <4>2. \A v \in V : later(s, v) = claim(s, v)
        BY <2>1, <3>4, <3>6
      <4>3. later(s, n) = published[u]
        BY <3>3, <3>6
      <4> HIDE DEF V
      <4>4. {later(s, v) : v \in V \cup {n}} = {claim(s, v) : v \in V} \cup {published[u]}
        BY <4>2, <4>3
      <4> QED
        BY <4>1, <4>4 DEF V
    <3>7. ASSUME NEW s \in Sources
          PROVE  Holdings'[s] = IF s = u THEN Holdings[s] \cup {published[u]} ELSE Holdings[s]
      <4>1. /\ Holdings'[s] = {later(s, v) : v \in {v \in Contents : Held(s, v)'}}
            /\ Holdings[s] = {claim(s, v) : v \in {v \in Contents : Held(s, v)}}
        BY <3>1, <3>2
      <4> QED
        BY <3>5, <3>6, <4>1
    <3>8. Holdings = [s \in Sources |-> Holdings[s]] /\ Holdings' = [s \in Sources |-> Holdings'[s]]
      BY <3>1, <3>2
    <3> QED
      BY <1>2, <3>7, <3>8
  <2>9. Contract!Deliver(u)
    BY <1>2, <2>5, <2>6, <2>8 DEF Contract!Deliver
  <2> QED
    BY <1>2, <2>9 DEF Contract!Next
<1> QED
  BY <1>3, <1>4

LEMMA EvictContract ==
  ASSUME Known, LineInv, NEW r \in Requests, Evict(r)
  PROVE  [Contract!Next]_(Contract!cvars)
<1>1. UNCHANGED <<content, published, file>>
  BY DEF Evict, publishers, coordinator
<1>2. \A s \in Sources, v \in Contents : store'[s][v].at # Never => store'[s][v] = store[s][v]
  BY DEF Evict, EmptyStore
<1>3. \A s \in Sources, v \in Contents :
        Held(s, v)' => Held(s, v) /\ store'[s][v].rev = store[s][v].rev
  BY <1>2 DEF Held
<1>4. ASSUME NEW s \in Sources
      PROVE  Holdings'[s] \subseteq Holdings[s]
  <2>1. /\ Holdings'[s] = {[hash |-> v, rev |-> store'[s][v].rev] :
                              v \in {v \in Contents : Held(s, v)'}}
        /\ Holdings[s] = {[hash |-> v, rev |-> store[s][v].rev] :
                             v \in {v \in Contents : Held(s, v)}}
    BY DEF Holdings
  <2> QED
    BY <1>3, <2>1
<1>5. Holdings' = [s \in Sources |-> Holdings'[s]]
  BY DEF Holdings
<1> QED
  BY <1>1, <1>4, <1>5 DEF Contract!Next, Contract!Forget

LEMMA SaveContract ==
  ASSUME Known, LineInv, NEW r \in Requests, Replace(r)
  PROVE  [Contract!Next]_(Contract!cvars)
<1>1. /\ file' = req[r].snap /\ req[r].snap \in Memory
      /\ UNCHANGED <<content, published, store>>
  BY DEF Replace, publishers, coordinator, Known, PollInv, TypeOK, Request
<1>2. Holdings' = Holdings
  BY <1>1 DEF Holdings, Held
<1>3. \A s \in Sources : Contract!NotAfter(file'.published[s], published[s])
  BY <1>1 DEF LineInv, OnLine
<1>4. file'.published = [s \in Sources |-> file'.published[s]]
  BY <1>1 DEF Memory
<1> QED
  BY <1>1, <1>2, <1>3, <1>4 DEF Contract!Next, Contract!Save

\* The other steps of a request are not seen by readers nor by the record.
LEMMA QuietContract ==
  ASSUME NEW r \in Requests,
         \/ Begin(r) \/ SkipSource(r) \/ Reserve(r) \/ NotModified(r) \/ Answered(r)
         \/ Unreadable(r) \/ SelectFails(r) \/ Refuse(r) \/ Select(r)
         \/ Snapshot(r) \/ SaveFails(r)
  PROVE  UNCHANGED Contract!cvars
<1>1. UNCHANGED <<content, published, store, file>>
  BY DEF Begin, SkipSource, Reserve, NotModified, Answered, Unreadable, SelectFails, Refuse,
         Select, Snapshot, SaveFails, publishers, coordinator
<1> QED
  BY <1>1 DEF Contract!cvars, Holdings, Held

LEMMA RestartContract ==
  ASSUME Known, LineInv, Crash \/ Stop
  PROVE  LineInv' /\ [Contract!Next]_(Contract!cvars)
<1>1. TypeOK
  BY DEF Known, PollInv
<1>2. PICK m \in {file, Now} : Restart(m)
  BY DEF Crash, Stop
<1>3. /\ file' = m /\ published' = m.published /\ store' = EmptyStore /\ content' = content
      /\ \A r \in Requests : req'[r].snap = Fresh
  BY <1>2 DEF Restart, Restored, NewRequest, publishers
<1>4. OnLine(m)
  BY DEF LineInv
<1>5. LineInv'
  <2>1. \A s \in Sources : m.published[s].hash = 0 => m.published[s] = Contract!Nothing
    BY <1>4 DEF OnLine
  <2>2. \A s \in Sources : m.published[s].hash \in Nat
    BY <1>1, ClaimTypes DEF Now
  <2>3. \A s \in Sources : /\ Fresh.published[s] = Contract!Nothing
                           /\ Contract!NotAfter(Fresh.published[s], m.published[s])
    BY <2>1, <2>2 DEF Fresh, Contract!NotAfter, Contract!Nothing
  <2>4. OnLine(Now)'
    BY <1>3, <2>1 DEF OnLine, Now, Contract!NotAfter
  <2>5. OnLine(file)'
    BY <1>3, <2>1 DEF OnLine, Contract!NotAfter
  <2>6. \A r \in Requests : OnLine(req[r].snap)'
    BY <1>3, <2>3 DEF OnLine
  <2> QED
    BY <2>4, <2>5, <2>6 DEF LineInv
<1>6. Holdings' = [s \in Sources |-> {}]
  <2>1. \A s \in Sources, v \in Contents : ~Held(s, v)'
    BY <1>3 DEF Held, EmptyStore
  <2>2. \A s \in Sources : {v \in Contents : Held(s, v)'} = {}
    BY <2>1
  <2> QED
    BY <2>2 DEF Holdings
<1>7. \/ published' = file.published /\ file'.published = file.published
      \/ published' = published /\ file'.published = published
  BY <1>3 DEF Now
<1> QED
  BY <1>3, <1>5, <1>6, <1>7 DEF Contract!Next, Contract!Restart

LEMMA OutsideContract ==
  ASSUME Known, LineInv, Tick \/ (\E s \in Sources : Publish(s)) \/ UNCHANGED vars
  PROVE  LineInv' /\ [Contract!Next]_(Contract!cvars)
<1>1. UNCHANGED <<published, store, file, req>>
  BY DEF Tick, Publish, vars, coordinator
<1>2. LineInv'
  BY <1>1, RestingLineInv DEF Known, PollInv
<1>3. Holdings' = Holdings
  BY <1>1 DEF Holdings, Held
<1>4. CASE Tick \/ UNCHANGED vars
  <2>1. content' = content
    BY <1>4 DEF Tick, vars, publishers
  <2> QED
    BY <1>1, <1>2, <1>3, <2>1 DEF Contract!cvars
<1>5. ASSUME NEW s \in Sources, Publish(s)
      PROVE  Contract!Publish(s)
  <2>1. content[s] + 1 \in Contents
    BY <1>5, PollingAssumption DEF Publish, Known, PollInv, TypeOK, Contents
  <2> QED
    BY <1>1, <1>3, <1>5, <2>1 DEF Publish, Contract!Publish
<1> QED
  BY <1>2, <1>4, <1>5 DEF Contract!Next

LEMMA InitContract == Init => Contract!Init
<1> SUFFICES ASSUME Init PROVE Contract!Init
  OBVIOUS
<1>1. \A s \in Sources : {v \in Contents : Held(s, v)} = {}
  BY DEF Init, Held, EmptyStore
<1>2. Holdings = [s \in Sources |-> {}]
  BY <1>1 DEF Holdings
<1> QED
  BY <1>2 DEF Init, Fresh, Contract!Init, Contract!Nothing

\* Every step of the evidence path is one of the contract's, or none.
LEMMA StepContract ==
  Known /\ LineInv /\ [Next]_vars => LineInv' /\ [Contract!Next]_(Contract!cvars)
<1> SUFFICES ASSUME Known, LineInv, [Next]_vars
             PROVE  LineInv' /\ [Contract!Next]_(Contract!cvars)
  OBVIOUS
<1>1. ASSUME NEW r \in Requests, Begin(r) \/ Step(r)
      PROVE  LineInv' /\ [Contract!Next]_(Contract!cvars)
  <2>1. TypeOK
    BY DEF Known, PollInv
  <2>2. CASE Commit(r)
    BY <2>2, CommitContract
  <2>3. CASE ~Commit(r)
    <3>1. /\ OthersRest(r) /\ published' = published
          /\ \/ req'[r].snap = req[r].snap
             \/ req'[r].snap = Now \/ req'[r].snap = Fresh
      BY <1>1, <2>1, <2>3, DropStep, AskStep, HearStep DEF Step
    <3>2. file' = file \/ file' = req[r].snap
      BY <1>1, <2>3 DEF Step, Begin, SkipSource, Reserve, NotModified, Answered, Unreadable,
           Insert, Evict, SelectFails, Refuse, Select, Snapshot, Replace, SaveFails
    <3>3. LineInv'
      BY <2>1, <3>1, <3>2, RestingLineInv DEF OthersRest
    <3>4. [Contract!Next]_(Contract!cvars)
      BY <1>1, <2>3, InsertContract, EvictContract, SaveContract, QuietContract DEF Step
    <3> QED
      BY <3>3, <3>4
  <2> QED
    BY <2>2, <2>3
<1> QED
  BY <1>1, OutsideContract, RestartContract DEF Next

(* The coordinator and the collector implement FeedContract, for any number of
   feeds, requests and restarts, as long as no poll outlasts the interval:
   whatever races in poll(), readers see one line of announcements, delivered
   once each and under their numbers, which no save and no restart breaks
   (coordinator.py, collector.py, coordinator_state.py).                     *)
THEOREM PollingKeepsContract == MaxFetch < Interval => (Spec => KeepsFeedContract)
<1> SUFFICES ASSUME MaxFetch < Interval PROVE Spec => KeepsFeedContract
  OBVIOUS
<1>1. PollInv /\ HeldInv /\ OrderInv => Known
  BY DEF Known
<1> QED
  BY PollInvariant, InitHeldInv, StepHeldInv, InitOrderInv, StepOrderInv, InitLineInv,
     InitContract, StepContract, <1>1, PTL
  DEF Spec, KeepsFeedContract, Contract!Spec
=============================================================================
