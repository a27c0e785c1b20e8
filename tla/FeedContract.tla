----------------------------- MODULE FeedContract -----------------------------
(***************************************************************************)
(* What the coordinator and the collector promise of each feed, without    *)
(* requests, responses, intervals or clocks.  The contents a publisher     *)
(* puts up are announced in its order, each at most once as long as a      *)
(* record of it lasts, and are numbered one after another; what was        *)
(* announced last is what may be delivered to readers, once and under its  *)
(* number.  The record that outlives a process is one the process has been *)
(* at, so the next one goes on from there, and delivers from nothing.      *)
(***************************************************************************)
EXTENDS Integers

CONSTANTS Feeds, Contents   \* contents are numbered as they are put up, from 1

VARIABLES
  served,     \* the content each publisher serves
  announced,  \* what was announced last of each feed: a content and its number
  recorded,   \* what the saved record says was announced last
  held        \* the announcements of each feed readers are given

cvars == <<served, announced, recorded, held>>

Nothing == [hash |-> 0, rev |-> 0]

Init ==
  /\ served = [f \in Feeds |-> 0]
  /\ announced = [f \in Feeds |-> Nothing]
  /\ recorded = [f \in Feeds |-> Nothing]
  /\ held = [f \in Feeds |-> {}]

Publish(f) ==
  /\ served[f] + 1 \in Contents
  /\ served' = [served EXCEPT ![f] = @ + 1]
  /\ UNCHANGED <<announced, recorded, held>>

Follows(a) == IF a = Nothing THEN 0 ELSE a.rev + 1

\* Contents that were replaced before anybody asked are never announced.
Announce(f, v) ==
  /\ announced[f].hash < v /\ v <= served[f]
  /\ announced' = [announced EXCEPT ![f] = [hash |-> v, rev |-> Follows(announced[f])]]
  /\ UNCHANGED <<served, recorded, held>>

Deliver(f) ==
  /\ announced[f] # Nothing /\ announced[f] \notin held[f]
  /\ held' = [held EXCEPT ![f] = @ \cup {announced[f]}]
  /\ UNCHANGED <<served, announced, recorded>>

Forget ==
  /\ \A f \in Feeds : held'[f] \subseteq held[f]
  /\ held' = [f \in Feeds |-> held'[f]]
  /\ UNCHANGED <<served, announced, recorded>>

\* a was announced before b, or is b.
NotAfter(a, b) == a = b \/ (a.hash < b.hash /\ (a = Nothing \/ a.rev < b.rev))

\* Saves may land in any order, but each is of a time that was.
Save ==
  /\ \A f \in Feeds : NotAfter(recorded'[f], announced[f])
  /\ recorded' = [f \in Feeds |-> recorded'[f]]
  /\ UNCHANGED <<served, announced, held>>

\* Processes end without saving, or save as they end.
Restart ==
  /\ \/ announced' = recorded /\ recorded' = recorded
     \/ announced' = announced /\ recorded' = announced
  /\ held' = [f \in Feeds |-> {}]
  /\ UNCHANGED served

Next ==
  \/ \E f \in Feeds : Publish(f) \/ Deliver(f)
  \/ \E f \in Feeds, v \in Contents : Announce(f, v)
  \/ Forget \/ Save \/ Restart

Spec == Init /\ [][Next]_cvars
=============================================================================
