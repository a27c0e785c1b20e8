--------------------------- MODULE PairingContract ---------------------------
(***************************************************************************)
(* What the credential store promises, without clocks, rows or rate        *)
(* limits.  An operator offers a code; an offered code pairs at most one   *)
(* device and is gone in the same step; a device that was revoked stays    *)
(* revoked; and a token check is granted only at an instant, between its   *)
(* request and its answer, at which the device is paired and not revoked.  *)
(***************************************************************************)
CONSTANTS Codes, Devices, Checks, NoCode

VARIABLES
  offered,  \* codes that may still pair a device
  spent,    \* codes that may not be offered again
  paired,   \* the code each device was paired from, or NoCode
  revoked,  \* the devices that were revoked
  about,    \* the device each token check is about
  check     \* the progress of each token check

cvars == <<offered, spent, paired, revoked, about, check>>

Init ==
  /\ offered = {} /\ spent = {} /\ revoked = {}
  /\ paired = [d \in Devices |-> NoCode]
  /\ about \in [Checks -> Devices]
  /\ check = [v \in Checks |-> "none"]

\* Offering one code may drop others whose time is long over.
Offer(k, old) ==
  /\ k \notin offered \cup spent
  /\ offered' = (offered \ old) \cup {k}
  /\ spent' = spent \cup old
  /\ UNCHANGED <<paired, revoked, about, check>>

Pair(k, d) ==
  /\ k \in offered
  /\ paired[d] = NoCode
  /\ offered' = offered \ {k}
  /\ spent' = spent \cup {k}
  /\ paired' = [paired EXCEPT ![d] = k]
  /\ UNCHANGED <<revoked, about, check>>

Revoke(d) ==
  /\ paired[d] # NoCode
  /\ revoked' = revoked \cup {d}
  /\ UNCHANGED <<offered, spent, paired, about, check>>

Ask(v, d) ==
  /\ check[v] = "none"
  /\ about' = [about EXCEPT ![v] = d]
  /\ check' = [check EXCEPT ![v] = "asking"]
  /\ UNCHANGED <<offered, spent, paired, revoked>>

Grant(v) ==
  /\ check[v] = "asking"
  /\ paired[about[v]] # NoCode /\ about[v] \notin revoked
  /\ check' = [check EXCEPT ![v] = "granted"]
  /\ UNCHANGED <<offered, spent, paired, revoked, about>>

Refuse(v) ==
  /\ check[v] \in {"asking", "granted"}
  /\ check' = [check EXCEPT ![v] = "refused"]
  /\ UNCHANGED <<offered, spent, paired, revoked, about>>

Next ==
  \/ \E k \in Codes, old \in SUBSET offered : Offer(k, old)
  \/ \E k \in Codes, d \in Devices : Pair(k, d)
  \/ \E d \in Devices : Revoke(d)
  \/ \E v \in Checks, d \in Devices : Ask(v, d)
  \/ \E v \in Checks : Grant(v) \/ Refuse(v)

Spec == Init /\ [][Next]_cvars
=============================================================================
