-------------------------- MODULE TrustedFileProofs --------------------------
(***************************************************************************)
(* Replacing and removing a trusted file destroys nothing, replaces only   *)
(* what it was told to, and one fault is undone: for any contents, and     *)
(* any number of calls, faults and intrusions.                             *)
(***************************************************************************)
EXTENDS TrustedFile, TLAPS

Phases == {"idle", "capture", "verify", "publish", "confirm", "absent",
           "restoreFirst", "restore", "return"}

Typed ==
    /\ pc \in Phases /\ faults \in Nat /\ foreigners \in Nat
    /\ call \in [expected : Ours \cup {None}, new : Ours \cup {None}]

\* What the running call holds, in each of its phases.
InHand ==
    /\ pc = "idle" => {tomb, stage} \ {None} \subseteq aside
    /\ pc = "capture" => tomb = None
    /\ pc \in {"capture", "verify", "publish"} => stage = call.new
    /\ pc \in {"publish", "confirm"} => call.new # None
    /\ pc = "absent" => call.new = None
    /\ pc # "idle" => result = "running"

\* The tombstone is the expected file, unless something is known to be wrong;
\* what the call wrote is not at the path while it holds another.
Expected ==
    /\ pc \in {"publish", "confirm", "absent"} => tomb = call.expected
    /\ pc \in {"restoreFirst", "restore"} =>
         tomb \in {None, call.expected} \cup Exposed \/ faults > 0
    /\ pc # "idle" /\ tomb \notin {None, call.expected} => stage = call.new

Kept == NothingIsDestroyed /\ None \notin live

Untouched == target = call.expected /\ tomb = None
MovedAside == target = None /\ tomb = call.expected

\* With no intruder and at most one fault, each phase knows what is where.
Undisturbed ==
    foreigners = 0 /\ faults <= 1 =>
        /\ pc = "capture" => Untouched /\ target # None
        /\ pc \in {"verify", "publish", "absent"} => MovedAside
        /\ pc = "confirm" => target = call.new
        /\ pc \in {"restoreFirst", "restore"} => faults = 1
        /\ pc = "restoreFirst" => Untouched \/ MovedAside
        /\ pc = "restore" =>
             Untouched \/ MovedAside \/ (call.new # None /\ target = call.new)
        /\ pc # "return"

FileInv == Typed /\ InHand /\ Expected /\ Kept /\ Undisturbed /\ OneFaultIsUndone

\* A replacement begins, is refused, or fails to fill its temporary file.
LEMMA WriteKeeps ==
    ASSUME FileInv, NEW expected \in Ours \cup {None}, NEW new \in Ours,
           Write(expected, new)
    PROVE  FileInv'
<1>1. Typed'
  BY DEF FileInv, Typed, Phases, Fault, Smooth, Done, Write, Begin, Refuse,
     Admitted, Content
<1>2. InHand'
  BY DEF InHand, Done, Write, Begin, Refuse, Admitted, Content
<1>3. Expected'
  BY DEF Expected, Done, Write, Begin, Refuse, Admitted, Content
<1>4. Kept'
  BY DEF FileInv, InHand, Kept, NothingIsDestroyed, Done, Write, Begin,
     Refuse, Admitted, Content
<1>5. Undisturbed'
  BY DEF Undisturbed, Untouched, MovedAside, Done, Write, Begin, Refuse,
     Admitted, Content
<1>6. OneFaultIsUndone'
  BY DEF OneFaultIsUndone, Done, Write, Begin, Refuse, Admitted, Content
<1> QED BY <1>1, <1>2, <1>3, <1>4, <1>5, <1>6 DEF FileInv

\* A removal begins or is refused.
LEMMA RemoveKeeps ==
    ASSUME FileInv, NEW expected \in Ours \cup {None}, Remove(expected)
    PROVE  FileInv'
<1>1. Typed'
  BY DEF FileInv, Typed, Phases, Smooth, Done, Remove, Begin, Refuse,
     Admitted, Content
<1>2. InHand'
  BY DEF InHand, Done, Remove, Begin, Refuse, Admitted, Content
<1>3. Expected'
  BY DEF Expected, Done, Remove, Begin, Refuse, Admitted, Content
<1>4. Kept'
  BY DEF FileInv, InHand, Kept, NothingIsDestroyed, Done, Remove, Begin,
     Refuse, Admitted, Content
<1>5. Undisturbed'
  BY DEF Undisturbed, Untouched, Done, Remove, Begin, Refuse, Admitted,
     Content
<1>6. OneFaultIsUndone'
  BY DEF OneFaultIsUndone, Done, Remove, Begin, Refuse, Admitted, Content
<1> QED BY <1>1, <1>2, <1>3, <1>4, <1>5, <1>6 DEF FileInv

\* The target is moved aside, and the path is empty.
LEMMA CaptureKeeps ==
    ASSUME FileInv, Capture
    PROVE  FileInv'
<1>1. Typed'
  BY DEF FileInv, Typed, Phases, Fault, Smooth, Bounds, Capture
<1>2. InHand'
  BY DEF FileInv, InHand, Capture
<1>3. Expected'
  BY DEF FileInv, Typed, InHand, Expected, Fault, Capture
<1>4. Kept'
  BY DEF FileInv, InHand, Kept, NothingIsDestroyed, Capture
<1>5. Undisturbed'
  BY DEF FileInv, Typed, Undisturbed, Untouched, MovedAside, Fault, Smooth,
     Bounds, Capture
<1>6. OneFaultIsUndone'
  BY DEF FileInv, InHand, OneFaultIsUndone, Capture
<1> QED BY <1>1, <1>2, <1>3, <1>4, <1>5, <1>6 DEF FileInv

\* What was moved is compared with what was expected.
LEMMA VerifyKeeps ==
    ASSUME FileInv, Verify
    PROVE  FileInv'
<1>1. Typed'
  BY DEF FileInv, Typed, Phases, Fault, Smooth, Bounds, Verify
<1>2. InHand'
  BY DEF FileInv, InHand, files, Verify
<1>3. Expected'
  BY DEF FileInv, Typed, Expected, files, Fault, Verify
<1>4. Kept'
  BY DEF FileInv, Kept, NothingIsDestroyed, files, Verify
<1>5. Undisturbed'
  BY DEF FileInv, Typed, Undisturbed, MovedAside, files, Fault, Smooth,
     Bounds, Verify
<1>6. OneFaultIsUndone'
  BY DEF FileInv, InHand, OneFaultIsUndone, Verify
<1> QED BY <1>1, <1>2, <1>3, <1>4, <1>5, <1>6 DEF FileInv

\* The new file takes the place, and nobody else's.
LEMMA PublishKeeps ==
    ASSUME FileInv, Publish
    PROVE  FileInv'
<1>1. Typed'
  BY DEF FileInv, Typed, Phases, Fault, Smooth, Bounds, Done, Publish,
     Published
<1>2. InHand'
  BY DEF FileInv, InHand, Done, Publish, Published
<1>3. Expected'
  BY DEF FileInv, Expected, Done, Publish, Published
<1>4. Kept'
  BY DEF FileInv, InHand, Kept, NothingIsDestroyed, Done, Publish, Published
<1>5. Undisturbed'
  BY DEF FileInv, Typed, InHand, Undisturbed, MovedAside, Fault, Smooth,
     Bounds, Done, Publish, Published
<1>6. OneFaultIsUndone'
  BY DEF FileInv, InHand, OneFaultIsUndone, Done, Publish, Published
<1> QED BY <1>1, <1>2, <1>3, <1>4, <1>5, <1>6 DEF FileInv

\* The last look at a replacement changes nothing.
LEMMA ConfirmKeeps ==
    ASSUME FileInv, Confirm
    PROVE  FileInv'
<1>1. Typed'
  BY DEF FileInv, Typed, Phases, Fault, Smooth, Bounds, Done, Confirm
<1>2. InHand'
  BY DEF InHand, Done, Confirm
<1>3. Expected'
  BY DEF Expected, Done, Confirm
<1>4. Kept'
  BY DEF FileInv, Kept, NothingIsDestroyed, Done, Confirm
<1>5. Undisturbed'
  BY DEF Undisturbed, Done, Confirm
<1>6. OneFaultIsUndone'
  BY DEF FileInv, Typed, InHand, Undisturbed, OneFaultIsUndone, Fault, Smooth,
     Bounds, Done, Confirm
<1> QED BY <1>1, <1>2, <1>3, <1>4, <1>5, <1>6 DEF FileInv

\* The last look at a removal finds the path empty or restores it.
LEMMA AbsentKeeps ==
    ASSUME FileInv, Absent
    PROVE  FileInv'
<1>1. Typed'
  BY DEF FileInv, Typed, Phases, Fault, Smooth, Bounds, Done, Absent
<1>2. InHand'
  BY DEF FileInv, InHand, Done, Absent
<1>3. Expected'
  BY DEF FileInv, Expected, Done, Absent
<1>4. Kept'
  BY DEF FileInv, Kept, NothingIsDestroyed, Done, Absent
<1>5. Undisturbed'
  BY DEF FileInv, Typed, Undisturbed, MovedAside, Fault, Smooth, Bounds, Done,
     Absent
<1>6. OneFaultIsUndone'
  BY DEF FileInv, InHand, OneFaultIsUndone, Done, Absent
<1> QED BY <1>1, <1>2, <1>3, <1>4, <1>5, <1>6 DEF FileInv

\* A tombstone goes back to an empty path only.
LEMMA RestoreKeeps ==
    ASSUME FileInv, Restore
    PROVE  FileInv'
<1>1. Typed'
  BY DEF FileInv, Typed, Phases, Fault, Smooth, Bounds, Done, Restore,
     Restorable, Eligible, PutBack
<1>2. InHand'
  BY DEF FileInv, InHand, Done, Restore, Restorable, Eligible, PutBack
<1>3. Expected'
  BY DEF FileInv, Typed, Expected, Fault, Smooth, Done, Restore, Restorable,
     Eligible, PutBack
<1>4. Kept'
  BY DEF FileInv, Kept, NothingIsDestroyed, Done, Restore, Restorable,
     Eligible, PutBack
<1>5. Undisturbed'
  BY DEF FileInv, Typed, Undisturbed, Untouched, MovedAside, Fault, Smooth,
     Bounds, Done, Restore, Restorable, Eligible, PutBack
<1>6. OneFaultIsUndone'
  BY DEF FileInv, Typed, Undisturbed, OneFaultIsUndone, Untouched, MovedAside,
     Fault, Smooth, Bounds, Done, Restore, Restorable, Eligible, PutBack
<1> QED BY <1>1, <1>2, <1>3, <1>4, <1>5, <1>6 DEF FileInv

\* A killed call leaves its files where they are.
LEMMA KillKeeps ==
    ASSUME FileInv, Kill
    PROVE  FileInv'
<1>1. Typed'
  BY DEF FileInv, Typed, Phases, Fault, Bounds, Done, Kill
<1>2. InHand'
  BY DEF InHand, Done, Kill
<1>3. Expected'
  BY DEF Expected, Done, Kill
<1>4. Kept'
  BY DEF FileInv, Kept, NothingIsDestroyed, Done, Kill
<1>5. Undisturbed'
  BY DEF Undisturbed, Done, Kill
<1>6. OneFaultIsUndone'
  BY DEF OneFaultIsUndone, Done, Kill
<1> QED BY <1>1, <1>2, <1>3, <1>4, <1>5, <1>6 DEF FileInv

\* An intruder disposes of what it replaces, and of nothing else.
LEMMA IntrudeKeeps ==
    ASSUME FileInv, NEW f \in Foreign \cup Ours \cup {None}, Intrude(f)
    PROVE  FileInv'
<1>1. Typed'
  BY DEF FileInv, Typed, Intrude
<1>2. InHand'
  BY DEF FileInv, InHand, Intrude
<1>3. Expected'
  BY DEF FileInv, Expected, Intrude
<1>4. Kept'
  BY DEF FileInv, Kept, NothingIsDestroyed, Intrude
<1>5. Undisturbed'
  BY DEF FileInv, Typed, Undisturbed, Intrude
<1>6. OneFaultIsUndone'
  BY DEF FileInv, Typed, OneFaultIsUndone, Intrude
<1> QED BY <1>1, <1>2, <1>3, <1>4, <1>5, <1>6 DEF FileInv

\* Any step, and any step outside of the module's variables.
LEMMA StepKeeps == FileInv /\ [Next]_vars => FileInv'
<1> SUFFICES ASSUME FileInv, [Next]_vars PROVE FileInv'
  OBVIOUS
<1>1. ASSUME NEW expected \in Ours \cup {None}, Remove(expected)
      PROVE  FileInv'
  BY <1>1, RemoveKeeps
<1>2. ASSUME NEW expected \in Ours \cup {None}, NEW new \in Ours,
             Write(expected, new)
      PROVE  FileInv'
  BY <1>2, WriteKeeps
<1>3. CASE Step
  BY <1>3, CaptureKeeps, VerifyKeeps, PublishKeeps, ConfirmKeeps, AbsentKeeps,
     RestoreKeeps DEF Step
<1>4. CASE Kill
  BY <1>4, KillKeeps
<1>5. ASSUME NEW f \in Foreign \cup Ours \cup {None}, Intrude(f)
      PROVE  FileInv'
  BY <1>5, IntrudeKeeps
<1>6. CASE UNCHANGED vars
  BY <1>6 DEF FileInv, Typed, InHand, Expected, Kept, Undisturbed,
     OneFaultIsUndone, Untouched, MovedAside, NothingIsDestroyed, vars, files
<1> QED BY <1>1, <1>2, <1>3, <1>4, <1>5, <1>6 DEF Next

\* FileInv holds in every state.
LEMMA FileInvariant == Spec => []FileInv
<1>1. Init => FileInv
  BY TrustedFileAssumption DEF Init, FileInv, Typed, InHand, Expected, Kept,
     Undisturbed, OneFaultIsUndone, NothingIsDestroyed, Phases
<1> QED BY <1>1, StepKeeps, PTL DEF Spec

\* Whatever programs do at the path and however often calls fail, the runtime
\* destroys no content: every file it moved or wrote is at the path or aside.
THEOREM NothingIsLost == Spec => []NothingIsDestroyed
<1>1. FileInv => NothingIsDestroyed
  BY DEF FileInv, Kept
<1> QED BY <1>1, FileInvariant, PTL

\* A call that fails by one fault, with no intruder, leaves the expected file
\* or the new one, and a removal that fails has removed nothing.
THEOREM FaultsAreUndone == Spec => []OneFaultIsUndone
<1>1. FileInv => OneFaultIsUndone
  BY DEF FileInv
<1> QED BY <1>1, FileInvariant, PTL

\* A call succeeds only if it moved aside what it was told to replace; one that
\* moved another file has put none of its own in place, and gives back what it
\* moved unless that is not private or a file stands in its place.
THEOREM ExpectedIsReplaced == Spec => OnlyTheExpectedIsReplaced
<1> DEFINE Replaced == pc # "idle" /\ pc' = "idle" =>
                 /\ result' = "ok" => tomb' = call.expected
                 /\ tomb' \notin {None, call.expected} =>
                      /\ stage' = call.new
                      /\ tomb' \in Exposed \/ target # None \/ faults' > 0
<1>1. FileInv /\ [Next]_vars => [Replaced]_vars
  <2> SUFFICES ASSUME FileInv, Next PROVE Replaced
    OBVIOUS
  <2>1. ASSUME NEW expected \in Ours \cup {None}
        PROVE  /\ Remove(expected) => Replaced
               /\ \A new \in Ours : Write(expected, new) => Replaced
    BY DEF Remove, Write, Begin
  <2>2. Capture \/ Verify \/ Publish => Replaced
    BY DEF Capture, Verify, Publish
  <2>3. Confirm \/ Absent => Replaced
    BY DEF Confirm, Absent, Done, FileInv, Expected
  <2>4. Restore => Replaced
    BY DEF Restore, Restorable, Eligible, PutBack, Done, Smooth, Fault,
       FileInv, Expected, Typed
  <2>5. Kill => Replaced
    BY DEF Kill, Done, Fault, FileInv, Typed, Expected
  <2>6. ASSUME NEW f \in Foreign \cup Ours \cup {None} PROVE Intrude(f) => Replaced
    BY DEF Intrude
  <2> QED BY <2>1, <2>2, <2>3, <2>4, <2>5, <2>6 DEF Next, Step
<1> QED BY <1>1, FileInvariant, PTL DEF Spec, OnlyTheExpectedIsReplaced
=============================================================================
