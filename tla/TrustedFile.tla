---------------------------- MODULE TrustedFile -----------------------------
(***************************************************************************)
(* Replacing and removing a plist without ever destroying a file somebody  *)
(* else put in its place (src/scripts/local_runtime_support.py,            *)
(* atomic_write_trusted_file and quarantine_trusted_file).  Both use only  *)
(* renames that refuse to overwrite, move the file they expect to find     *)
(* aside as a tombstone, look at what they really moved, and try to put it *)
(* back on any error.  They read private files only: what is not a regular *)
(* file of this user, mode 0600, without ACLs, cannot be told from any     *)
(* other content, and that holds for a file they have moved already.       *)
(* Another program of the same user may write or delete the target between *)
(* any two system calls; every call may fail, before or after its effect.  *)
(***************************************************************************)
EXTENDS Naturals, FiniteSets

CONSTANTS Ours,         \* contents the runtime writes
          Foreign,      \* contents other programs write
          Exposed,      \* of these, the ones in files that are not private
          None,         \* no file
          MaxArtifacts, \* _MAX_TRUSTED_ARTIFACTS_PER_TARGET
          MaxCalls, MaxFaults, MaxForeign   \* bounds of the model

ASSUME TrustedFileAssumption ==
    /\ Ours \cap Foreign = {} /\ Exposed \subseteq Foreign
    /\ None \notin Ours \cup Foreign
    /\ {MaxArtifacts, MaxCalls, MaxFaults, MaxForeign} \subseteq Nat

Content == Ours \cup Foreign

VARIABLES
    target,     \* the file at the path
    tomb,       \* what the running call has moved aside
    stage,      \* the temporary file the running call wrote
    aside,      \* contents left behind as forensic artifacts by earlier calls
    artifacts,  \* how many artifacts the directory holds for this target
    pc, call,   \* the running call: [expected, new]; new = None for a removal
    result,     \* how the last call ended
    calls, faults, foreigners,  \* counted for the bounds
    live        \* observation: contents nobody but the runtime may dispose of

files == <<target, tomb, stage, aside, artifacts>>
vars == <<files, pc, call, result, calls, faults, foreigners, live>>

Init ==
    /\ target = None /\ tomb = None /\ stage = None
    /\ aside = {} /\ artifacts = 0
    /\ pc = "idle" /\ call = [expected |-> None, new |-> None]
    /\ result = "none"
    /\ calls = 0 /\ faults = 0 /\ foreigners = 0
    /\ live = {}

Fault == faults < MaxFaults /\ faults' = faults + 1
Smooth == faults' = faults
Bounds == UNCHANGED <<calls, foreigners>>

\* The call returns or raises; what it holds aside stays in the directory.
Done(how) ==
    /\ pc' = "idle" /\ result' = how
    /\ aside' = aside \cup ({tomb', stage'} \ {None})

\* A call begins: the target must have the expected content and the directory
\* must have room.
Admitted(expected) == target = expected /\ artifacts < MaxArtifacts

Begin(expected, new) ==
    /\ pc = "idle" /\ calls < MaxCalls
    /\ calls' = calls + 1
    /\ call' = [expected |-> expected, new |-> new]
    /\ tomb' = None
    /\ UNCHANGED <<target, live, foreigners>>

Refuse(expected) ==
    /\ ~Admitted(expected) /\ stage' = None /\ Done("refused")
    /\ UNCHANGED artifacts /\ Smooth

\* atomic_write_trusted_file fills its temporary file first.
Write(expected, new) ==
    /\ new # None /\ Begin(expected, new)
    /\ \/ Refuse(expected)
       \/ /\ Admitted(expected)
          /\ stage' = new /\ artifacts' = artifacts + 1
          /\ \/ /\ Smooth /\ result' = "running" /\ UNCHANGED aside
                /\ pc' = IF expected = None THEN "publish" ELSE "capture"
             \/ Fault /\ Done("failed")

\* quarantine_trusted_file
Remove(expected) ==
    /\ expected # None /\ Begin(expected, None)
    /\ \/ Refuse(expected)
       \/ /\ Admitted(expected)
          /\ pc' = "capture" /\ stage' = None
          /\ result' = "running" /\ Smooth
          /\ UNCHANGED <<aside, artifacts>>

\* rename_exclusive(target, tombstone); an error first tries to undo it.
Capture ==
    /\ pc = "capture"
    /\ \/ /\ target # None /\ Smooth
          /\ tomb' = target /\ target' = None /\ artifacts' = artifacts + 1
          /\ pc' = "verify"
       \/ /\ target = None /\ Smooth
          /\ pc' = "restoreFirst" /\ UNCHANGED <<target, tomb, artifacts>>
       \/ /\ Fault                                   \* before its effect
          /\ pc' = "restoreFirst" /\ UNCHANGED <<target, tomb, artifacts>>
       \/ /\ target # None /\ Fault                  \* after its effect
          /\ tomb' = target /\ target' = None /\ artifacts' = artifacts + 1
          /\ pc' = "restoreFirst"
    /\ UNCHANGED <<stage, aside, call, result, live>> /\ Bounds

\* Mutant: what was checked before the rename is taken for what was moved.
Verify_Trusting ==
    /\ pc = "verify"
    /\ \/ Smooth /\ pc' = IF call.new = None THEN "absent" ELSE "publish"
       \/ Fault /\ pc' = "restoreFirst"
    /\ UNCHANGED <<files, call, result, live>> /\ Bounds

(* What was moved is read again: it may not be what was checked, and it may be
   a file that is refused unread, of which nothing is known to put it back by. *)
Verify ==
    /\ pc = "verify"
    /\ \/ /\ Smooth
          /\ pc' = CASE tomb \in Exposed -> "restoreFirst"
                     [] tomb \notin Exposed \cup {call.expected} -> "return"
                     [] tomb = call.expected /\ call.new = None -> "absent"
                     [] tomb = call.expected /\ call.new # None -> "publish"
       \/ Fault /\ pc' = "restoreFirst"
    /\ UNCHANGED <<files, call, result, live>> /\ Bounds

\* rename_exclusive(temporary, target), fsync, and a last look at the target
Published == /\ target' = stage /\ stage' = None /\ artifacts' = artifacts - 1
             /\ live' = live \cup {stage}
Publish ==
    /\ pc = "publish" /\ tomb' = tomb
    /\ \/ /\ target = None /\ Smooth /\ Published
          /\ pc' = "confirm" /\ UNCHANGED <<aside, result>>
       \/ /\ target # None /\ Smooth
          /\ pc' = "restore" /\ UNCHANGED <<target, stage, aside, artifacts, result, live>>
       \/ /\ Fault
          /\ pc' = "restore" /\ UNCHANGED <<target, stage, aside, artifacts, result, live>>
       \/ /\ target = None /\ Fault /\ Published
          /\ pc' = "restore" /\ UNCHANGED <<aside, result>>
    /\ UNCHANGED call /\ Bounds

Confirm ==
    /\ pc = "confirm" /\ UNCHANGED <<target, tomb, stage>>
    /\ \/ Smooth /\ Done(IF target = call.new THEN "ok" ELSE "failed")
       \/ Fault /\ Done("failed")
    /\ UNCHANGED <<artifacts, call, live>> /\ Bounds

\* a removal must leave the path empty
Absent ==
    /\ pc = "absent" /\ UNCHANGED <<target, tomb, stage>>
    /\ \/ /\ target = None /\ Smooth /\ Done("ok")
       \/ /\ target # None /\ Smooth
          /\ pc' = "restore" /\ UNCHANGED <<aside, result>>
       \/ Fault /\ pc' = "restore" /\ UNCHANGED <<aside, result>>
    /\ UNCHANGED <<artifacts, call, live>> /\ Bounds

\* _restore_tombstone_exclusive: "restore" puts back only the expected
\* content, "return" what was moved by mistake and could be read; neither
\* overwrites.  An error while capturing is handled twice, by the capture and
\* by its caller.
PutBack ==
    /\ target' = tomb /\ tomb' = None /\ artifacts' = artifacts - 1

Eligible == tomb # None /\ (pc = "return" \/ tomb = call.expected)

\* Mutant: the tombstone goes back over whatever has taken its place.
Restorable_Overwriting == Eligible

\* Mutant: only a file moved by mistake is put back.
Restorable_OnlyMistakes == pc = "return" /\ target = None

Restorable == Eligible /\ target = None

Restore ==
    /\ pc \in {"restoreFirst", "restore", "return"} /\ stage' = stage
    /\ \/ Restorable /\ Smooth /\ PutBack
       \/ Restorable /\ Fault /\ PutBack                    \* error resolved
       \/ ~Restorable /\ Smooth /\ UNCHANGED <<target, tomb, artifacts>>
       \/ Fault /\ UNCHANGED <<target, tomb, artifacts>>
    /\ IF pc = "restoreFirst" THEN pc' = "restore" /\ UNCHANGED <<aside, result>>
       ELSE Done("failed")
    /\ UNCHANGED <<call, live>> /\ Bounds

\* The process is killed: its files stay where they are.
Kill ==
    /\ pc # "idle" /\ Fault
    /\ UNCHANGED <<target, tomb, stage>> /\ Done("killed")
    /\ UNCHANGED <<artifacts, call, live>> /\ Bounds

\* Another program replaces or deletes the target: what was there is gone by
\* that program's will.
Intrude(f) ==
    /\ foreigners < MaxForeign /\ foreigners' = foreigners + 1
    /\ f # target
    /\ target' = f
    /\ live' = (live \ ({target} \ (aside \cup {tomb, stage}))) \cup ({f} \ {None})
    /\ UNCHANGED <<tomb, stage, aside, artifacts, pc, call, result, calls, faults>>

Step == Capture \/ Verify \/ Publish \/ Confirm \/ Absent \/ Restore

Next == \/ \E expected \in Ours \cup {None} :
               Remove(expected) \/ \E new \in Ours : Write(expected, new)
        \/ Step
        \/ Kill
        \/ \E f \in Foreign \cup Ours \cup {None} : Intrude(f)

Spec == Init /\ [][Next]_vars

-----------------------------------------------------------------------------
\* No content is ever destroyed by the runtime: it is at the target, or aside.
NothingIsDestroyed == live \subseteq aside \cup {target, tomb, stage}

\* Whatever one call of the operating system does, without an intruder a call
\* that fails leaves the expected file or the new one, and never an empty path:
\* a removal that fails has removed nothing.
OneFaultIsUndone ==
    result = "failed" /\ faults <= 1 /\ foreigners = 0 =>
        target \in {call.expected, call.new} /\ (call.new = None => target = call.expected)

(* A call succeeds only if what it moved aside is what it was told to replace.
   A file that took its place after the check is moved all the same; the call
   then fails, with nothing of its own at the path, and the file goes back if it
   can be read and nothing else stands there.  One that cannot be read is
   never put back: it stays aside, and the path empty, though no call failed.  *)
OnlyTheExpectedIsReplaced ==
    [][pc # "idle" /\ pc' = "idle" =>
          /\ result' = "ok" => tomb' = call.expected
          /\ tomb' \notin {None, call.expected} =>
                /\ stage' = call.new
                /\ tomb' \in Exposed \/ target # None \/ faults' > 0]_vars
=============================================================================
