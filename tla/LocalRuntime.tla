---------------------------- MODULE LocalRuntime ----------------------------
(***************************************************************************)
(* The lifecycle commands of the durable local runtime                     *)
(* (src/scripts/local_runtime.py): install, reinstall and uninstall of the *)
(* launchd jobs of Count components, each with a plist on disk, and the    *)
(* ownership manifest that is written before and after the files and jobs  *)
(* it speaks of.  One command runs at a time (an exclusive lock); a command*)
(* is a sequence of steps, any of which may fail before or after its       *)
(* effect, and the process may be killed, or the machine restarted,        *)
(* between any two.  Another program of the same user may take a port or   *)
(* put a file of its own at a plist's path.                                *)
(***************************************************************************)
EXTENDS Naturals

CONSTANTS Count,          \* the number of components (4 in the code)
          Versions,       \* what render_plist may yield, now and after an upgrade
          None,           \* no file, no job
          Alien,          \* a plist this program did not write, or a job run from it
          MaxCommands, MaxFaults    \* bounds of the model

ASSUME RuntimeAssumption ==
    /\ Count \in Nat \ {0}
    /\ MaxCommands \in Nat /\ MaxFaults \in Nat
    /\ None # Alien /\ None \notin Versions /\ Alien \notin Versions

Comp == 1 .. Count
\* Mutant: only an interrupted install is recovered.
Interrupted_InstallOnly == {"installing"}

Interrupted == {"installing", "uninstalling"}

Settled == {"absent", "installed", "uninstalled"}

VARIABLES
    plist,      \* plist[c]: the file at the component's path
    held,       \* the file moved aside while a plist is being replaced or removed
    staged,     \* staged[c]: the rendered plist in the staging directory
    manifest,   \* the ownership manifest on disk
    job,        \* job[c]: what launchd runs under the component's label
    taken,      \* taken[c]: a foreign process listens on the component's port
    pc, at,     \* the phase of the running command and the component it is at
    run,        \* the command's own variables
    seen,       \* what the running step has found at its path and now acts upon
    outcome,    \* how the last command ended
    commands, faults,   \* counted for the bounds
    met,        \* observation: the command has moved or started a foreign file
    owed,       \* observation: the running command has no excuse to fail
    overtaken,  \* observation: an undo began after its commit was on disk
    rebooted    \* observation: launchd has loaded every plist by itself

world == <<plist, held, staged, manifest, job, taken>>
ghosts == <<overtaken, rebooted>>
vars == <<world, pc, at, run, seen, outcome, commands, faults, met, owed, ghosts>>

All(p) == [c \in Comp |-> p]

\* Mutant: an intent does not record what it replaces.
Manifest_NoPrevious(state, sha, prev) ==
    [state |-> state, sha |-> sha, prev |-> All(None)]

Manifest(state, sha, prev) == [state |-> state, sha |-> sha, prev |-> prev]

NoManifest == Manifest("absent", All(None), All(None))

Fresh(kind, v) ==
    [kind |-> kind, ver |-> v, old |-> NoManifest, loaded |-> {}, halted |-> {},
     touched |-> 0, tried |-> 0, failed |-> FALSE]

Init ==
    /\ plist = All(None) /\ held = None /\ staged = All(None)
    /\ manifest = NoManifest
    /\ job = All(None) /\ taken = All(FALSE)
    /\ pc = "idle" /\ at = 1
    /\ run \in {Fresh("install", v) : v \in Versions}
    /\ seen = None /\ met = FALSE
    /\ outcome = "none"
    /\ commands = 0 /\ faults = 0
    /\ owed = FALSE /\ overtaken = FALSE /\ rebooted = FALSE

-----------------------------------------------------------------------------
(* Moving between and within phases                                        *)

Backward == {"rHalt", "halt", "bHalt", "bPlace"}   \* reversed(COMPONENTS)

Enter(phase) == /\ pc' = phase
                /\ at' = IF phase \in Backward THEN Count ELSE 1

Last == at = IF pc \in Backward THEN 1 ELSE Count

Advance(phase) ==       \* on to the next component, after the last to phase
    IF Last THEN Enter(phase)
    ELSE /\ pc' = pc
         /\ at' = IF pc \in Backward THEN at - 1 ELSE at + 1

Running == outcome' = outcome
Finish(how) == /\ pc' = "idle" /\ at' = 1 /\ outcome' = how

\* The luck of a step: "ok", an error before its effect ("early"), an error
\* after it ("late"), and two special cases ("port", "lost") named where used.
Luck(r) == /\ r # "ok" => faults < MaxFaults
           /\ faults' = IF r = "ok" THEN faults ELSE faults + 1
           /\ owed' = (owed /\ r = "ok")

Beyond == UNCHANGED <<commands, ghosts>>
Rest == Beyond /\ UNCHANGED <<seen, met>>

\* _write_manifest_intent: the manifest changes whole or not at all, and an
\* error after the rename is one after the effect.
Replaced(r, m) == IF r = "early" THEN manifest ELSE m

-----------------------------------------------------------------------------
(* What the commands look at                                               *)

\* launchctl print finds the label
Registered(c) == job[c] # None
Loaded == {c \in Comp : Registered(c)}

\* who lsof finds on the component's port
Listeners(c) == (IF taken[c] THEN {Alien} ELSE {}) \cup ({job[c]} \ {None})

\* classify_listener_ownership: nobody else listens, and what runs is ours.
Owned(c) == Alien \notin Listeners(c)

\* _recovery_observations: no foreign listener, every loaded label is ours and
\* still has a plist.
Observed == \A c \in Comp : Owned(c) /\ (Registered(c) => plist[c] # None)

\* _validate_recovery_reachability
Reachable ==
    Loaded # {} => \/ plist = manifest.sha
                   \/ manifest.state = "installing" /\ plist = manifest.prev

\* the file checks at the start of _recover_interrupted_state
Resumable ==
    \A c \in Comp :
        IF manifest.state = "installing"
        THEN /\ staged[c] # None /\ staged[c] = manifest.sha[c]
             /\ plist[c] \in {None, manifest.prev[c], manifest.sha[c]}
        ELSE plist[c] \in {None, manifest.sha[c]}

\* _inspect_targets: a loaded label needs a manifest that says installed.
Inspected(m) ==
    \A c \in Comp : Owned(c) /\ (Registered(c) => m.state = "installed")

\* _installed_commit_snapshot, _uninstalled_commit_snapshot, _restored_runtime_snapshot
AllRun(p) == plist = p /\ \A c \in Comp : Owned(c) /\ Registered(c)
AllGone == plist = All(None) /\ \A c \in Comp : Listeners(c) = {}

\* Mutant: the old files are back, so the old state must be.
Restored_FilesOnly == plist = run.old.sha

Restored ==
    /\ plist = run.old.sha
    /\ \A c \in Comp : Owned(c) /\ (Registered(c) <=> c \in run.loaded)

-----------------------------------------------------------------------------
(* A command starts, plans and announces itself                            *)

\* status, which takes no lock and may be asked in the middle of a command
Status(c) ==
    CASE ~Owned(c) -> "unknown_listener"
      [] Owned(c) /\ ~Registered(c) -> "stopped"
      [] Owned(c) /\ Registered(c) ->
           IF manifest.state = "installed" /\ plist[c] = manifest.sha[c]
           THEN "running" ELSE "unverified_runtime"

Untouched == taken = All(FALSE) /\ \A c \in Comp : plist[c] # Alien /\ job[c] # Alien

\* Observation only: the states from which the command is expected to succeed.
Owes(kind) ==
    /\ Untouched /\ ~overtaken
    /\ rebooted => Reachable \/ manifest.state \notin Interrupted
    /\ manifest.state # "rollback_required"
    /\ ~(kind = "install" /\ manifest.state = "installed" /\ Loaded # {})

Start(kind, v) ==
    /\ pc = "idle" /\ commands < MaxCommands
    /\ commands' = commands + 1
    /\ run' = Fresh(kind, v)
    /\ owed' = Owes(kind) /\ met' = FALSE
    /\ outcome' = "running"
    /\ Enter(IF manifest.state \in Interrupted THEN "recheck" ELSE "plan")
    /\ UNCHANGED <<world, seen, faults, ghosts>>

\* _read_existing and the first _inspect_targets
Plan(r) ==
    /\ pc = "plan" /\ r \in {"ok", "early"} /\ Luck(r)
    /\ LET idle == /\ run.kind = "uninstall" /\ Loaded = {}
                   /\ plist = All(None) /\ manifest.state \in {"absent", "uninstalled"}
       IN CASE \/ r # "ok" \/ plist # manifest.sha \/ ~Inspected(manifest)
               \/ run.kind = "install" /\ Loaded # {}
                 -> Finish("failed") /\ UNCHANGED run
            [] OTHER ->
                 /\ run' = [run EXCEPT !.old = manifest, !.loaded = Loaded]
                 /\ IF idle THEN Finish("ok")
                    ELSE /\ Running
                         /\ Enter(IF run.kind = "uninstall" THEN "intent" ELSE "stage")
    /\ UNCHANGED world /\ Rest

\* the staging files of _install, written one by one outside of the try block
Stage(k) ==
    /\ pc = "stage" /\ k \in 0 .. Count
    /\ Luck(IF k = Count THEN "ok" ELSE "early")
    /\ staged' = [c \in Comp |-> IF c <= k THEN run.ver ELSE staged[c]]
    /\ IF k = Count THEN Enter("intent") /\ Running ELSE Finish("failed")
    /\ UNCHANGED <<plist, held, manifest, job, taken, run>> /\ Rest

\* The second inspection of an install, then the manifest that names the
\* transaction (uninstall inspected its targets in Plan).
Intent(r) ==
    /\ pc = "intent" /\ r \in {"ok", "early", "late"}
    /\ IF run.kind = "uninstall"
       THEN /\ Luck(r) /\ Running
            /\ manifest' = Replaced(r, Manifest("uninstalling", run.old.sha, All(None)))
            /\ Enter(IF r = "ok" THEN "halt" ELSE "resume")
            /\ UNCHANGED run
       ELSE IF ~Inspected(run.old) \/ (run.kind = "install" /\ Loaded # {})
       THEN Luck("ok") /\ Finish("failed") /\ UNCHANGED <<manifest, run>>
       ELSE /\ Luck(r) /\ Running
            /\ run' = [run EXCEPT !.loaded = Loaded]
            /\ manifest' = Replaced(r, Manifest("installing", All(run.ver), run.old.sha))
            /\ Enter(IF r = "ok" THEN "halt" ELSE "look")
    /\ UNCHANGED <<plist, held, staged, job, taken>> /\ Rest

-----------------------------------------------------------------------------
(* Steps shared by a command, its undo and the recovery of an interrupted  *)
(* one; the phase says whose step it is.                                   *)

\* bootout and wait_until_port_clear, in reverse order.  "late": the label is
\* gone but the error came before it was noted; "port": after it was noted.
Unloaded(c) == job' = [job EXCEPT ![c] = None]

Halt(r) ==
    /\ pc = "halt" /\ r \in {"ok", "early", "late", "port"}
    /\ LET undo == IF run.kind = "uninstall" THEN "resume" ELSE "look"
       IN IF at \notin run.loaded
          THEN /\ r = "ok" /\ Luck(r)
               /\ Advance(IF run.kind = "uninstall" THEN "clear" ELSE "place")
               /\ UNCHANGED <<job, run>>
          ELSE IF ~Inspected(run.old) \/ ~Registered(at)
          THEN r = "ok" /\ Luck(r) /\ Enter(undo) /\ UNCHANGED <<job, run>>
          ELSE /\ Luck(r)
               /\ IF r = "early" THEN UNCHANGED job ELSE Unloaded(at)
               /\ run' = IF r \in {"ok", "port"}
                         THEN [run EXCEPT !.halted = @ \cup {at}] ELSE run
               /\ IF r = "ok"
                  THEN Advance(IF run.kind = "uninstall" THEN "clear" ELSE "place")
                  ELSE Enter(undo)
    /\ Running
    /\ UNCHANGED <<plist, held, staged, manifest, taken>> /\ Rest

\* What each phase that moves a plist puts there, and what it must find.
Placing == {"rPlace", "place", "bPlace", "putBack"}
Moving == Placing \cup {"rClear", "clear"}
Wanted == CASE pc = "rPlace" -> staged[at]
            [] pc = "place" -> run.ver
            [] pc \in {"rClear", "clear"} -> None
            [] OTHER -> run.old.sha[at]
Basis == CASE pc = "rPlace" ->
                  IF plist[at] \in {manifest.prev[at], manifest.sha[at]} THEN plist[at] ELSE None
           [] pc \in {"place", "clear"} -> run.old.sha[at]
           [] pc = "bPlace" -> run.ver
           [] pc = "rClear" -> manifest.sha[at]
           [] pc = "putBack" -> None
Skipped == pc = "bPlace" /\ at > run.touched

\* Mutant: whatever lies at the path is moved aside.
Displaceable_Anything ==
    /\ pc \in Moving /\ held = None /\ ~Skipped
    /\ plist[at] # None
    /\ pc \in {"rPlace", "bPlace"} => plist[at] # Wanted

Displaceable == /\ pc \in Moving /\ held = None /\ ~Skipped
                /\ plist[at] # None /\ plist[at] = Basis
                /\ pc \in {"rPlace", "bPlace"} => plist[at] # Wanted

\* The check of the path and the rename that follows it are two calls, and
\* whatever lies there by then is moved aside.
Match ==
    /\ Displaceable /\ seen = None
    /\ seen' = plist[at]
    /\ UNCHANGED <<world, pc, at, run, outcome, faults, owed, met>> /\ Beyond

Displace ==
    /\ pc \in Moving /\ seen # None /\ held = None
    /\ held' = plist[at]
    /\ plist' = [plist EXCEPT ![at] = None]
    /\ met' = (met \/ plist[at] = Alien)
    /\ UNCHANGED <<staged, manifest, job, taken, pc, at, run, seen, outcome, faults, owed>>
    /\ Beyond

Placed == /\ CASE pc = "rPlace" -> Advance("rBoot") /\ UNCHANGED run
               [] pc = "place" -> Advance("boot") /\ run' = [run EXCEPT !.touched = at]
               [] pc = "bPlace" -> Advance("bBoot") /\ UNCHANGED run
               [] pc = "putBack" -> Advance("resume") /\ UNCHANGED run
          /\ Running

NotPlaced == CASE pc \in {"rPlace", "rClear"} -> Finish("failed") /\ UNCHANGED run
               [] pc = "place" -> /\ Enter("look") /\ Running
                                  /\ run' = [run EXCEPT !.touched = at]
               [] pc = "clear" -> Enter("putBack") /\ Running /\ UNCHANGED run
               [] OTHER -> /\ Advance(IF pc = "bPlace" THEN "bBoot" ELSE "resume")
                           /\ run' = [run EXCEPT !.failed = TRUE] /\ Running

\* The re-read of what was moved finds a foreign file.  It is put back if it is
\* a private one and the path is still free, and stays aside otherwise; the
\* step fails (but _remove_exact_intent, of a rollback, only asks for absence).
GiveBack(private) ==
    /\ held # None /\ held # seen
    /\ plist' = IF private /\ plist[at] = None THEN [plist EXCEPT ![at] = held] ELSE plist
    /\ IF pc = "bPlace" /\ Wanted = None /\ plist'[at] = None THEN Placed ELSE NotPlaced
    /\ held' = None /\ seen' = None
    /\ UNCHANGED <<staged, manifest, job, taken, faults, owed, met>> /\ Beyond

\* _install_plist_intent and _remove_exact_intent: a file that is already as
\* wanted is accepted, a third value is never overwritten.  On an error the
\* displaced file is put back ("early") unless that fails too ("lost").
Publish(r) ==
    /\ pc \in Placing /\ ~Displaceable /\ held = seen
    /\ r \in {"ok", "early", "late", "lost"}
    /\ LET free == plist[at] = None /\ (held # None \/ Basis = None)
           absent == r = "lost" /\ Wanted = None
           put(p) == plist' = [plist EXCEPT ![at] = p]
       IN CASE Skipped \/ (held = None /\ plist[at] = Wanted) ->
                 r = "ok" /\ Luck(r) /\ Placed /\ UNCHANGED plist
            [] OTHER ->
                 IF free
                 THEN /\ Luck(r)
                      /\ CASE r \in {"ok", "late"} -> put(Wanted)
                           [] r = "early" -> put(held)
                           [] r = "lost" -> held # None /\ UNCHANGED plist
                      /\ IF r = "ok" \/ absent THEN Placed ELSE NotPlaced
                 ELSE r = "ok" /\ Luck(r) /\ NotPlaced /\ UNCHANGED plist
    /\ held' = None /\ seen' = None
    /\ UNCHANGED <<staged, manifest, job, taken, met>> /\ Beyond

\* remove_exact_file of an uninstall and of the recovery of one
Clear(r) ==
    /\ pc \in {"rClear", "clear"} /\ ~Displaceable /\ held = seen
    /\ r \in {"ok", "early", "late"}
    /\ LET skip == held = None /\ (plist[at] = None \/ (pc = "clear" /\ Basis = None))
           gone == held # None /\ plist[at] = None
       IN /\ ~gone => r = "ok"
          /\ Luck(r)
          /\ plist' = IF gone /\ r = "early" THEN [plist EXCEPT ![at] = held] ELSE plist
          /\ IF skip \/ (gone /\ r = "ok")
             THEN /\ Advance(IF pc = "clear" THEN "commit" ELSE "rCommit")
                  /\ Running /\ UNCHANGED run
             ELSE NotPlaced
    /\ held' = None /\ seen' = None
    /\ UNCHANGED <<staged, manifest, job, taken, met>> /\ Beyond

\* _prepare_exact_bootstrap looks, bootstrap starts what lies there by then, and
\* wait_for_owned accepts only the component's own job on a port of its own.
\* "late": the label is loaded but its process never owned the port in time.
Booting == {"rBoot", "boot", "bBoot", "reBoot"}
ToBoot == CASE pc = "rBoot" -> staged[at]
            [] pc = "boot" -> run.ver
            [] OTHER -> run.old.sha[at]
Ready == ToBoot # None /\ plist[at] = ToBoot /\ Listeners(at) = {}
Spared == pc \in {"bBoot", "reBoot"} /\ (run.failed \/ at \notin run.halted)

Prepare ==
    /\ pc \in Booting /\ seen = None /\ ~Spared /\ Ready
    /\ seen' = ToBoot
    /\ UNCHANGED <<world, pc, at, run, outcome, faults, owed, met>> /\ Beyond

Boot(r) ==
    /\ pc \in Booting /\ r \in {"ok", "early", "late"}
    /\ seen = None => r = "ok" /\ (Spared \/ ~Ready)
    /\ Luck(r)
    /\ LET begun == seen # None /\ r # "early"
           up == begun /\ r = "ok" /\ plist[at] = seen /\ ~taken[at]
       IN /\ job' = IF begun THEN [job EXCEPT ![at] = plist[at]] ELSE job
          /\ met' = (met \/ (begun /\ plist[at] = Alien))
          /\ IF Spared \/ up
             THEN /\ Advance(CASE pc = "rBoot" -> "rCommit" [] pc = "boot" -> "commit"
                               [] pc = "bBoot" -> "bSettle" [] pc = "reBoot" -> "uSettle")
                  /\ run' = IF pc = "boot" THEN [run EXCEPT !.tried = at] ELSE run
                  /\ Running
             ELSE CASE pc = "rBoot" -> Finish("failed") /\ UNCHANGED run
                    [] pc = "boot" -> /\ Enter("look") /\ Running
                                      /\ run' = [run EXCEPT !.tried = at]
                    [] OTHER -> /\ Enter(IF pc = "bBoot" THEN "giveUp" ELSE "uSettle")
                                /\ run' = [run EXCEPT !.failed = TRUE] /\ Running
    /\ seen' = None
    /\ UNCHANGED <<plist, held, staged, manifest, taken>> /\ Beyond

\* The snapshot of all components just before the manifest says so.
Commit(r) ==
    /\ pc \in {"rCommit", "commit"} /\ r \in {"ok", "early", "late"}
    /\ LET installs == IF pc = "commit" THEN run.kind # "uninstall"
                       ELSE manifest.state = "installing"
           now == IF pc = "commit" THEN All(run.ver) ELSE staged
           good == IF installs THEN AllRun(now) ELSE AllGone
           resolved == IF installs THEN run.kind = "install" ELSE run.kind = "uninstall"
       IN /\ ~good => r = "ok"
          /\ Luck(r)
          /\ manifest' = IF ~good THEN manifest
                         ELSE IF installs THEN Replaced(r, Manifest("installed", now, All(None)))
                         ELSE Replaced(r, Manifest("uninstalled", All(None), All(None)))
          /\ overtaken' = (overtaken \/ (pc = "commit" /\ r = "late"))
          /\ IF good /\ r = "ok"
             THEN IF pc = "commit" \/ resolved THEN Finish("ok")
                  ELSE Enter("plan") /\ Running
             ELSE IF pc = "rCommit" THEN Finish("failed")
             ELSE Enter(IF installs THEN "look" ELSE "putBack") /\ Running
    /\ UNCHANGED <<plist, held, staged, job, taken, run, seen, met, commands, rebooted>>

-----------------------------------------------------------------------------
(* _recover_interrupted_state: an interrupted install is rolled forward    *)
(* from its staged plists, an interrupted uninstall is finished.           *)

Recheck(r) ==
    /\ pc = "recheck" /\ r \in {"ok", "early"} /\ Luck(r)
    /\ IF r = "ok" /\ Resumable /\ Observed /\ Reachable
       THEN Enter("rHalt") /\ Running
       ELSE Finish("failed")
    /\ UNCHANGED <<world, run>> /\ Rest

RHalt(r) ==
    /\ pc = "rHalt" /\ r \in {"ok", "early", "late"}
    /\ LET fine == Observed /\ Reachable
       IN /\ ~fine => r = "ok"
          /\ Luck(r)
          /\ IF fine /\ r # "early" THEN Unloaded(at) ELSE UNCHANGED job
          /\ IF fine /\ r = "ok"
             THEN /\ Advance(IF manifest.state = "installing" THEN "rPlace" ELSE "rClear")
                  /\ Running
             ELSE Finish("failed")
    /\ UNCHANGED <<plist, held, staged, manifest, taken, run>> /\ Rest

-----------------------------------------------------------------------------
(* _rollback_install                                                       *)

Tried == 1 .. run.tried

\* The read-only look at everything before the first label is touched.
Look(r) ==
    /\ pc = "look" /\ r \in {"ok", "early"} /\ Luck(r)
    /\ Enter(IF /\ r = "ok"
                /\ \A c \in Comp : Owned(c)
                /\ \A c \in Tried \cap Loaded : plist[c] = run.ver
             THEN "bHalt" ELSE "giveUp")
    /\ Running /\ UNCHANGED <<world, run>> /\ Rest

BHalt(r) ==
    /\ pc = "bHalt" /\ r \in {"ok", "early", "late"}
    /\ LET skip == at \notin Tried \cap Loaded
           fine == plist[at] = run.ver /\ Owned(at)
       IN /\ (skip \/ ~fine) => r = "ok"
          /\ Luck(r)
          /\ IF ~skip /\ fine /\ r # "early" THEN Unloaded(at) ELSE UNCHANGED job
          /\ IF skip \/ (fine /\ r = "ok") THEN Advance("bPlace") ELSE Enter("giveUp")
    /\ Running
    /\ UNCHANGED <<plist, held, staged, manifest, taken, run>> /\ Rest

\* The old manifest returns only when everything it speaks of has.
BSettle(r) ==
    /\ pc = "bSettle" /\ r \in {"ok", "early", "late"}
    /\ LET good == ~run.failed /\ Restored
       IN /\ ~good => r = "ok"
          /\ Luck(r)
          /\ manifest' = IF good THEN Replaced(r, run.old) ELSE manifest
          /\ overtaken' = (overtaken /\ manifest' = manifest)
          /\ IF good /\ r = "ok" THEN Finish("failed") ELSE Enter("giveUp") /\ Running
    /\ UNCHANGED <<plist, held, staged, job, taken, run, seen, met, commands, rebooted>>

\* Mutant: the old manifest is put back whatever became of the files.
GiveUp_OldManifest(r) ==
    /\ pc = "giveUp" /\ r \in {"ok", "early"} /\ Luck(r)
    /\ manifest' = Replaced(r, run.old)
    /\ overtaken' = (overtaken /\ r = "early")
    /\ Finish("failed")
    /\ UNCHANGED <<plist, held, staged, job, taken, run, seen, met, commands, rebooted>>

GiveUp(r) ==
    /\ pc = "giveUp" /\ r \in {"ok", "early"} /\ Luck(r)
    /\ manifest' = Replaced(r, Manifest("rollback_required", All(run.ver), run.old.sha))
    /\ overtaken' = (overtaken /\ r = "early")
    /\ Finish("failed")
    /\ UNCHANGED <<plist, held, staged, job, taken, run, seen, met, commands, rebooted>>

-----------------------------------------------------------------------------
(* The two handlers of uninstall end alike: every original plist must be   *)
(* back before a label is started again.                                   *)

Resume(r) ==
    /\ pc = "resume" /\ r \in {"ok", "early"} /\ Luck(r)
    /\ run' = [run EXCEPT !.failed = @ \/ r = "early" \/ plist # run.old.sha]
    /\ Enter("reBoot") /\ Running
    /\ UNCHANGED world /\ Rest

USettle(r) ==
    /\ pc = "uSettle" /\ r \in {"ok", "early"} /\ Luck(r)
    /\ manifest' = Replaced(r, IF ~run.failed /\ Restored THEN run.old
                               ELSE Manifest("rollback_required", run.old.sha, All(None)))
    /\ overtaken' = (overtaken /\ r = "early")
    /\ Finish("failed")
    /\ UNCHANGED <<plist, held, staged, job, taken, run, seen, met, commands, rebooted>>

-----------------------------------------------------------------------------
(* What the commands do not control                                        *)

Mishap == faults < MaxFaults /\ faults' = faults + 1 /\ owed' = FALSE

\* killed, or a first signal that reaches a handler that only catches errors
Kill ==
    /\ pc # "idle" /\ Mishap
    /\ Finish("killed") /\ held' = None /\ seen' = None
    /\ UNCHANGED <<plist, staged, manifest, job, taken, run, met>> /\ Beyond

\* RunAtLoad and KeepAlive: launchd loads whatever plists it finds.
Reboot ==
    /\ Mishap
    /\ job' = plist /\ taken' = All(FALSE) /\ held' = None /\ seen' = None
    /\ IF pc = "idle" THEN UNCHANGED <<pc, at, outcome>> ELSE Finish("killed")
    /\ rebooted' = TRUE
    /\ UNCHANGED <<plist, staged, manifest, run, met, commands, overtaken>>

Squat(c) ==
    /\ ~taken[c] /\ Mishap
    /\ taken' = [taken EXCEPT ![c] = TRUE]
    /\ UNCHANGED <<plist, held, staged, manifest, job, pc, at, run, outcome>> /\ Rest

Leave(c) ==
    /\ taken[c]
    /\ taken' = [taken EXCEPT ![c] = FALSE]
    /\ UNCHANGED <<plist, held, staged, manifest, job, pc, at, run, outcome,
                   faults, owed>> /\ Rest

Meddle(c) ==
    /\ plist[c] # Alien /\ Mishap
    /\ plist' = [plist EXCEPT ![c] = Alien]
    /\ UNCHANGED <<held, staged, manifest, job, taken, pc, at, run, outcome>> /\ Rest

\* the operator's own launchctl bootout, between commands
OperatorBootout(c) ==
    /\ pc = "idle" /\ job[c] # None
    /\ Unloaded(c)
    /\ UNCHANGED <<plist, held, staged, manifest, taken, pc, at, run, outcome,
                   faults, owed>> /\ Rest

-----------------------------------------------------------------------------
Outcomes == {"ok", "early", "late", "port", "lost"}

Step == \/ \E r \in Outcomes :
             \/ Plan(r) \/ Intent(r) \/ Halt(r) \/ Publish(r) \/ Boot(r) \/ Clear(r)
             \/ Commit(r) \/ Recheck(r) \/ RHalt(r) \/ Look(r) \/ BHalt(r)
             \/ BSettle(r) \/ GiveUp(r) \/ Resume(r) \/ USettle(r)
        \/ \E k \in 0 .. Count : Stage(k)
        \/ Match \/ Displace \/ Prepare
        \/ \E private \in BOOLEAN : GiveBack(private)

Environment == \/ Kill \/ Reboot
               \/ \E c \in Comp : Squat(c) \/ Leave(c) \/ Meddle(c) \/ OperatorBootout(c)

Next == \/ \E kind \in {"install", "reinstall", "uninstall"}, v \in Versions : Start(kind, v)
        \/ Step
        \/ Environment

Spec == Init /\ [][Next]_vars

-----------------------------------------------------------------------------
(* Properties                                                              *)

\* A settled manifest tells the truth about the machine between commands:
\* the plists are the recorded ones, and every loaded job was started from
\* exactly the recorded plist.  And what status calls running, at any moment,
\* runs what the manifest says.  (The code never compares a job's content.)
RecordIsTrue ==
    Untouched /\ ~overtaken =>
        \A c \in Comp :
            /\ pc = "idle" /\ manifest.state \in Settled =>
                 plist[c] = manifest.sha[c] /\ job[c] \in {None, manifest.sha[c]}
            /\ Status(c) = "running" => job[c] = manifest.sha[c]

\* Whatever a kill leaves behind, the manifest on disk accounts for it: a
\* plist or a job is a version the manifest records, as new or as previous.
LedgerCovers ==
    ~overtaken =>
        \A c \in Comp : {plist[c], job[c]}
            \subseteq {None, Alien, manifest.sha[c], manifest.prev[c]}

\* A command that starts from a state nobody else disturbed and meets no fault
\* itself never fails, whatever earlier commands and kills left behind.
HealsItself == outcome = "failed" => ~owed

\* A command that fails and leaves a settled manifest has undone itself.
FailureRestores ==
    [][(pc \in {"bSettle", "uSettle"}) /\ pc' = "idle" /\ outcome' = "failed"
         /\ (manifest.state)' \in Settled /\ ~overtaken' /\ Untouched
       => /\ manifest' = run.old /\ plist = run.old.sha
          /\ Loaded = run.loaded]_vars

\* What another program puts at a path or runs under a label is left alone.  A
\* step of a command takes a foreign file from its path only when the file came
\* after the step's own check had found one of ours there, and before its rename.
\* While such a file is aside nothing of ours is put in its place.  A command
\* that has moved a foreign file, or started one that came between the check
\* and the bootstrap, does not report success, and no foreign job is stopped.
ForeignIsLeftAlone ==
    [][Step =>
         /\ \A c \in Comp :
              /\ job[c] = Alien => job'[c] = Alien
              /\ plist[c] = Alien /\ plist'[c] # Alien =>
                   c = at /\ seen \in Versions /\ held' = Alien
         /\ held = Alien => plist'[at] \in {None, Alien}
         /\ met' => outcome' # "ok"]_vars

\* Write-ahead: a step of a command moves no plist, and starts or ends no job,
\* unless the manifest on disk says that a command is under way.
NothingMovesUnannounced ==
    [][Step /\ ~overtaken /\ manifest.state \notin Interrupted
       => UNCHANGED <<plist, job>>]_vars
=============================================================================
