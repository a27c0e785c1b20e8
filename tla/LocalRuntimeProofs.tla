------------------------- MODULE LocalRuntimeProofs -------------------------
(***************************************************************************)
(* Safety of the lifecycle commands of the local runtime, for any number   *)
(* of components, versions, commands and faults.                           *)
(*                                                                         *)
(* Everything rests on one fact about the machine: a loaded job was        *)
(* started from the file that still lies at its path (JobIsItsPlist),      *)
(* because every phase that moves a plist does so with its job down        *)
(* (JobsAreDown).  What the manifest says then only has to be compared     *)
(* with the files (Announced, FilesAreKnown).                              *)
(***************************************************************************)
EXTENDS LocalRuntime, TLAPS

Undoing == {"look", "bHalt", "bPlace", "bBoot", "bSettle", "giveUp"}
InstallOnly == {"stage", "place", "boot"} \cup Undoing
UninstallOnly == {"clear", "putBack", "resume", "reBoot", "uSettle"}
Working == {"intent", "halt", "commit"} \cup InstallOnly \cup UninstallOnly
Recovering == {"recheck", "rHalt", "rPlace", "rClear", "rBoot", "rCommit"}
Phases == {"idle", "plan"} \cup Working \cup Recovering

Own == Versions \cup {None}
File == Own \cup {Alien}
States == Settled \cup Interrupted \cup {"rollback_required"}
Book == [state : States, sha : [Comp -> Own], prev : [Comp -> Own]]
Kinds == {"install", "reinstall", "uninstall"}
Command ==
  [kind : Kinds, ver : Versions, old : Book, loaded : SUBSET Comp, halted : SUBSET Comp,
   touched : 0 .. Count, tried : 0 .. Count, failed : BOOLEAN]

\* No command ever records or stages a file that is not its own.
TypeOK ==
  /\ plist \in [Comp -> File] /\ job \in [Comp -> File]
  /\ held \in File /\ staged \in [Comp -> Own]
  /\ manifest \in Book /\ taken \in [Comp -> BOOLEAN]
  /\ pc \in Phases /\ at \in Comp /\ run \in Command

\* A job runs what lies at its path, unless somebody replaced that.
JobIsItsPlist == \A c \in Comp : job[c] \in {None, plist[c]} \/ plist[c] = Alien

\* Which phase belongs to which command, and on which manifest it may run.
PhaseFits ==
  /\ pc \in InstallOnly => run.kind # "uninstall"
  /\ pc \in UninstallOnly => run.kind = "uninstall"
  /\ pc \in {"rPlace", "rBoot"} => manifest.state = "installing"
  /\ pc = "rClear" => manifest.state = "uninstalling"
  /\ pc \in Recovering => manifest.state \in Interrupted
  /\ pc = "plan" => manifest.state \notin Interrupted
  /\ pc \in Working => run.old.state \notin Interrupted
  /\ pc \in {"stage", "intent"} => manifest = run.old
  /\ held # None => pc \in Moving

\* What an interrupted install is rolled forward from is what it announced.
StagedIsAnnounced ==
  /\ manifest.state = "installing" => staged = manifest.sha /\ \A c \in Comp : staged[c] # None
  /\ pc = "intent" /\ run.kind # "uninstall" => staged = All(run.ver)

\* How far the command has come.
Progress ==
  /\ pc \in {"plan", "stage", "intent", "halt"} \cup Recovering =>
       run.touched = 0 /\ run.tried = 0
  /\ pc \in {"plan", "stage", "intent"} \cup Recovering => run.halted = {}
  /\ pc = "place" => run.touched = at - 1 /\ run.tried = 0
  /\ pc = "boot" => run.tried = at - 1
  /\ pc = "commit" /\ run.kind # "uninstall" => run.tried = Count

\* The jobs that a phase can rely on not to run.
JobsAreDown ==
  \A c \in Comp :
    \/ pc = "intent" /\ run.kind = "uninstall" /\ c \notin run.loaded
    \/ pc = "halt" /\ (c \notin run.loaded \/ c > at)
    \/ pc \in {"place", "clear", "putBack", "rPlace", "rClear"}
    \/ pc = "commit" /\ run.kind = "uninstall"
    \/ pc = "boot" /\ c >= at
    \/ pc \in {"look", "bHalt"} /\ run.touched > 0 /\ c > run.tried
    \/ pc = "bHalt" /\ c <= run.tried /\ c > at
    \/ pc = "bPlace" /\ run.touched > 0
    \/ pc = "rHalt" /\ c > at
    => job[c] = None

\* What a working command may find at a path or under a label.
Mine(c) == {None, Alien, run.old.sha[c]} \cup (IF run.kind = "uninstall" THEN {} ELSE {run.ver})

FilesAreKnown ==
  pc \in Working =>
    /\ \A c \in Comp : plist[c] \in Mine(c) /\ job[c] \in Mine(c)
    /\ held \in Mine(at)

\* No plist is moved before the manifest has said so.
Announced ==
  ~overtaken =>
    /\ /\ run.kind # "uninstall"
       /\ \/ pc \in {"halt", "place", "boot", "commit"}
          \/ pc \in Undoing \ {"giveUp"} /\ run.touched > 0
       => manifest = Manifest("installing", All(run.ver), run.old.sha)
    /\ run.kind = "uninstall" /\ pc \in {"halt", "clear", "commit", "putBack"}
       => manifest = Manifest("uninstalling", run.old.sha, All(None))

\* A settled manifest lists the files as they are.
SettledIsTrue ==
  ~overtaken /\ manifest.state \in Settled =>
    \A c \in Comp : plist[c] \in {manifest.sha[c], Alien}

\* An uninstall that could not announce itself has not begun.
UnannouncedIsUndone ==
  /\ pc = "intent" /\ run.kind = "uninstall" => Loaded = run.loaded
  /\ ~overtaken /\ pc \in {"resume", "reBoot", "uSettle"} =>
       \/ manifest = Manifest("uninstalling", run.old.sha, All(None))
       \/ manifest = run.old /\ Loaded = run.loaded /\ run.halted = {}

\* What is held is on record, or somebody else's.
HeldIsCovered ==
  ~overtaken => held \in {None, Alien, manifest.sha[at], manifest.prev[at]}

\* What a step has found is still where it was found, or where the step has
\* moved it, unless somebody has put a file of their own there.
SeenFits ==
  /\ seen \in Own
  /\ held \in {None, seen, Alien} /\ (held # None => seen # None)
  /\ seen # None =>
       /\ pc \in Moving \cup Booting /\ ~Skipped
       /\ pc \in Moving =>
            IF held = None THEN plist[at] \in {seen, Alien} ELSE plist[at] \in {None, Alien}
       /\ pc \in Booting =>
            seen = ToBoot /\ ~Spared /\ plist[at] \in {seen, Alien} /\ job[at] = None

RuntimeInv ==
  /\ TypeOK /\ JobIsItsPlist /\ PhaseFits /\ StagedIsAnnounced /\ Progress /\ JobsAreDown
  /\ FilesAreKnown /\ Announced /\ SettledIsTrue /\ UnannouncedIsUndone
  /\ HeldIsCovered /\ LedgerCovers

-----------------------------------------------------------------------------
(* Where a command goes from one component to the next.                      *)
LEMMA AdvanceStep ==
  ASSUME at \in Comp, NEW phase, Advance(phase)
  PROVE  /\ at' \in Comp
         /\ \/ pc' = pc /\ pc \notin Backward /\ at < Count /\ at' = at + 1
            \/ pc' = pc /\ pc \in Backward /\ at > 1 /\ at' = at - 1
            \/ /\ pc' = phase /\ at' = (IF phase \in Backward THEN Count ELSE 1)
               /\ IF pc \in Backward THEN at = 1 ELSE at = Count
BY RuntimeAssumption DEF Advance, Last, Enter, Comp, Backward

\* What planning needs and what it leaves.
LEMMA PlanStep ==
  ASSUME NEW r \in Outcomes, Plan(r)
  PROVE  /\ pc = "plan" /\ at' = 1
         /\ UNCHANGED <<world, ghosts>>
         /\ \/ pc' = "idle" /\ run' = run
            \/ /\ pc' = "idle"
               /\ run' = [run EXCEPT !.old = manifest, !.loaded = Loaded]
            \/ /\ pc' = IF run.kind = "uninstall" THEN "intent" ELSE "stage"
               /\ run' = [run EXCEPT !.old = manifest, !.loaded = Loaded]
               /\ plist = manifest.sha /\ Inspected(manifest)
BY DEF Plan, Enter, Finish, Running, Backward, Rest, Beyond, Luck

\* What staging needs and what it leaves.
LEMMA StageStep ==
  ASSUME NEW k \in 0 .. Count, Stage(k)
  PROVE  /\ pc = "stage" /\ at' = 1
         /\ staged' = [c \in Comp |-> IF c <= k THEN run.ver ELSE staged[c]]
         /\ UNCHANGED <<plist, held, manifest, job, taken, run, ghosts>>
         /\ pc' = "idle" \/ (pc' = "intent" /\ k = Count)
BY DEF Stage, Enter, Finish, Running, Backward, Rest, Beyond, Luck

\* What the write-ahead record needs and what it leaves.
LEMMA IntentStep ==
  ASSUME NEW r \in Outcomes, Intent(r)
  PROVE  /\ pc = "intent"
         /\ UNCHANGED <<plist, held, staged, job, taken, ghosts>>
         /\ \/ /\ run.kind = "uninstall" /\ run' = run
               /\ \/ manifest' = Manifest("uninstalling", run.old.sha, All(None))
                  \/ manifest' = manifest /\ pc' = "resume"
               /\ (pc' = "halt" /\ at' = Count) \/ (pc' = "resume" /\ at' = 1)
            \/ run.kind # "uninstall" /\ pc' = "idle" /\ at' = 1 /\ UNCHANGED <<manifest, run>>
            \/ /\ run.kind # "uninstall" /\ Inspected(run.old)
               /\ run' = [run EXCEPT !.loaded = Loaded]
               /\ \/ manifest' = Manifest("installing", All(run.ver), run.old.sha)
                  \/ manifest' = manifest /\ pc' = "look"
               /\ (pc' = "halt" /\ at' = Count) \/ (pc' = "look" /\ at' = 1)
BY DEF Intent, Enter, Finish, Running, Backward, Rest, Beyond, Luck, Replaced

\* What a job brought down needs and what it leaves.
LEMMA HaltStep ==
  ASSUME NEW r \in Outcomes, Halt(r)
  PROVE  /\ pc = "halt"
         /\ UNCHANGED <<plist, held, staged, manifest, taken, ghosts>>
         /\ job' = job \/ Unloaded(at)
         /\ run' = run \/ run' = [run EXCEPT !.halted = @ \cup {at}]
         /\ \/ pc' = (IF run.kind = "uninstall" THEN "resume" ELSE "look") /\ at' = 1
            \/ /\ at \in run.loaded => Unloaded(at)
               /\ Advance(IF run.kind = "uninstall" THEN "clear" ELSE "place")
BY DEF Halt, Enter, Finish, Running, Backward, Rest, Beyond, Luck

\* What a plist found at its path needs and what it leaves.
LEMMA MatchStep ==
  ASSUME Match
  PROVE  /\ pc \in Moving /\ held = None /\ ~Skipped /\ seen = None
         /\ plist[at] # None /\ plist[at] = Basis /\ seen' = plist[at]
         /\ UNCHANGED <<world, pc, at, run, outcome, owed, met, ghosts>>
BY DEF Match, Displaceable, Beyond

\* What a plist moved aside needs and what it leaves.
LEMMA DisplaceStep ==
  ASSUME SeenFits, Displace, None # Alien
  PROVE  /\ pc \in Moving /\ held = None /\ ~Skipped
         /\ plist[at] # None /\ plist[at] \in {seen, Alien}
         /\ held' = plist[at] /\ plist' = [plist EXCEPT ![at] = None]
         /\ UNCHANGED <<staged, manifest, job, taken, pc, at, run, seen, ghosts>>
BY DEF Displace, SeenFits, Beyond

\* What a plist put in its place needs and what it leaves.
LEMMA PublishStep ==
  ASSUME NEW r \in Outcomes, Publish(r)
  PROVE  /\ pc \in Placing /\ held' = None /\ held = seen
         /\ UNCHANGED <<staged, manifest, job, taken, ghosts>>
         /\ \/ plist' = plist
            \/ /\ ~Skipped /\ plist[at] = None
               /\ \E p \in {Wanted, held} : plist' = [plist EXCEPT ![at] = p]
         /\ Placed \/ NotPlaced
<1>1. /\ pc \in Placing /\ held' = None /\ held = seen
      /\ UNCHANGED <<staged, manifest, job, taken, ghosts>>
  BY DEF Publish, Beyond
<1>2. \/ plist' = plist
      \/ /\ ~Skipped /\ plist[at] = None
         /\ \E p \in {Wanted, held} : plist' = [plist EXCEPT ![at] = p]
  BY DEF Publish
<1>3. Placed \/ NotPlaced
  BY DEF Publish
<1> QED
  BY <1>1, <1>2, <1>3

\* What a foreign file that was moved needs and what it leaves.
LEMMA GiveBackStep ==
  ASSUME NEW private \in BOOLEAN, GiveBack(private)
  PROVE  /\ held # None /\ held # seen /\ held' = None /\ seen' = None
         /\ UNCHANGED <<staged, manifest, job, taken, met, owed, ghosts>>
         /\ plist' = plist \/ (plist[at] = None /\ plist' = [plist EXCEPT ![at] = held])
         /\ \/ NotPlaced
            \/ pc = "bPlace" /\ Placed /\ Wanted = None /\ plist'[at] = None
BY DEF GiveBack, Beyond

\* What a job brought up needs and what it leaves.
LEMMA BootStep ==
  ASSUME SeenFits, NEW r \in Outcomes, Boot(r)
  PROVE  /\ pc \in Booting
         /\ UNCHANGED <<plist, held, staged, manifest, taken, ghosts>>
         /\ \/ job' = job
            \/ /\ job' = [job EXCEPT ![at] = plist[at]] /\ ToBoot # None
               /\ plist[at] \in {ToBoot, Alien}
               /\ pc \in {"bBoot", "reBoot"} => at \in run.halted /\ ~run.failed
         /\ \/ pc = "rBoot" /\ run' = run /\ (Advance("rCommit") \/ Finish("failed"))
            \/ pc = "boot" /\ run' = [run EXCEPT !.tried = at] /\ (Advance("commit") \/ Enter("look"))
            \/ /\ pc = "bBoot" /\ run' \in {run, [run EXCEPT !.failed = TRUE]}
               /\ Advance("bSettle") \/ Enter("giveUp")
            \/ /\ pc = "reBoot" /\ run' \in {run, [run EXCEPT !.failed = TRUE]}
               /\ Advance("uSettle") \/ Enter("uSettle")
<1>1. /\ pc \in Booting
      /\ UNCHANGED <<plist, held, staged, manifest, taken, ghosts>>
  BY DEF Boot, Beyond
<1>2. \/ job' = job
      \/ seen # None /\ job' = [job EXCEPT ![at] = plist[at]]
  BY DEF Boot
<1>3. seen # None => /\ ToBoot # None /\ plist[at] \in {ToBoot, Alien}
                     /\ pc \in {"bBoot", "reBoot"} => at \in run.halted /\ ~run.failed
  BY <1>1 DEF SeenFits, Spared
<1>4. \/ pc = "rBoot" /\ run' = run /\ (Advance("rCommit") \/ Finish("failed"))
      \/ pc = "boot" /\ run' = [run EXCEPT !.tried = at] /\ (Advance("commit") \/ Enter("look"))
      \/ /\ pc = "bBoot" /\ run' \in {run, [run EXCEPT !.failed = TRUE]}
         /\ Advance("bSettle") \/ Enter("giveUp")
      \/ /\ pc = "reBoot" /\ run' \in {run, [run EXCEPT !.failed = TRUE]}
         /\ Advance("uSettle") \/ Enter("uSettle")
  BY DEF Boot, Booting, Running
<1> QED
  BY <1>1, <1>2, <1>3, <1>4

\* What a plist removed needs and what it leaves.
LEMMA ClearStep ==
  ASSUME NEW r \in Outcomes, Clear(r)
  PROVE  /\ pc \in {"rClear", "clear"} /\ held' = None /\ held = seen
         /\ UNCHANGED <<staged, manifest, job, taken, run, ghosts>>
         /\ \/ plist' = plist
            \/ plist[at] = None /\ plist' = [plist EXCEPT ![at] = held]
         /\ \/ pc = "clear" /\ (Advance("commit") \/ Enter("putBack"))
            \/ pc = "rClear" /\ (Advance("rCommit") \/ Finish("failed"))
<1>1. /\ pc \in {"rClear", "clear"} /\ held' = None /\ held = seen
      /\ UNCHANGED <<staged, manifest, job, taken, ghosts>>
      /\ \/ plist' = plist
         \/ plist[at] = None /\ plist' = [plist EXCEPT ![at] = held]
  BY DEF Clear, Beyond
<1>2. \/ Advance(IF pc = "clear" THEN "commit" ELSE "rCommit") /\ run' = run
      \/ NotPlaced
  BY DEF Clear
<1> QED
  BY <1>1, <1>2 DEF NotPlaced

\* What the settled record needs and what it leaves.
LEMMA CommitStep ==
  ASSUME NEW r \in Outcomes, Commit(r)
  PROVE  /\ pc \in {"rCommit", "commit"}
         /\ UNCHANGED <<plist, held, staged, job, taken, run, rebooted>>
         /\ ~overtaken' => ~overtaken
         /\ \/ manifest' = manifest
            \/ /\ pc = "commit" /\ run.kind # "uninstall" /\ AllRun(All(run.ver))
               /\ manifest' = Manifest("installed", All(run.ver), All(None))
            \/ /\ pc = "rCommit" /\ manifest.state = "installing" /\ AllRun(staged)
               /\ manifest' = Manifest("installed", staged, All(None))
            \/ /\ AllGone
               /\ manifest' = Manifest("uninstalled", All(None), All(None))
         /\ \/ pc' = "idle" /\ at' = 1
            \/ pc' = "plan" /\ at' = 1 /\ pc = "rCommit" /\ manifest'.state \in Settled
            \/ pc' = "look" /\ at' = 1 /\ run.kind # "uninstall" /\ pc = "commit"
            \/ pc' = "putBack" /\ at' = 1 /\ run.kind = "uninstall" /\ pc = "commit"
<1> DEFINE installs == IF pc = "commit" THEN run.kind # "uninstall"
                       ELSE manifest.state = "installing"
           now == IF pc = "commit" THEN All(run.ver) ELSE staged
           good == IF installs THEN AllRun(now) ELSE AllGone
           said == IF installs THEN Manifest("installed", now, All(None))
                   ELSE Manifest("uninstalled", All(None), All(None))
<1>1. /\ pc \in {"rCommit", "commit"}
      /\ UNCHANGED <<plist, held, staged, job, taken, run, rebooted>>
  BY DEF Commit
<1>2. manifest' = manifest \/ (good /\ manifest' = said)
  BY DEF Commit, Replaced
<1>3. said.state \in Settled
  BY DEF Manifest, Settled
<1>5. ~overtaken' => ~overtaken
  BY DEF Commit
<1>4. \/ pc' = "idle" /\ at' = 1
      \/ pc' = "plan" /\ at' = 1 /\ pc = "rCommit" /\ manifest' = said
      \/ pc' = "look" /\ at' = 1 /\ run.kind # "uninstall" /\ pc = "commit"
      \/ pc' = "putBack" /\ at' = 1 /\ run.kind = "uninstall" /\ pc = "commit"
  BY DEF Commit, Enter, Finish, Running, Backward, Replaced
<1> QED
  BY <1>1, <1>2, <1>3, <1>4, <1>5

\* What rollback finding out what it needs needs and what it leaves.
LEMMA RecheckStep ==
  ASSUME NEW r \in Outcomes, Recheck(r)
  PROVE  /\ pc = "recheck" /\ UNCHANGED <<world, run, ghosts>>
         /\ \/ pc' = "rHalt" /\ at' = Count
            \/ pc' = "idle" /\ at' = 1
BY DEF Recheck, Enter, Finish, Backward, Rest, Beyond

\* What rollback bringing a job down needs and what it leaves.
LEMMA RHaltStep ==
  ASSUME NEW r \in Outcomes, RHalt(r)
  PROVE  /\ pc = "rHalt" /\ UNCHANGED <<plist, held, staged, manifest, taken, run, ghosts>>
         /\ \/ job' = job /\ Finish("failed")
            \/ /\ Unloaded(at)
               /\ \/ Advance(IF manifest.state = "installing" THEN "rPlace" ELSE "rClear")
                  \/ Finish("failed")
BY DEF RHalt, Rest, Beyond, Finish

\* What recovery looking at what is there needs and what it leaves.
LEMMA LookStep ==
  ASSUME NEW r \in Outcomes, Look(r)
  PROVE  /\ pc = "look" /\ UNCHANGED <<world, run, ghosts>>
         /\ (pc' = "bHalt" /\ at' = Count) \/ (pc' = "giveUp" /\ at' = 1)
BY DEF Look, Enter, Finish, Backward, Rest, Beyond

\* What recovery bringing a job down needs and what it leaves.
LEMMA BHaltStep ==
  ASSUME NEW r \in Outcomes, BHalt(r)
  PROVE  /\ pc = "bHalt" /\ UNCHANGED <<plist, held, staged, manifest, taken, run, ghosts>>
         /\ job' = job \/ Unloaded(at)
         /\ \/ pc' = "giveUp" /\ at' = 1
            \/ Advance("bPlace") /\ (Unloaded(at) \/ (job' = job /\ at \notin Tried \cap Loaded))
BY DEF BHalt, Enter, Finish, Backward, Rest, Beyond

\* What a failed command's settled record needs and what it leaves.
LEMMA BSettleStep ==
  ASSUME NEW r \in Outcomes, BSettle(r)
  PROVE  /\ pc = "bSettle" /\ UNCHANGED <<plist, held, staged, job, taken, run, rebooted>>
         /\ at' = 1 /\ pc' \in {"idle", "giveUp"}
         /\ \/ manifest' = manifest /\ (overtaken' <=> overtaken)
            \/ manifest' = run.old /\ Restored
BY DEF BSettle, Enter, Finish, Backward, Replaced

\* What a command that gives up needs and what it leaves.
LEMMA GiveUpStep ==
  ASSUME NEW r \in Outcomes, GiveUp(r)
  PROVE  /\ pc = "giveUp" /\ UNCHANGED <<plist, held, staged, job, taken, run, rebooted>>
         /\ at' = 1 /\ pc' = "idle"
         /\ \/ manifest' = manifest /\ (overtaken' <=> overtaken)
            \/ manifest' = Manifest("rollback_required", All(run.ver), run.old.sha)
BY DEF GiveUp, Enter, Finish, Backward, Replaced

\* What a command that takes up an interrupted one needs and what it leaves.
LEMMA ResumeStep ==
  ASSUME NEW r \in Outcomes, Resume(r)
  PROVE  /\ pc = "resume" /\ UNCHANGED <<world, ghosts>>
         /\ at' = 1 /\ pc' = "reBoot"
         /\ \E b \in BOOLEAN : run' = [run EXCEPT !.failed = b]
BY DEF Resume, Enter, Finish, Backward, Rest, Beyond

\* What an uninstall's settled record needs and what it leaves.
LEMMA USettleStep ==
  ASSUME NEW r \in Outcomes, USettle(r)
  PROVE  /\ pc = "uSettle" /\ UNCHANGED <<plist, held, staged, job, taken, run, rebooted>>
         /\ at' = 1 /\ pc' = "idle"
         /\ \/ manifest' = manifest /\ (overtaken' <=> overtaken)
            \/ manifest' = run.old /\ Restored
            \/ manifest' = Manifest("rollback_required", run.old.sha, All(None))
BY DEF USettle, Enter, Finish, Backward, Replaced

-----------------------------------------------------------------------------
(* Each action keeps the inductive invariant                               *)

\* What planning changes.
LEMMA PlanEffect ==
  ASSUME RuntimeInv, NEW r \in Outcomes, Plan(r)
  PROVE  /\ run' \in Command
         /\ \/ pc' = "idle"
            \/ /\ pc' = IF run.kind = "uninstall" THEN "intent" ELSE "stage"
               /\ run'.old = manifest /\ run'.loaded = Loaded /\ run'.kind = run.kind
               /\ run'.ver = run.ver /\ run'.halted = run.halted
               /\ run'.touched = run.touched /\ run'.tried = run.tried
               /\ plist = manifest.sha /\ Inspected(manifest)
         /\ pc = "plan" /\ at' = 1 /\ UNCHANGED <<world, ghosts>>
<1> USE RuntimeAssumption DEF RuntimeInv, All
<1>1. /\ run' \in Command
      /\ \/ pc' = "idle"
         \/ /\ pc' = IF run.kind = "uninstall" THEN "intent" ELSE "stage"
            /\ run'.old = manifest /\ run'.loaded = Loaded /\ run'.kind = run.kind
            /\ run'.ver = run.ver /\ run'.halted = run.halted
            /\ run'.touched = run.touched /\ run'.tried = run.tried
            /\ plist = manifest.sha /\ Inspected(manifest)
  BY PlanStep DEF TypeOK, Command, Loaded
<1>2. pc = "plan" /\ at' = 1 /\ UNCHANGED <<world, ghosts>>
  BY PlanStep
<1> QED
  BY <1>1, <1>2

\* The invariant through planning.
LEMMA PlanInv ==
  ASSUME RuntimeInv, NEW r \in Outcomes, Plan(r)
  PROVE  RuntimeInv'
<1> USE RuntimeAssumption DEF RuntimeInv, All
<1>1. TypeOK'
  BY PlanEffect DEF TypeOK, world, Phases, Working, Recovering, InstallOnly, Comp
<1>2. JobIsItsPlist' BY PlanStep DEF world, JobIsItsPlist
<1>3. PhaseFits'
  BY PlanStep
     DEF Inspected, Registered, Loaded, Owned, Listeners, Comp, ghosts, world, Undoing,
         InstallOnly, UninstallOnly, Working, Recovering, Phases, Own, File, States, Book,
         Kinds, Command, Settled, Interrupted, Placing, Moving, PhaseFits, TypeOK
<1>4. StagedIsAnnounced'
  BY PlanStep
     DEF Inspected, Registered, Loaded, Owned, Listeners, Comp, ghosts, world, Undoing, InstallOnly,
         UninstallOnly, Working, Recovering, Phases, Own, File, States, Book, Kinds, Command,
         Settled, Interrupted, Placing, Moving, StagedIsAnnounced, TypeOK, PhaseFits, Manifest
<1>5. Progress'
  BY PlanStep
     DEF Inspected, Registered, Loaded, Owned, Listeners, Comp, ghosts, world, Undoing,
         InstallOnly, UninstallOnly, Working, Recovering, Phases, Own, File, States, Book,
         Kinds, Command, Settled, Interrupted, Placing, Moving, Progress, TypeOK, PhaseFits
<1>6. JobsAreDown'
  BY PlanEffect DEF JobsAreDown, world, TypeOK, Loaded, Registered
<1>7. FilesAreKnown'
  BY PlanEffect
     DEF FilesAreKnown, Mine, JobIsItsPlist, PhaseFits, Working, InstallOnly, Undoing,
         UninstallOnly, Placing, Moving, world, TypeOK, Own, Book
<1>8. Announced' BY PlanStep DEF Undoing, Announced
<1>9. SettledIsTrue' BY PlanStep DEF ghosts, world, SettledIsTrue
<1>10. UnannouncedIsUndone'
  BY PlanEffect DEF UnannouncedIsUndone, world, TypeOK, Loaded, Registered
<1>11. HeldIsCovered' BY PlanStep DEF world, Placing, Moving, HeldIsCovered, PhaseFits
<1>12. LedgerCovers'
  BY PlanEffect DEF LedgerCovers, world, ghosts
<1> QED BY <1>1, <1>2, <1>3, <1>4, <1>5, <1>6, <1>7, <1>8, <1>9, <1>10, <1>11, <1>12

\* The invariant through staging.
LEMMA StageInv ==
  ASSUME RuntimeInv, NEW k \in 0 .. Count, Stage(k)
  PROVE  RuntimeInv'
<1> USE RuntimeAssumption DEF RuntimeInv, All
<1>1. TypeOK' BY StageStep DEF Comp, Working, Phases, Own, Command, TypeOK
<1>2. JobIsItsPlist' BY StageStep DEF JobIsItsPlist
<1>3. PhaseFits'
  BY StageStep DEF InstallOnly, UninstallOnly, Working, Recovering, Placing, Moving, PhaseFits
<1>4. StagedIsAnnounced'
  BY StageStep DEF Comp, Recovering, Phases, Interrupted, StagedIsAnnounced, TypeOK, PhaseFits
<1>5. Progress' BY StageStep DEF Progress
<1>6. JobsAreDown' BY StageStep DEF InstallOnly, JobsAreDown, PhaseFits
<1>7. FilesAreKnown'
  BY StageStep DEF Recovering, Phases, Placing, Moving, FilesAreKnown, TypeOK, PhaseFits, Mine
<1>8. Announced' BY StageStep DEF Announced, Progress
<1>9. SettledIsTrue' BY StageStep DEF ghosts, SettledIsTrue
<1>10. UnannouncedIsUndone' BY StageStep DEF InstallOnly, UnannouncedIsUndone, PhaseFits
<1>11. HeldIsCovered' BY StageStep DEF Placing, Moving, HeldIsCovered, PhaseFits
<1>12. LedgerCovers' BY StageStep DEF ghosts, LedgerCovers
<1> QED BY <1>1, <1>2, <1>3, <1>4, <1>5, <1>6, <1>7, <1>8, <1>9, <1>10, <1>11, <1>12

\* What the write-ahead record changes.
LEMMA IntentEffect ==
  ASSUME RuntimeInv, NEW r \in Outcomes, Intent(r)
  PROVE  /\ run' \in Command /\ at' \in Comp
         /\ run'.old = run.old /\ run'.kind = run.kind /\ run'.ver = run.ver
         /\ run'.touched = run.touched /\ run'.tried = run.tried /\ run'.halted = run.halted
         /\ pc' \in {"halt", "resume", "look", "idle"}
         /\ Manifest("installing", All(run.ver), run.old.sha) \in Book
         /\ Manifest("uninstalling", run.old.sha, All(None)) \in Book
         /\ manifest' \in Book
<1> USE RuntimeAssumption DEF RuntimeInv, All
<1>1. run' \in Command /\ at' \in Comp
      /\ run'.old = run.old /\ run'.kind = run.kind /\ run'.ver = run.ver
      /\ run'.touched = run.touched /\ run'.tried = run.tried /\ run'.halted = run.halted
  <2>1. run' = run \/ run' = [run EXCEPT !.loaded = Loaded]
    BY IntentStep
  <2>2. run \in Command /\ Loaded \in SUBSET Comp
    BY DEF TypeOK, Loaded
  <2>3. at' \in Comp
    BY IntentStep DEF Comp
  <2> QED
    BY <2>1, <2>2, <2>3 DEF Command
<1>2. pc' \in {"halt", "resume", "look", "idle"}
  BY IntentStep
<1>3. /\ Manifest("installing", All(run.ver), run.old.sha) \in Book
      /\ Manifest("uninstalling", run.old.sha, All(None)) \in Book
  BY DEF Manifest, Book, TypeOK, Command, Own, States, Interrupted
<1>4. manifest' \in Book
  BY <1>3, IntentStep DEF TypeOK
<1> QED
  BY <1>1, <1>2, <1>3, <1>4

\* The invariant through the write-ahead record.
LEMMA IntentInv ==
  ASSUME RuntimeInv, NEW r \in Outcomes, Intent(r)
  PROVE  RuntimeInv'
<1> USE RuntimeAssumption DEF RuntimeInv, All
<1>1. TypeOK'
  BY IntentEffect, IntentStep
     DEF TypeOK, Phases, Working, Recovering, InstallOnly, UninstallOnly, Undoing
<1>2. JobIsItsPlist' BY IntentStep DEF JobIsItsPlist
<1>3. PhaseFits'
  BY IntentStep
     DEF Undoing, InstallOnly, UninstallOnly, Working, Recovering, Command, Placing, Moving,
         PhaseFits, TypeOK
<1>4. StagedIsAnnounced'
  <2>1. manifest' = manifest \/ manifest' = Manifest("uninstalling", run.old.sha, All(None))
        \/ (run.kind # "uninstall" /\ manifest' = Manifest("installing", All(run.ver), run.old.sha))
    BY IntentStep
  <2>2. pc' # "intent" /\ staged' = staged /\ run.ver # None /\ pc = "intent"
    BY IntentStep, IntentEffect DEF TypeOK, Command
  <2> QED
    BY <2>1, <2>2 DEF StagedIsAnnounced, Manifest
<1>5. Progress' BY IntentStep DEF Command, Progress, TypeOK
<1>6. JobsAreDown'
  BY IntentStep
     DEF Inspected, Registered, Loaded, Owned, Listeners, Manifest, Comp, Undoing, InstallOnly,
         UninstallOnly, Working, Recovering, Phases, Own, File, States, Kinds, Command,
         Interrupted, JobsAreDown, TypeOK, Progress, UnannouncedIsUndone
<1>7. FilesAreKnown'
  BY IntentEffect, IntentStep
     DEF FilesAreKnown, Mine, PhaseFits, Placing, Moving, Working, TypeOK, Command, Book
<1>8. Announced'
  BY IntentEffect, IntentStep DEF Announced, Progress, Undoing
<1>9. SettledIsTrue' BY IntentStep DEF Manifest, ghosts, Settled, SettledIsTrue
<1>10. UnannouncedIsUndone'
  BY IntentStep DEF Registered, Loaded, UnannouncedIsUndone, PhaseFits, Progress
<1>11. HeldIsCovered' BY IntentStep DEF Placing, Moving, HeldIsCovered, PhaseFits
<1>12. LedgerCovers'
  BY IntentStep DEF Manifest, ghosts, Working, LedgerCovers, FilesAreKnown, Mine
<1> QED BY <1>1, <1>2, <1>3, <1>4, <1>5, <1>6, <1>7, <1>8, <1>9, <1>10, <1>11, <1>12

\* What a job brought down changes.
LEMMA HaltEffect ==
  ASSUME RuntimeInv, NEW r \in Outcomes, Halt(r)
  PROVE  /\ run' \in Command
         /\ run'.old = run.old /\ run'.kind = run.kind
         /\ run'.ver = run.ver /\ run'.loaded = run.loaded
         /\ run'.touched = run.touched /\ run'.tried = run.tried
         /\ pc = "halt" /\ at' \in Comp
         /\ pc' \in {"halt"} \cup IF run.kind = "uninstall" THEN {"resume", "clear"}
                                       ELSE {"look", "place"}
         /\ job' \in [Comp -> File] /\ \A c \in Comp : job'[c] \in {None, job[c]}
<1> USE RuntimeAssumption DEF RuntimeInv, All
<1>1. /\ run' \in Command
      /\ run'.old = run.old /\ run'.kind = run.kind
      /\ run'.ver = run.ver /\ run'.loaded = run.loaded
      /\ run'.touched = run.touched /\ run'.tried = run.tried
  BY HaltStep DEF TypeOK, Command
<1>2. /\ pc = "halt" /\ at' \in Comp
      /\ pc' \in {"halt"} \cup IF run.kind = "uninstall" THEN {"resume", "clear"}
                                    ELSE {"look", "place"}
  BY HaltStep, AdvanceStep DEF TypeOK, Comp
<1>3. job' \in [Comp -> File] /\ \A c \in Comp : job'[c] \in {None, job[c]}
  BY HaltStep DEF TypeOK, Unloaded, File, Own
<1> QED
  BY <1>1, <1>2, <1>3

\* The invariant through a job brought down.
LEMMA HaltInv ==
  ASSUME RuntimeInv, NEW r \in Outcomes, Halt(r)
  PROVE  RuntimeInv'
<1> USE RuntimeAssumption DEF RuntimeInv, All
<1>1. TypeOK'
  BY HaltEffect, HaltStep
     DEF TypeOK, Phases, Working, Recovering, InstallOnly, UninstallOnly, Undoing
<1>2. JobIsItsPlist' BY HaltStep DEF Unloaded, JobIsItsPlist, TypeOK
<1>3. PhaseFits'
  BY HaltStep
     DEF Advance, Enter, Undoing, InstallOnly, UninstallOnly, Recovering, Phases, Command,
         Placing, Moving, PhaseFits, TypeOK
<1>4. StagedIsAnnounced' BY HaltStep DEF Advance, Enter, StagedIsAnnounced
<1>5. Progress' BY HaltStep DEF Advance, Enter, Backward, Recovering, Command, Progress, TypeOK
<1>6. JobsAreDown'
  <2>1. ASSUME pc' \in {"resume", "look"} PROVE JobsAreDown'
    BY HaltEffect, <2>1 DEF JobsAreDown, Progress
  <2>2. ASSUME pc' \in {"halt", "clear", "place"} PROVE JobsAreDown'
    <3>1. \A c \in Comp : c \notin run.loaded \/ c >= at => job'[c] = None
      BY HaltEffect, <2>2, HaltStep DEF JobsAreDown, Unloaded, Comp, TypeOK
    <3>2. pc' = "halt" => at' = at - 1
      BY HaltEffect, HaltStep, AdvanceStep, <2>2 DEF Backward, TypeOK
    <3>3. pc' # "halt" => at = 1
      BY HaltEffect, HaltStep, AdvanceStep, <2>2 DEF Backward, TypeOK
    <3> QED
      BY HaltEffect, <2>2, <3>1, <3>2, <3>3 DEF JobsAreDown, Comp, TypeOK
  <2> QED
    BY HaltEffect, <2>1, <2>2
<1>7. FilesAreKnown'
  BY HaltEffect, HaltStep DEF FilesAreKnown, Mine, PhaseFits, Placing, Moving, Working
<1>8. Announced'
  BY HaltEffect, HaltStep DEF Announced, Progress, Undoing, ghosts
<1>9. SettledIsTrue' BY HaltStep DEF ghosts, SettledIsTrue
<1>10. UnannouncedIsUndone'
  BY HaltStep DEF Advance, Enter, ghosts, Command, UnannouncedIsUndone, TypeOK, Announced
<1>11. HeldIsCovered' BY HaltStep DEF Placing, Moving, HeldIsCovered, PhaseFits
<1>12. LedgerCovers' BY HaltStep DEF Unloaded, ghosts, LedgerCovers, TypeOK
<1> QED BY <1>1, <1>2, <1>3, <1>4, <1>5, <1>6, <1>7, <1>8, <1>9, <1>10, <1>11, <1>12

\* The invariant through a plist found at its path, which changes nothing else.
LEMMA MatchInv ==
  ASSUME RuntimeInv, Match
  PROVE  RuntimeInv'
<1> USE MatchStep DEF RuntimeInv, world, ghosts
<1>1. TypeOK' /\ JobIsItsPlist' /\ PhaseFits' BY DEF TypeOK, JobIsItsPlist, PhaseFits
<1>2. StagedIsAnnounced' /\ Progress' /\ JobsAreDown'
  BY DEF StagedIsAnnounced, Progress, JobsAreDown
<1>3. FilesAreKnown' /\ Announced' /\ SettledIsTrue'
  BY DEF FilesAreKnown, Mine, Announced, SettledIsTrue
<1>4. UnannouncedIsUndone' /\ HeldIsCovered' /\ LedgerCovers'
  BY DEF UnannouncedIsUndone, Loaded, Registered, HeldIsCovered, LedgerCovers
<1> QED BY <1>1, <1>2, <1>3, <1>4

\* A plist is only moved with its job down.
LEMMA DownWhileMoving ==
  ASSUME RuntimeInv, pc \in Moving, ~Skipped
  PROVE  job[at] = None
BY DEF RuntimeInv, JobsAreDown, Moving, Placing, Skipped, TypeOK, Comp, Command

\* While a plist is moved the manifest says that a command is under way.
LEMMA MovingIsUnderWay ==
  ASSUME RuntimeInv, pc \in Moving, ~Skipped, ~overtaken
  PROVE  manifest.state \notin Settled
BY DEF RuntimeInv, PhaseFits, Announced, Manifest, Settled, Skipped, Moving, Placing, Undoing,
       InstallOnly, UninstallOnly, TypeOK, Comp, Command

\* The invariant through a plist moved aside.
LEMMA DisplaceInv ==
  ASSUME RuntimeInv, SeenFits, Displace
  PROVE  RuntimeInv'
<1> USE RuntimeAssumption, DisplaceStep DEF RuntimeInv
<1>1. TypeOK' BY DEF TypeOK, File, Own
<1>2. JobIsItsPlist' BY DownWhileMoving DEF JobIsItsPlist, TypeOK
<1>3. PhaseFits' BY DEF PhaseFits
<1>4. StagedIsAnnounced' BY DEF StagedIsAnnounced
<1>5. Progress' BY DEF Progress
<1>6. JobsAreDown' BY DEF JobsAreDown
<1>7. FilesAreKnown' BY DEF FilesAreKnown, TypeOK, Mine
<1>8. Announced' BY DEF ghosts, Announced
<1>9. SettledIsTrue' BY MovingIsUnderWay DEF SettledIsTrue, ghosts
<1>10. UnannouncedIsUndone' BY DEF Placing, Moving, UnannouncedIsUndone
<1>11. HeldIsCovered' BY DEF ghosts, HeldIsCovered, TypeOK, LedgerCovers
<1>12. LedgerCovers' BY DEF ghosts, LedgerCovers, TypeOK
<1> QED BY <1>1, <1>2, <1>3, <1>4, <1>5, <1>6, <1>7, <1>8, <1>9, <1>10, <1>11, <1>12

\* What a step that placed or did not place its plist does to the command.
LEMMA PlacedOrNot ==
  ASSUME TypeOK, pc \in Moving, (pc \in Placing /\ Placed) \/ NotPlaced
  PROVE  /\ run' \in Command
         /\ run'.old = run.old /\ run'.kind = run.kind
         /\ run'.ver = run.ver /\ run'.loaded = run.loaded
         /\ run'.halted = run.halted /\ run'.tried = run.tried
         /\ run'.touched = IF pc = "place" THEN at ELSE run.touched
         /\ pc' \in CASE pc = "rPlace" -> {"rPlace", "rBoot", "idle"}
                     [] pc = "place" -> {"place", "boot", "look"}
                     [] pc = "bPlace" -> {"bPlace", "bBoot"}
                     [] pc = "putBack" -> {"putBack", "resume"}
                     [] pc = "rClear" -> {"idle"}
                     [] pc = "clear" -> {"putBack"}
         /\ at' \in Comp
         /\ pc' = pc => at' = IF pc = "bPlace" THEN at - 1 ELSE at + 1
         /\ pc = "place" /\ pc' = "boot" => at' = 1
<1>1. /\ run' \in Command
      /\ run'.old = run.old /\ run'.kind = run.kind
      /\ run'.ver = run.ver /\ run'.loaded = run.loaded
      /\ run'.halted = run.halted /\ run'.tried = run.tried
      /\ run'.touched = IF pc = "place" THEN at ELSE run.touched
  <2>1. \/ run' \in {run, [run EXCEPT !.failed = TRUE]}
        \/ pc = "place" /\ run' = [run EXCEPT !.touched = at]
    BY DEF Placed, NotPlaced, Placing, Moving
  <2>2. pc = "place" => run' = [run EXCEPT !.touched = at]
    BY DEF Placed, NotPlaced
  <2>3. run \in Command /\ at \in 0 .. Count
    BY DEF TypeOK, Comp
  <2> QED
    BY <2>1, <2>2, <2>3 DEF Command
<1>2. pc' \in CASE pc = "rPlace" -> {"rPlace", "rBoot", "idle"}
               [] pc = "place" -> {"place", "boot", "look"}
               [] pc = "bPlace" -> {"bPlace", "bBoot"}
               [] pc = "putBack" -> {"putBack", "resume"}
               [] pc = "rClear" -> {"idle"}
               [] pc = "clear" -> {"putBack"}
  BY DEF Placed, NotPlaced, Placing, Moving, Advance, Enter, Finish
<1>3. /\ at' \in Comp
      /\ pc' = pc => at' = IF pc = "bPlace" THEN at - 1 ELSE at + 1
      /\ pc = "place" /\ pc' = "boot" => at' = 1
  <2>1. \/ pc \in Placing /\ \E phase \in {"rBoot", "boot", "bBoot", "resume"} : Advance(phase)
        \/ pc \in {"rPlace", "rClear"} /\ Finish("failed")
        \/ pc = "place" /\ Enter("look")
        \/ pc = "clear" /\ Enter("putBack")
    BY DEF Placed, NotPlaced, Placing, Moving
  <2>2. at \in Comp
    BY DEF TypeOK
  <2> QED
    BY <2>1, <2>2, AdvanceStep, RuntimeAssumption DEF Placing, Enter, Finish, Backward, Comp
<1> QED
  BY <1>1, <1>2, <1>3

\* A plist, ours or somebody else's, is put where none was, or nothing is.
Put ==
  /\ pc \in Moving /\ held' = None
  /\ UNCHANGED <<staged, manifest, job, taken, ghosts>>
  /\ (pc \in Placing /\ Placed) \/ NotPlaced
  /\ \/ plist' = plist
     \/ /\ ~Skipped /\ plist[at] = None
        /\ \E p \in {Wanted, held} : plist' = [plist EXCEPT ![at] = p]

\* Publishing, giving back and a removal that fails are all of that kind.
LEMMA PublishPuts ==
  ASSUME NEW r \in Outcomes, Publish(r)
  PROVE  Put
BY PublishStep DEF Put, Moving

LEMMA GiveBackPuts ==
  ASSUME SeenFits, PhaseFits, NEW private \in BOOLEAN, GiveBack(private)
  PROVE  Put
BY GiveBackStep DEF Put, PhaseFits, Placing, Moving, SeenFits

\* What a plist put in its place changes.
LEMMA PutEffect ==
  ASSUME RuntimeInv, Put
  PROVE  /\ run' \in Command
         /\ run'.old = run.old /\ run'.kind = run.kind
         /\ run'.ver = run.ver /\ run'.loaded = run.loaded
         /\ run'.halted = run.halted /\ run'.tried = run.tried
         /\ run'.touched = IF pc = "place" THEN at ELSE run.touched
         /\ pc' \in CASE pc = "rPlace" -> {"rPlace", "rBoot", "idle"}
                     [] pc = "place" -> {"place", "boot", "look"}
                     [] pc = "bPlace" -> {"bPlace", "bBoot"}
                     [] pc = "putBack" -> {"putBack", "resume"}
                     [] pc = "rClear" -> {"idle"}
                     [] pc = "clear" -> {"putBack"}
         /\ at' \in Comp
         /\ pc' = pc => at' = IF pc = "bPlace" THEN at - 1 ELSE at + 1
         /\ pc = "place" /\ pc' = "boot" => at' = 1
         /\ UNCHANGED <<staged, manifest, job, taken, ghosts>>
         /\ pc \in Moving /\ held' = None
         /\ Wanted \in Own
         /\ pc = "rPlace" => Wanted = staged[at]
         /\ pc = "place" => Wanted = run.ver
         /\ pc \in {"rClear", "clear"} => Wanted = None
         /\ pc \in {"bPlace", "putBack"} => Wanted = run.old.sha[at]
         /\ \/ plist' = plist
            \/ /\ ~Skipped /\ job[at] = None
               /\ \E p \in {Wanted, held} : plist' = [plist EXCEPT ![at] = p]
<1>1. pc \in Moving /\ ((pc \in Placing /\ Placed) \/ NotPlaced) /\ TypeOK
  BY DEF Put, RuntimeInv
<1>2. /\ Wanted \in Own
      /\ pc = "rPlace" => Wanted = staged[at]
      /\ pc = "place" => Wanted = run.ver
      /\ pc \in {"rClear", "clear"} => Wanted = None
      /\ pc \in {"bPlace", "putBack"} => Wanted = run.old.sha[at]
  BY <1>1 DEF Wanted, Placing, Moving, TypeOK, Own, Command, Book
<1>3. /\ UNCHANGED <<staged, manifest, job, taken, ghosts>> /\ held' = None
      /\ \/ plist' = plist
         \/ /\ ~Skipped /\ job[at] = None
            /\ \E p \in {Wanted, held} : plist' = [plist EXCEPT ![at] = p]
  BY DownWhileMoving DEF Put
<1> QED
  BY <1>1, <1>2, <1>3, PlacedOrNot

\* The invariant through a plist put in its place.
LEMMA PutInv ==
  ASSUME RuntimeInv, Put
  PROVE  RuntimeInv'
<1> USE RuntimeAssumption DEF RuntimeInv, All
<1>1. TypeOK'
  <2>1. plist' \in [Comp -> File]
    BY PutEffect DEF TypeOK, File
  <2> QED
    BY <2>1, PutEffect
       DEF TypeOK, Phases, Working, Recovering, InstallOnly, UninstallOnly, Undoing, Moving,
           Placing, File, Own
<1>2. JobIsItsPlist'
  BY PutEffect DEF JobIsItsPlist, TypeOK
<1>3. PhaseFits'
  BY PutEffect
     DEF PhaseFits, Moving, Placing, InstallOnly, Undoing, UninstallOnly, Recovering, Working,
         Interrupted
<1>4. StagedIsAnnounced'
  BY PutEffect DEF StagedIsAnnounced, Moving, Placing
<1>5. Progress'
  BY PutEffect DEF Progress, Moving, Placing, Recovering, PhaseFits, TypeOK, Comp
<1>6. JobsAreDown'
  BY PutEffect DEF JobsAreDown, Moving, Placing, Progress, PhaseFits
<1>7. FilesAreKnown'
  <2>1. ASSUME pc' \in Working PROVE pc \in Working /\ pc # "rPlace"
    BY <2>1, PutEffect DEF Working, InstallOnly, UninstallOnly, Undoing, Moving, Placing
  <2>2. \A c \in Comp : Mine(c)' = Mine(c)
    BY PutEffect DEF Mine
  <2>3. ASSUME pc' \in Working, NEW c \in Comp PROVE plist'[c] \in Mine(c)
    <3>1. Wanted \in Mine(at)
      BY <2>1, <2>3, PutEffect
         DEF Mine, Moving, Placing, PhaseFits, InstallOnly, UninstallOnly, Undoing
    <3> QED
      BY <3>1, <2>1, <2>3, PutEffect DEF FilesAreKnown, TypeOK
  <2> QED
    BY <2>1, <2>2, <2>3, PutEffect DEF FilesAreKnown, Mine
<1>8. Announced'
  <2>1. /\ pc = "place" => run.kind # "uninstall"
        /\ pc = "clear" => run.kind = "uninstall"
    BY DEF PhaseFits, InstallOnly, UninstallOnly
  <2> QED
    BY <2>1, PutEffect DEF Announced, Moving, Placing, Undoing, ghosts, Progress
<1>9. SettledIsTrue'
  BY MovingIsUnderWay, PutEffect DEF SettledIsTrue, ghosts
<1>10. UnannouncedIsUndone'
  BY PutEffect
     DEF UnannouncedIsUndone, Announced, Moving, Placing, ghosts, PhaseFits, UninstallOnly
<1>11. HeldIsCovered' BY PutEffect DEF HeldIsCovered
<1>12. LedgerCovers'
  <2>1. ASSUME ~overtaken, ~Skipped PROVE Wanted \in {None, manifest.sha[at], manifest.prev[at]}
    BY <2>1, PutEffect
       DEF PhaseFits, Announced, StagedIsAnnounced, Manifest, Moving, Placing, Undoing, Skipped,
           InstallOnly, UninstallOnly, TypeOK, Comp, Command
  <2> QED
    BY <2>1, PutEffect DEF LedgerCovers, HeldIsCovered, ghosts, TypeOK
<1> QED BY <1>1, <1>2, <1>3, <1>4, <1>5, <1>6, <1>7, <1>8, <1>9, <1>10, <1>11, <1>12

\* What a job brought up changes.
LEMMA BootEffect ==
  ASSUME RuntimeInv, SeenFits, NEW r \in Outcomes, Boot(r)
  PROVE  /\ run' \in Command
         /\ run'.old = run.old /\ run'.kind = run.kind
         /\ run'.ver = run.ver /\ run'.loaded = run.loaded
         /\ run'.halted = run.halted /\ run'.touched = run.touched
         /\ run'.tried = IF pc = "boot" THEN at ELSE run.tried
         /\ pc' \in CASE pc = "rBoot" -> {"rBoot", "rCommit", "idle"}
                     [] pc = "boot" -> {"boot", "commit", "look"}
                     [] pc = "bBoot" -> {"bBoot", "bSettle", "giveUp"}
                     [] pc = "reBoot" -> {"reBoot", "uSettle"}
         /\ at' \in Comp
         /\ pc = "boot" /\ pc' = pc => at' = at + 1
         /\ pc = "boot" /\ pc' = "commit" => at = Count
         /\ UNCHANGED <<plist, held, staged, manifest, taken, ghosts>> /\ pc \in Booting
         /\ job' \in [Comp -> File]
         /\ \A c \in Comp : job'[c] \in {job[c], plist[c]}
         /\ \A c \in Comp : c # at => job'[c] = job[c]
         /\ pc = "reBoot" /\ run.halted = {} => job' = job
<1> USE RuntimeAssumption DEF RuntimeInv, All
<1>1. /\ run' \in Command
      /\ run'.old = run.old /\ run'.kind = run.kind
      /\ run'.ver = run.ver /\ run'.loaded = run.loaded
      /\ run'.halted = run.halted /\ run'.touched = run.touched
      /\ run'.tried = IF pc = "boot" THEN at ELSE run.tried
  <2>1. run \in Command /\ at \in 0 .. Count
    BY DEF TypeOK, Comp
  <2>2. CASE pc = "boot"
    BY <2>1, <2>2, BootStep DEF Command
  <2>3. CASE pc # "boot"
    BY <2>1, <2>3, BootStep DEF Command
  <2> QED
    BY <2>2, <2>3
<1>2. pc' \in CASE pc = "rBoot" -> {"rBoot", "rCommit", "idle"}
               [] pc = "boot" -> {"boot", "commit", "look"}
               [] pc = "bBoot" -> {"bBoot", "bSettle", "giveUp"}
               [] pc = "reBoot" -> {"reBoot", "uSettle"}
  BY BootStep DEF Booting, Advance, Enter, Finish
<1>3. /\ at' \in Comp
      /\ pc = "boot" /\ pc' = pc => at' = at + 1
      /\ pc = "boot" /\ pc' = "commit" => at = Count
  <2>1. \/ \E phase \in {"rCommit", "commit", "bSettle", "uSettle"} : Advance(phase)
        \/ Finish("failed")
        \/ pc # "boot" /\ (Enter("giveUp") \/ Enter("uSettle"))
        \/ pc = "boot" /\ Enter("look")
    BY BootStep
  <2>2. at \in Comp /\ (pc = "boot" => ~Finish("failed"))
    BY BootStep DEF TypeOK, Finish, Advance, Enter
  <2> QED
    BY <2>1, <2>2, AdvanceStep DEF Enter, Finish, Backward, Comp
<1>4. UNCHANGED <<plist, held, staged, manifest, taken, ghosts>> /\ pc \in Booting
  BY BootStep
<1>5. /\ job' \in [Comp -> File]
      /\ \A c \in Comp : job'[c] \in {job[c], plist[c]}
      /\ \A c \in Comp : c # at => job'[c] = job[c]
      /\ pc = "reBoot" /\ run.halted = {} => job' = job
  BY BootStep DEF TypeOK
<1> QED
  BY <1>1, <1>2, <1>3, <1>4, <1>5

\* The invariant through a job brought up.
LEMMA BootInv ==
  ASSUME RuntimeInv, SeenFits, NEW r \in Outcomes, Boot(r)
  PROVE  RuntimeInv'
<1> USE RuntimeAssumption DEF RuntimeInv, All
<1>1. TypeOK'
  BY BootEffect
     DEF TypeOK, Booting, Phases, Working, Recovering, InstallOnly, UninstallOnly, Undoing
<1>2. JobIsItsPlist'
  BY BootEffect DEF JobIsItsPlist
<1>3. PhaseFits'
  BY BootEffect
     DEF PhaseFits, Booting, Placing, Moving, InstallOnly, Undoing, UninstallOnly, Recovering,
         Working, Interrupted
<1>4. StagedIsAnnounced'
  BY BootEffect DEF StagedIsAnnounced, Booting
<1>5. Progress'
  <2>4. /\ run'.kind = run.kind /\ run'.touched = run.touched /\ run'.halted = run.halted
        /\ run'.tried = (IF pc = "boot" THEN at ELSE run.tried)
        /\ pc = "boot" /\ pc' = pc => at' = at + 1
        /\ pc = "boot" /\ pc' = "commit" => at = Count
    BY BootEffect
  <2>5. pc' \in CASE pc = "rBoot" -> {"rBoot", "rCommit", "idle"}
                 [] pc = "boot" -> {"boot", "commit", "look"}
                 [] pc = "bBoot" -> {"bBoot", "bSettle", "giveUp"}
                 [] pc = "reBoot" -> {"reBoot", "uSettle"}
    BY BootEffect
  <2>6. pc \in Booting /\ at \in 1 .. Count
    BY BootEffect DEF TypeOK, Comp
  <2> QED
    BY <2>4, <2>5, <2>6 DEF Progress, Booting, Recovering
<1>6. JobsAreDown'
  <2>4. /\ run'.kind = run.kind /\ run'.touched = run.touched /\ run'.halted = run.halted
        /\ run'.tried = (IF pc = "boot" THEN at ELSE run.tried)
        /\ pc = "boot" /\ pc' = pc => at' = at + 1
        /\ pc = "boot" /\ pc' = "commit" => at = Count
    BY BootEffect
  <2>5. pc' \in CASE pc = "rBoot" -> {"rBoot", "rCommit", "idle"}
                 [] pc = "boot" -> {"boot", "commit", "look"}
                 [] pc = "bBoot" -> {"bBoot", "bSettle", "giveUp"}
                 [] pc = "reBoot" -> {"reBoot", "uSettle"}
    BY BootEffect
  <2>6. pc \in Booting /\ at \in 1 .. Count
    BY BootEffect DEF TypeOK, Comp
  <2>1. pc' \in {"boot", "look"} => pc = "boot"
    BY BootEffect DEF Booting
  <2>2. ASSUME NEW c \in Comp, pc = "boot", c > at PROVE job'[c] = None
    BY <2>2, BootEffect DEF JobsAreDown, TypeOK, Comp
  <2>3. pc' = "commit" => run.kind # "uninstall"
    BY BootEffect DEF PhaseFits, InstallOnly, Booting
  <2> QED
    BY <2>1, <2>2, <2>3, <2>4, <2>5, <2>6 DEF JobsAreDown, Booting, TypeOK, Comp
<1>7. FilesAreKnown'
  <2>1. ASSUME pc' \in Working PROVE pc \in Working
    BY <2>1, BootEffect DEF Working, InstallOnly, UninstallOnly, Undoing, Booting
  <2>2. \A c \in Comp : Mine(c)' = Mine(c)
    BY BootEffect DEF Mine
  <2>3. held = None
    BY BootEffect DEF PhaseFits, Placing, Moving, Booting
  <2> QED
    BY <2>1, <2>2, <2>3, BootEffect DEF FilesAreKnown, Mine
<1>8. Announced'
  <2>1. pc \in {"boot", "bBoot"} => run.kind # "uninstall"
    BY DEF PhaseFits, InstallOnly, Undoing
  <2> QED
    BY <2>1, BootEffect DEF Announced, Booting, Undoing, ghosts
<1>9. SettledIsTrue'
  BY BootEffect DEF SettledIsTrue, ghosts
<1>10. UnannouncedIsUndone'
  BY BootEffect DEF UnannouncedIsUndone, Booting, ghosts, Loaded, Registered
<1>11. HeldIsCovered'
  BY BootEffect DEF PhaseFits, Placing, Moving, Booting, HeldIsCovered
<1>12. LedgerCovers'
  BY BootEffect DEF LedgerCovers, ghosts
<1> QED BY <1>1, <1>2, <1>3, <1>4, <1>5, <1>6, <1>7, <1>8, <1>9, <1>10, <1>11, <1>12

\* The invariant through a label found free, which changes nothing else.
LEMMA PrepareInv ==
  ASSUME RuntimeInv, Prepare
  PROVE  RuntimeInv'
<1>0. UNCHANGED <<world, pc, at, run, ghosts>>
  BY DEF Prepare, Beyond
<1> USE <1>0 DEF RuntimeInv, world, ghosts
<1>1. TypeOK' /\ JobIsItsPlist' /\ PhaseFits' BY DEF TypeOK, JobIsItsPlist, PhaseFits
<1>2. StagedIsAnnounced' /\ Progress' /\ JobsAreDown'
  BY DEF StagedIsAnnounced, Progress, JobsAreDown
<1>3. FilesAreKnown' /\ Announced' /\ SettledIsTrue'
  BY DEF FilesAreKnown, Mine, Announced, SettledIsTrue
<1>4. UnannouncedIsUndone' /\ HeldIsCovered' /\ LedgerCovers'
  BY DEF UnannouncedIsUndone, Loaded, Registered, HeldIsCovered, LedgerCovers
<1> QED BY <1>1, <1>2, <1>3, <1>4

\* The invariant through a plist removed.
LEMMA ClearInv ==
  ASSUME RuntimeInv, NEW r \in Outcomes, Clear(r)
  PROVE  RuntimeInv'
<1>1. CASE NotPlaced
  <2>1. Put
    BY <1>1, ClearStep DEF Put, Moving, Skipped
  <2> QED
    BY <2>1, PutInv
<1>2. ASSUME ~NotPlaced
      PROVE  /\ plist' = plist /\ Advance(IF pc = "clear" THEN "commit" ELSE "rCommit")
             /\ run' = run
  BY <1>2 DEF Clear
<1>3. ASSUME ~NotPlaced PROVE RuntimeInv'
  <2> USE RuntimeAssumption, <1>2, <1>3, ClearStep DEF RuntimeInv, All
  <2>1. at' \in Comp /\ pc' \in (IF pc = "clear" THEN {"clear", "commit"} ELSE {"rClear", "rCommit"})
    BY AdvanceStep DEF TypeOK, Advance, Enter
  <2>2. TypeOK'
    BY <2>1 DEF UninstallOnly, Working, Recovering, Phases, File, Own, TypeOK
  <2>3. JobIsItsPlist' BY DEF JobIsItsPlist
  <2>4. PhaseFits'
    BY <2>1 DEF PhaseFits, Undoing, InstallOnly, UninstallOnly, Working, Recovering, Interrupted
  <2>5. StagedIsAnnounced' BY <2>1 DEF StagedIsAnnounced
  <2>6. Progress' BY <2>1 DEF UninstallOnly, Recovering, Progress, PhaseFits
  <2>7. JobsAreDown' BY DEF JobsAreDown
  <2>8. FilesAreKnown'
    BY <2>1 DEF Undoing, InstallOnly, UninstallOnly, Working, FilesAreKnown, Mine
  <2>9. Announced' BY <2>1 DEF ghosts, Undoing, UninstallOnly, Announced, PhaseFits
  <2>10. SettledIsTrue' BY DEF ghosts, SettledIsTrue
  <2>11. UnannouncedIsUndone' BY <2>1 DEF UnannouncedIsUndone
  <2>12. HeldIsCovered' BY DEF HeldIsCovered
  <2>13. LedgerCovers' BY DEF LedgerCovers, ghosts
  <2> QED
    BY <2>2, <2>3, <2>4, <2>5, <2>6, <2>7, <2>8, <2>9, <2>10, <2>11, <2>12, <2>13
<1> QED
  BY <1>1, <1>3

\* The invariant through the settled record.
LEMMA CommitInv ==
  ASSUME RuntimeInv, NEW r \in Outcomes, Commit(r)
  PROVE  RuntimeInv'
<1> USE RuntimeAssumption DEF RuntimeInv, All
<1>1. TypeOK'
  BY CommitStep
     DEF Manifest, Comp, Undoing, InstallOnly, UninstallOnly, Working, Phases, Own, States,
         Book, Command, Settled, TypeOK
<1>2. JobIsItsPlist' BY CommitStep DEF JobIsItsPlist
<1>3. PhaseFits'
  BY CommitStep
     DEF Undoing, InstallOnly, UninstallOnly, Working, Recovering, Settled, Interrupted,
         Placing, Moving, PhaseFits
<1>4. StagedIsAnnounced' BY CommitStep DEF Manifest, StagedIsAnnounced
<1>5. Progress' BY CommitStep DEF Recovering, Progress
<1>6. JobsAreDown' BY CommitStep DEF Comp, JobsAreDown, Progress
<1>7. FilesAreKnown'
  BY CommitStep
     DEF Undoing, InstallOnly, UninstallOnly, Working, Placing, Moving, FilesAreKnown, PhaseFits,
         Mine
<1>8. Announced'
  <2>1. pc' \in {"look", "putBack"} => overtaken' \/ manifest' = manifest
    BY DEF Commit, Replaced, Enter, Finish
  <2> QED
    BY <2>1, CommitStep DEF Announced, Undoing
<1>9. SettledIsTrue' BY CommitStep DEF AllRun, AllGone, Manifest, SettledIsTrue
<1>10. UnannouncedIsUndone' BY CommitStep DEF UnannouncedIsUndone
<1>11. HeldIsCovered' BY CommitStep DEF Placing, Moving, HeldIsCovered, PhaseFits
<1>12. LedgerCovers'
  BY CommitStep DEF AllRun, AllGone, Manifest, Own, Command, LedgerCovers, TypeOK, JobIsItsPlist
<1> QED BY <1>1, <1>2, <1>3, <1>4, <1>5, <1>6, <1>7, <1>8, <1>9, <1>10, <1>11, <1>12

\* The invariant through rollback finding out what it needs.
LEMMA RecheckInv ==
  ASSUME RuntimeInv, NEW r \in Outcomes, Recheck(r)
  PROVE  RuntimeInv'
<1> USE RuntimeAssumption DEF RuntimeInv, All
<1>1. TypeOK' BY RecheckStep DEF Comp, world, Recovering, Phases, TypeOK
<1>2. JobIsItsPlist' BY RecheckStep DEF world, JobIsItsPlist
<1>3. PhaseFits'
  BY RecheckStep
     DEF world, Undoing, InstallOnly, UninstallOnly, Working, Recovering, Placing, Moving, PhaseFits
<1>4. StagedIsAnnounced' BY RecheckStep DEF world, StagedIsAnnounced
<1>5. Progress' BY RecheckStep DEF Recovering, Progress
<1>6. JobsAreDown'
  BY RecheckStep DEF JobsAreDown, TypeOK, Comp, world
<1>7. FilesAreKnown'
  BY RecheckStep DEF Undoing, InstallOnly, UninstallOnly, Working, FilesAreKnown
<1>8. Announced' BY RecheckStep DEF Recovering, Announced, Progress
<1>9. SettledIsTrue' BY RecheckStep DEF ghosts, world, SettledIsTrue
<1>10. UnannouncedIsUndone' BY RecheckStep DEF UnannouncedIsUndone
<1>11. HeldIsCovered' BY RecheckStep DEF world, Placing, Moving, HeldIsCovered, PhaseFits
<1>12. LedgerCovers' BY RecheckStep DEF ghosts, world, LedgerCovers
<1> QED BY <1>1, <1>2, <1>3, <1>4, <1>5, <1>6, <1>7, <1>8, <1>9, <1>10, <1>11, <1>12

\* The invariant through rollback bringing a job down.
LEMMA RHaltInv ==
  ASSUME RuntimeInv, NEW r \in Outcomes, RHalt(r)
  PROVE  RuntimeInv'
<1> USE RuntimeAssumption DEF RuntimeInv, All
<1>1. TypeOK'
  BY RHaltStep
     DEF Unloaded, Advance, Enter, Last, Finish, Comp, Recovering, Phases, Own, File, TypeOK
<1>2. JobIsItsPlist' BY RHaltStep DEF Unloaded, JobIsItsPlist, TypeOK
<1>3. PhaseFits'
  BY RHaltStep
     DEF Advance, Enter, Finish, Undoing, InstallOnly, UninstallOnly, Working, Recovering,
         Interrupted, Placing, Moving, PhaseFits
<1>4. StagedIsAnnounced' BY RHaltStep DEF Advance, Enter, Finish, StagedIsAnnounced
<1>5. Progress' BY RHaltStep DEF Advance, Enter, Finish, Recovering, Progress
<1>6. JobsAreDown'
  BY RHaltStep
     DEF Unloaded, Advance, Last, Backward, Finish, Comp, Kinds, Command, JobsAreDown, TypeOK
<1>7. FilesAreKnown'
  BY RHaltStep
     DEF Advance, Enter, Finish, Undoing, InstallOnly, UninstallOnly, Working, FilesAreKnown
<1>8. Announced' BY RHaltStep DEF Advance, Enter, Finish, Recovering, Announced, Progress
<1>9. SettledIsTrue' BY RHaltStep DEF Recovering, Settled, Interrupted, SettledIsTrue, PhaseFits
<1>10. UnannouncedIsUndone' BY RHaltStep DEF Advance, Enter, Finish, UnannouncedIsUndone
<1>11. HeldIsCovered' BY RHaltStep DEF Placing, Moving, HeldIsCovered, PhaseFits
<1>12. LedgerCovers' BY RHaltStep DEF Unloaded, ghosts, LedgerCovers, TypeOK
<1> QED BY <1>1, <1>2, <1>3, <1>4, <1>5, <1>6, <1>7, <1>8, <1>9, <1>10, <1>11, <1>12

\* The invariant through recovery looking at what is there.
LEMMA LookInv ==
  ASSUME RuntimeInv, NEW r \in Outcomes, Look(r)
  PROVE  RuntimeInv'
<1> USE RuntimeAssumption DEF RuntimeInv, All
<1>1. TypeOK' BY LookStep DEF Comp, world, Undoing, InstallOnly, Working, Phases, TypeOK
<1>2. JobIsItsPlist' BY LookStep DEF world, JobIsItsPlist
<1>3. PhaseFits'
  BY LookStep
     DEF world, Undoing, InstallOnly, UninstallOnly, Working, Recovering, Placing, Moving, PhaseFits
<1>4. StagedIsAnnounced' BY LookStep DEF world, StagedIsAnnounced
<1>5. Progress' BY LookStep DEF Recovering, Progress
<1>6. JobsAreDown'
  BY LookStep DEF JobsAreDown, TypeOK, Comp, world
<1>7. FilesAreKnown'
  BY LookStep DEF world, Recovering, Phases, Placing, Moving, FilesAreKnown, TypeOK, PhaseFits, Mine
<1>8. Announced' BY LookStep DEF ghosts, world, Undoing, Announced
<1>9. SettledIsTrue' BY LookStep DEF ghosts, world, SettledIsTrue
<1>10. UnannouncedIsUndone' BY LookStep DEF UnannouncedIsUndone
<1>11. HeldIsCovered' BY LookStep DEF world, Placing, Moving, HeldIsCovered, PhaseFits
<1>12. LedgerCovers' BY LookStep DEF ghosts, world, LedgerCovers
<1> QED BY <1>1, <1>2, <1>3, <1>4, <1>5, <1>6, <1>7, <1>8, <1>9, <1>10, <1>11, <1>12

\* The invariant through recovery bringing a job down.
LEMMA BHaltInv ==
  ASSUME RuntimeInv, NEW r \in Outcomes, BHalt(r)
  PROVE  RuntimeInv'
<1> USE RuntimeAssumption DEF RuntimeInv, All
<1>1. TypeOK'
  BY BHaltStep
     DEF Unloaded, Advance, Enter, Last, Comp, Undoing, InstallOnly, Working, Phases, Own, File,
         TypeOK
<1>2. JobIsItsPlist' BY BHaltStep DEF Unloaded, JobIsItsPlist, TypeOK
<1>3. PhaseFits'
  BY BHaltStep
     DEF Advance, Enter, Undoing, InstallOnly, UninstallOnly, Working, Recovering, Placing, Moving,
         PhaseFits
<1>4. StagedIsAnnounced' BY BHaltStep DEF Advance, Enter, StagedIsAnnounced
<1>5. Progress' BY BHaltStep DEF Advance, Enter, Recovering, Progress
<1>6. JobsAreDown'
  <2>1. \A c \in Comp : job[c] = None => job'[c] = None
    BY BHaltStep DEF Unloaded, TypeOK
  <2>2. CASE pc' = "giveUp"
    BY <2>2 DEF JobsAreDown
  <2>3. CASE Advance("bPlace")
    <3>1. job'[at] = None \/ at > run.tried
      BY <2>3, BHaltStep
         DEF Unloaded, Tried, Loaded, Registered, Advance, Enter, TypeOK, Comp, Command
    <3>2. \A c \in Comp : c >= at => job'[c] = None \/ c > run.tried
      BY <2>1, <3>1, BHaltStep DEF JobsAreDown, TypeOK, Comp, Command
    <3>3. (pc' = "bHalt" /\ at' = at - 1) \/ (pc' = "bPlace" /\ at = 1)
      <4>1. at \in Comp /\ pc = "bHalt"
        BY BHaltStep DEF TypeOK
      <4> QED
        BY <2>3, <4>1, AdvanceStep DEF Backward
    <3> QED
      BY <2>1, <3>2, <3>3, BHaltStep DEF JobsAreDown, TypeOK, Comp, Command
  <2> QED
    BY <2>2, <2>3, BHaltStep
<1>7. FilesAreKnown'
  BY BHaltStep
     DEF Unloaded, Undoing, InstallOnly, Working, Placing, Moving, FilesAreKnown, TypeOK, PhaseFits,
         Mine
<1>8. Announced' BY BHaltStep DEF Tried, Advance, Enter, ghosts, Undoing, Announced
<1>9. SettledIsTrue' BY BHaltStep DEF ghosts, SettledIsTrue
<1>10. UnannouncedIsUndone' BY BHaltStep DEF Advance, Enter, UnannouncedIsUndone
<1>11. HeldIsCovered' BY BHaltStep DEF Placing, Moving, HeldIsCovered, PhaseFits
<1>12. LedgerCovers' BY BHaltStep DEF Unloaded, Tried, ghosts, LedgerCovers, TypeOK
<1> QED BY <1>1, <1>2, <1>3, <1>4, <1>5, <1>6, <1>7, <1>8, <1>9, <1>10, <1>11, <1>12

\* The invariant through a failed command's settled record.
LEMMA BSettleInv ==
  ASSUME RuntimeInv, NEW r \in Outcomes, BSettle(r)
  PROVE  RuntimeInv'
<1> USE RuntimeAssumption DEF RuntimeInv, All
<1>1. TypeOK' BY BSettleStep DEF Comp, Undoing, InstallOnly, Working, Phases, Command, TypeOK
<1>2. JobIsItsPlist' BY BSettleStep DEF JobIsItsPlist
<1>3. PhaseFits'
  BY BSettleStep
     DEF Undoing, InstallOnly, UninstallOnly, Working, Recovering, Placing, Moving, PhaseFits
<1>4. StagedIsAnnounced'
  BY BSettleStep DEF Undoing, InstallOnly, Working, Interrupted, StagedIsAnnounced, PhaseFits
<1>5. Progress' BY BSettleStep DEF Recovering, Progress
<1>6. JobsAreDown' BY BSettleStep DEF JobsAreDown
<1>7. FilesAreKnown'
  BY BSettleStep DEF Undoing, InstallOnly, Working, Placing, Moving, FilesAreKnown, PhaseFits, Mine
<1>8. Announced' BY BSettleStep DEF Undoing, Announced
<1>9. SettledIsTrue' BY BSettleStep DEF Restored, SettledIsTrue
<1>10. UnannouncedIsUndone' BY BSettleStep DEF UnannouncedIsUndone
<1>11. HeldIsCovered' BY BSettleStep DEF Placing, Moving, HeldIsCovered, PhaseFits
<1>12. LedgerCovers'
  BY BSettleStep DEF Restored, Own, Book, Command, LedgerCovers, TypeOK, JobIsItsPlist
<1> QED BY <1>1, <1>2, <1>3, <1>4, <1>5, <1>6, <1>7, <1>8, <1>9, <1>10, <1>11, <1>12

\* The invariant through a command that gives up.
LEMMA GiveUpInv ==
  ASSUME RuntimeInv, NEW r \in Outcomes, GiveUp(r)
  PROVE  RuntimeInv'
<1> USE RuntimeAssumption DEF RuntimeInv, All
<1>1. TypeOK' BY GiveUpStep DEF Manifest, Comp, Phases, Own, States, Book, Command, TypeOK
<1>2. JobIsItsPlist' BY GiveUpStep DEF JobIsItsPlist
<1>3. PhaseFits'
  BY GiveUpStep DEF UninstallOnly, Working, Recovering, Phases, Placing, Moving, PhaseFits, TypeOK
<1>4. StagedIsAnnounced' BY GiveUpStep DEF Manifest, StagedIsAnnounced
<1>5. Progress' BY GiveUpStep DEF Recovering, Progress
<1>6. JobsAreDown' BY GiveUpStep DEF JobsAreDown
<1>7. FilesAreKnown'
  BY GiveUpStep DEF Recovering, Phases, Placing, Moving, FilesAreKnown, TypeOK, PhaseFits, Mine
<1>8. Announced' BY GiveUpStep DEF Undoing, Announced
<1>9. SettledIsTrue' BY GiveUpStep DEF Manifest, Settled, SettledIsTrue
<1>10. UnannouncedIsUndone' BY GiveUpStep DEF UnannouncedIsUndone
<1>11. HeldIsCovered' BY GiveUpStep DEF Placing, Moving, HeldIsCovered, PhaseFits
<1>12. LedgerCovers'
  BY GiveUpStep DEF Manifest, Recovering, Phases, LedgerCovers, TypeOK, FilesAreKnown, Mine
<1> QED BY <1>1, <1>2, <1>3, <1>4, <1>5, <1>6, <1>7, <1>8, <1>9, <1>10, <1>11, <1>12

\* What a command that takes up an interrupted one changes.
LEMMA ResumeEffect ==
  ASSUME RuntimeInv, NEW r \in Outcomes, Resume(r)
  PROVE  /\ run' \in Command
         /\ run'.old = run.old /\ run'.kind = run.kind
         /\ run'.ver = run.ver /\ run'.loaded = run.loaded
         /\ run'.halted = run.halted /\ run'.touched = run.touched /\ run'.tried = run.tried
<1> USE RuntimeAssumption DEF RuntimeInv, All
<1>1. /\ run' \in Command
      /\ run'.old = run.old /\ run'.kind = run.kind
      /\ run'.ver = run.ver /\ run'.loaded = run.loaded
      /\ run'.halted = run.halted /\ run'.touched = run.touched /\ run'.tried = run.tried
  BY ResumeStep DEF TypeOK, Command
<1> QED
  BY <1>1

\* The invariant through a command that takes up an interrupted one.
LEMMA ResumeInv ==
  ASSUME RuntimeInv, NEW r \in Outcomes, Resume(r)
  PROVE  RuntimeInv'
<1> USE RuntimeAssumption DEF RuntimeInv, All
<1>1. TypeOK'
  BY ResumeEffect, ResumeStep DEF TypeOK, world, Phases, Working, UninstallOnly, Comp
<1>2. JobIsItsPlist' BY ResumeStep DEF world, JobIsItsPlist
<1>3. PhaseFits'
  BY ResumeStep
     DEF world, Undoing, InstallOnly, UninstallOnly, Working, Recovering, Command, Placing, Moving,
         PhaseFits, TypeOK
<1>4. StagedIsAnnounced' BY ResumeStep DEF world, StagedIsAnnounced
<1>5. Progress' BY ResumeStep DEF Recovering, Progress
<1>6. JobsAreDown' BY ResumeStep DEF JobsAreDown
<1>7. FilesAreKnown'
  BY ResumeStep
     DEF world, Recovering, Phases, Command, Placing, Moving, FilesAreKnown, TypeOK, PhaseFits, Mine
<1>8. Announced' BY ResumeStep DEF Undoing, Announced
<1>9. SettledIsTrue' BY ResumeStep DEF ghosts, world, SettledIsTrue
<1>10. UnannouncedIsUndone'
  BY ResumeEffect, ResumeStep DEF UnannouncedIsUndone, world, ghosts, Loaded, Registered
<1>11. HeldIsCovered' BY ResumeStep DEF world, Placing, Moving, HeldIsCovered, PhaseFits
<1>12. LedgerCovers' BY ResumeStep DEF ghosts, world, LedgerCovers
<1> QED BY <1>1, <1>2, <1>3, <1>4, <1>5, <1>6, <1>7, <1>8, <1>9, <1>10, <1>11, <1>12

\* The invariant through an uninstall's settled record.
LEMMA USettleInv ==
  ASSUME RuntimeInv, NEW r \in Outcomes, USettle(r)
  PROVE  RuntimeInv'
<1> USE RuntimeAssumption DEF RuntimeInv, All
<1>1. TypeOK'
  BY USettleStep DEF Manifest, Comp, Phases, Own, File, States, Book, Kinds, Command, TypeOK
<1>2. JobIsItsPlist' BY USettleStep DEF JobIsItsPlist
<1>3. PhaseFits'
  BY USettleStep
     DEF Undoing, InstallOnly, UninstallOnly, Working, Recovering, Placing, Moving, PhaseFits
<1>4. StagedIsAnnounced'
  BY USettleStep
     DEF Manifest, Recovering, Phases, Interrupted, StagedIsAnnounced, TypeOK, PhaseFits
<1>5. Progress' BY USettleStep DEF Recovering, Progress
<1>6. JobsAreDown' BY USettleStep DEF JobsAreDown
<1>7. FilesAreKnown'
  BY USettleStep DEF Recovering, Phases, Placing, Moving, FilesAreKnown, TypeOK, PhaseFits, Mine
<1>8. Announced' BY USettleStep DEF Undoing, Announced
<1>9. SettledIsTrue' BY USettleStep DEF Restored, Manifest, Settled, SettledIsTrue
<1>10. UnannouncedIsUndone' BY USettleStep DEF UnannouncedIsUndone
<1>11. HeldIsCovered' BY USettleStep DEF Placing, Moving, HeldIsCovered, PhaseFits
<1>12. LedgerCovers'
  BY USettleStep
     DEF Manifest, UninstallOnly, Working, LedgerCovers, PhaseFits, FilesAreKnown, Mine
<1> QED BY <1>1, <1>2, <1>3, <1>4, <1>5, <1>6, <1>7, <1>8, <1>9, <1>10, <1>11, <1>12

\* The invariant through the operator starting a command.
LEMMA StartInv ==
  ASSUME RuntimeInv, NEW kind \in Kinds, NEW v \in Versions, Start(kind, v)
  PROVE  RuntimeInv'
<1> USE RuntimeAssumption DEF RuntimeInv, All
<1>1. TypeOK'
  BY DEF Start, Fresh, NoManifest, Manifest, Enter, Comp, world, Recovering, Phases, Own,
         States, Book, Command, Settled, TypeOK
<1>2. JobIsItsPlist' BY DEF Start, world, JobIsItsPlist
<1>3. PhaseFits'
  BY DEF Start, Enter, world, Undoing, InstallOnly, UninstallOnly, Working, Recovering, Placing,
         Moving, PhaseFits
<1>4. StagedIsAnnounced' BY DEF Start, Enter, world, StagedIsAnnounced
<1>5. Progress' BY DEF Start, Fresh, Enter, Progress
<1>6. JobsAreDown' BY DEF Start, Enter, JobsAreDown
<1>7. FilesAreKnown'
  BY DEF Start, Enter, Undoing, InstallOnly, UninstallOnly, Working, FilesAreKnown
<1>8. Announced' BY DEF Start, Fresh, Enter, Announced
<1>9. SettledIsTrue' BY DEF Start, ghosts, world, SettledIsTrue
<1>10. UnannouncedIsUndone' BY DEF Start, Enter, UnannouncedIsUndone
<1>11. HeldIsCovered' BY DEF Start, world, Placing, Moving, HeldIsCovered, PhaseFits
<1>12. LedgerCovers' BY DEF Start, ghosts, world, LedgerCovers
<1> QED BY <1>1, <1>2, <1>3, <1>4, <1>5, <1>6, <1>7, <1>8, <1>9, <1>10, <1>11, <1>12

\* The invariant through a command that is killed.
LEMMA KillInv ==
  ASSUME RuntimeInv, Kill
  PROVE  RuntimeInv'
<1> USE RuntimeAssumption DEF RuntimeInv, All
<1>1. TypeOK' BY DEF Kill, Finish, Comp, Phases, File, Own, TypeOK
<1>2. JobIsItsPlist' BY DEF Kill, JobIsItsPlist
<1>3. PhaseFits'
  BY DEF Kill, Finish, Undoing, InstallOnly, UninstallOnly, Working, Recovering, PhaseFits
<1>4. StagedIsAnnounced' BY DEF Kill, Finish, StagedIsAnnounced
<1>5. Progress' BY DEF Kill, Finish, Recovering, Progress
<1>6. JobsAreDown' BY DEF Kill, Finish, JobsAreDown
<1>7. FilesAreKnown'
  BY DEF Kill, Finish, Undoing, InstallOnly, UninstallOnly, Working, FilesAreKnown
<1>8. Announced' BY DEF Kill, Finish, Undoing, Announced
<1>9. SettledIsTrue' BY DEF Kill, Rest, Beyond, ghosts, SettledIsTrue
<1>10. UnannouncedIsUndone' BY DEF Kill, Finish, UnannouncedIsUndone
<1>11. HeldIsCovered' BY DEF Kill, HeldIsCovered
<1>12. LedgerCovers' BY DEF Kill, Rest, Beyond, ghosts, LedgerCovers
<1> QED BY <1>1, <1>2, <1>3, <1>4, <1>5, <1>6, <1>7, <1>8, <1>9, <1>10, <1>11, <1>12

\* The invariant through a reboot.
LEMMA RebootInv ==
  ASSUME RuntimeInv, Reboot
  PROVE  RuntimeInv'
<1> USE RuntimeAssumption DEF RuntimeInv, All
<1>1. TypeOK' BY DEF Reboot, Finish, Comp, Phases, File, Own, TypeOK
<1>2. JobIsItsPlist' BY DEF Reboot, JobIsItsPlist
<1>3. PhaseFits'
  BY DEF Reboot, Finish, Undoing, InstallOnly, UninstallOnly, Working, Recovering, PhaseFits
<1>4. StagedIsAnnounced' BY DEF Reboot, Finish, StagedIsAnnounced
<1>5. Progress' BY DEF Reboot, Finish, Recovering, Progress
<1>6. JobsAreDown' BY DEF Reboot, Finish, JobsAreDown
<1>7. FilesAreKnown'
  BY DEF Reboot, Finish, Undoing, InstallOnly, UninstallOnly, Working, FilesAreKnown
<1>8. Announced' BY DEF Reboot, Finish, Undoing, Announced
<1>9. SettledIsTrue' BY DEF Reboot, SettledIsTrue
<1>10. UnannouncedIsUndone' BY DEF Reboot, Finish, UnannouncedIsUndone
<1>11. HeldIsCovered' BY DEF Reboot, HeldIsCovered
<1>12. LedgerCovers' BY DEF Reboot, LedgerCovers
<1> QED BY <1>1, <1>2, <1>3, <1>4, <1>5, <1>6, <1>7, <1>8, <1>9, <1>10, <1>11, <1>12

\* The invariant through a stranger on the port.
LEMMA SquatInv ==
  ASSUME RuntimeInv, NEW c \in Comp, Squat(c)
  PROVE  RuntimeInv'
<1> USE RuntimeAssumption DEF RuntimeInv, All
<1>1. TypeOK' BY DEF Squat, TypeOK
<1>2. JobIsItsPlist' BY DEF Squat, JobIsItsPlist
<1>3. PhaseFits' BY DEF Squat, PhaseFits
<1>4. StagedIsAnnounced' BY DEF Squat, StagedIsAnnounced
<1>5. Progress' BY DEF Squat, Progress
<1>6. JobsAreDown' BY DEF Squat, JobsAreDown
<1>7. FilesAreKnown' BY DEF Squat, FilesAreKnown, Mine
<1>8. Announced' BY DEF Squat, Rest, Beyond, ghosts, Announced
<1>9. SettledIsTrue' BY DEF Squat, Rest, Beyond, ghosts, SettledIsTrue
<1>10. UnannouncedIsUndone' BY DEF Squat, Rest, Beyond, ghosts, UnannouncedIsUndone, Loaded,
                                   Registered
<1>11. HeldIsCovered' BY DEF Squat, Rest, Beyond, ghosts, HeldIsCovered
<1>12. LedgerCovers' BY DEF Squat, Rest, Beyond, ghosts, LedgerCovers
<1> QED BY <1>1, <1>2, <1>3, <1>4, <1>5, <1>6, <1>7, <1>8, <1>9, <1>10, <1>11, <1>12

\* The invariant through a stranger leaving it.
LEMMA LeaveInv ==
  ASSUME RuntimeInv, NEW c \in Comp, Leave(c)
  PROVE  RuntimeInv'
<1> USE RuntimeAssumption DEF RuntimeInv, All
<1>1. TypeOK' BY DEF Leave, TypeOK
<1>2. JobIsItsPlist' BY DEF Leave, JobIsItsPlist
<1>3. PhaseFits' BY DEF Leave, PhaseFits
<1>4. StagedIsAnnounced' BY DEF Leave, StagedIsAnnounced
<1>5. Progress' BY DEF Leave, Progress
<1>6. JobsAreDown' BY DEF Leave, JobsAreDown
<1>7. FilesAreKnown' BY DEF Leave, FilesAreKnown, Mine
<1>8. Announced' BY DEF Leave, Rest, Beyond, ghosts, Announced
<1>9. SettledIsTrue' BY DEF Leave, Rest, Beyond, ghosts, SettledIsTrue
<1>10. UnannouncedIsUndone' BY DEF Leave, Rest, Beyond, ghosts, UnannouncedIsUndone, Loaded,
                                   Registered
<1>11. HeldIsCovered' BY DEF Leave, Rest, Beyond, ghosts, HeldIsCovered
<1>12. LedgerCovers' BY DEF Leave, Rest, Beyond, ghosts, LedgerCovers
<1> QED BY <1>1, <1>2, <1>3, <1>4, <1>5, <1>6, <1>7, <1>8, <1>9, <1>10, <1>11, <1>12

\* The invariant through somebody else's file in a plist's place.
LEMMA MeddleInv ==
  ASSUME RuntimeInv, NEW c \in Comp, Meddle(c)
  PROVE  RuntimeInv'
<1> USE RuntimeAssumption DEF RuntimeInv, All
<1>1. TypeOK' BY DEF Meddle, File, TypeOK
<1>2. JobIsItsPlist' BY DEF Meddle, JobIsItsPlist
<1>3. PhaseFits' BY DEF Meddle, PhaseFits
<1>4. StagedIsAnnounced' BY DEF Meddle, StagedIsAnnounced
<1>5. Progress' BY DEF Meddle, Progress
<1>6. JobsAreDown' BY DEF Meddle, JobsAreDown
<1>7. FilesAreKnown' BY DEF Meddle, FilesAreKnown, Mine
<1>8. Announced' BY DEF Meddle, Rest, Beyond, ghosts, Announced
<1>9. SettledIsTrue' BY DEF Meddle, Rest, Beyond, ghosts, SettledIsTrue
<1>10. UnannouncedIsUndone' BY DEF Meddle, Rest, Beyond, ghosts, UnannouncedIsUndone, Loaded,
                                   Registered
<1>11. HeldIsCovered' BY DEF Meddle, Rest, Beyond, ghosts, HeldIsCovered
<1>12. LedgerCovers' BY DEF Meddle, Rest, Beyond, ghosts, LedgerCovers
<1> QED BY <1>1, <1>2, <1>3, <1>4, <1>5, <1>6, <1>7, <1>8, <1>9, <1>10, <1>11, <1>12

\* The invariant through the operator's own bootout.
LEMMA OperatorBootoutInv ==
  ASSUME RuntimeInv, NEW c \in Comp, OperatorBootout(c)
  PROVE  RuntimeInv'
<1> USE RuntimeAssumption DEF RuntimeInv, All
<1>1. TypeOK' BY DEF OperatorBootout, Unloaded, Own, File, TypeOK
<1>2. JobIsItsPlist' BY DEF OperatorBootout, Unloaded, JobIsItsPlist
<1>3. PhaseFits' BY DEF OperatorBootout, PhaseFits
<1>4. StagedIsAnnounced' BY DEF OperatorBootout, StagedIsAnnounced
<1>5. Progress' BY DEF OperatorBootout, Progress
<1>6. JobsAreDown' BY DEF OperatorBootout, JobsAreDown
<1>7. FilesAreKnown' BY DEF OperatorBootout, Unloaded, FilesAreKnown, Mine
<1>8. Announced' BY DEF OperatorBootout, Rest, Beyond, ghosts, Announced
<1>9. SettledIsTrue' BY DEF OperatorBootout, Rest, Beyond, ghosts, SettledIsTrue
<1>10. UnannouncedIsUndone' BY DEF OperatorBootout, UnannouncedIsUndone
<1>11. HeldIsCovered' BY DEF OperatorBootout, Placing, Moving, HeldIsCovered, PhaseFits
<1>12. LedgerCovers' BY DEF OperatorBootout, Unloaded, Rest, Beyond, ghosts, LedgerCovers
<1> QED BY <1>1, <1>2, <1>3, <1>4, <1>5, <1>6, <1>7, <1>8, <1>9, <1>10, <1>11, <1>12

-----------------------------------------------------------------------------
(* What follows from it                                                    *)

\* The machine begins in order.
LEMMA InitRuntimeInv == Init => RuntimeInv
<1> SUFFICES ASSUME Init PROVE RuntimeInv
  OBVIOUS
<1> USE RuntimeAssumption DEF Init, All, NoManifest, Manifest, Fresh
<1>1. PICK v \in Versions : run = Fresh("install", v)
  BY DEF Fresh
<1>2. TypeOK
  <2>1. manifest \in Book
    BY DEF Book, States, Settled, Own
  <2>2. run \in Command
    BY <1>1, <2>1 DEF Command, Kinds
  <2>3. 1 \in Comp /\ "idle" \in Phases
    BY DEF Comp, Phases
  <2> QED
    BY <2>1, <2>2, <2>3 DEF TypeOK, File, Own
<1>3. JobIsItsPlist /\ PhaseFits
  BY DEF JobIsItsPlist, PhaseFits, InstallOnly, Undoing, UninstallOnly, Recovering, Working
<1>4. StagedIsAnnounced /\ Progress /\ JobsAreDown
  BY DEF StagedIsAnnounced, Progress, JobsAreDown, Recovering
<1>5. FilesAreKnown /\ Announced /\ UnannouncedIsUndone
  BY DEF FilesAreKnown, Announced, UnannouncedIsUndone, Working, InstallOnly, UninstallOnly,
         Undoing
<1>6. SettledIsTrue /\ HeldIsCovered /\ LedgerCovers
  BY DEF SettledIsTrue, HeldIsCovered, LedgerCovers
<1> QED
  BY <1>2, <1>3, <1>4, <1>5, <1>6 DEF RuntimeInv

\* What changes nothing leaves it in order.
LEMMA StutterRuntimeInv == RuntimeInv /\ UNCHANGED vars => RuntimeInv'
BY DEF RuntimeInv, vars, world, ghosts, TypeOK, JobIsItsPlist, PhaseFits, StagedIsAnnounced,
       Progress, JobsAreDown, FilesAreKnown, Mine, Announced, SettledIsTrue,
       UnannouncedIsUndone, Loaded, Registered, HeldIsCovered, LedgerCovers, Placing, Moving

\* Every step leaves the machine in order.
LEMMA StepRuntimeInv == RuntimeInv /\ SeenFits /\ [Next]_vars => RuntimeInv'
<1> SUFFICES ASSUME RuntimeInv, SeenFits, [Next]_vars PROVE RuntimeInv'
  OBVIOUS
<1>1. ASSUME NEW r \in Outcomes,
             Plan(r) \/ Intent(r) \/ Halt(r) \/ Publish(r) \/ Boot(r) \/ Clear(r) \/ Commit(r)
      PROVE  RuntimeInv'
  BY <1>1, PlanInv, IntentInv, HaltInv, PublishPuts, PutInv, BootInv, ClearInv, CommitInv
<1>2. ASSUME NEW r \in Outcomes,
             Recheck(r) \/ RHalt(r) \/ Look(r) \/ BHalt(r) \/ BSettle(r) \/ GiveUp(r)
             \/ Resume(r) \/ USettle(r)
      PROVE  RuntimeInv'
  BY <1>2, RecheckInv, RHaltInv, LookInv, BHaltInv, BSettleInv, GiveUpInv, ResumeInv, USettleInv
<1>3. ASSUME NEW private \in BOOLEAN, GiveBack(private) PROVE RuntimeInv'
  BY <1>3, GiveBackPuts, PutInv DEF RuntimeInv
<1>4. ASSUME Prepare PROVE RuntimeInv'
  BY <1>4, PrepareInv
<1>5. ASSUME Step PROVE RuntimeInv'
  BY <1>1, <1>2, <1>3, <1>4, <1>5, StageInv, MatchInv, DisplaceInv DEF Step
<1>6. ASSUME Environment PROVE RuntimeInv'
  BY <1>6, KillInv, RebootInv, SquatInv, LeaveInv, MeddleInv, OperatorBootoutInv DEF Environment
<1>7. ASSUME NEW kind \in Kinds, NEW v \in Versions, Start(kind, v) PROVE RuntimeInv'
  BY <1>7, StartInv
<1>8. CASE UNCHANGED vars
  BY <1>8, StutterRuntimeInv
<1> QED
  BY <1>5, <1>6, <1>7, <1>8 DEF Next, Kinds

\* What a check finds stays where it is until the step that acts upon it.
LEMMA StepSeenFits == RuntimeInv /\ SeenFits /\ [Next]_vars => SeenFits'
<1> SUFFICES ASSUME RuntimeInv, SeenFits, [Next]_vars PROVE SeenFits'
  OBVIOUS
<1> USE RuntimeAssumption
<1>1. ASSUME seen' = None, held' = None PROVE SeenFits'
  BY <1>1 DEF SeenFits, Own
<1>2. pc \notin Moving \cup Booting => seen = None /\ held = None
  BY DEF SeenFits
<1>3. ASSUME NEW r \in Outcomes, Publish(r) \/ Clear(r) PROVE SeenFits'
  BY <1>1, <1>3 DEF Publish, Clear
<1>4. ASSUME NEW r \in Outcomes, Boot(r) PROVE SeenFits'
  <2>1. held = None
    BY <1>4 DEF Boot, RuntimeInv, PhaseFits, Moving, Placing, Booting
  <2> QED
    BY <1>1, <1>4, <2>1 DEF Boot
<1>5. ASSUME NEW private \in BOOLEAN, GiveBack(private) PROVE SeenFits'
  BY <1>1, <1>5 DEF GiveBack
<1>6. CASE Match
  <2>1. plist[at] \in Own
    BY <1>6, MatchStep
       DEF RuntimeInv, TypeOK, Basis, Moving, Placing, Own, Command, Book
  <2>2. pc \notin Booting
    BY <1>6, MatchStep DEF Moving, Placing, Booting
  <2> QED
    BY <1>6, <2>1, <2>2, MatchStep DEF SeenFits, world, Skipped
<1>7. CASE Displace
  <2>1. plist'[at] = None
    BY <1>7, DisplaceStep DEF RuntimeInv, TypeOK
  <2>2. pc \notin Booting
    BY <1>7, DisplaceStep DEF Moving, Placing, Booting
  <2> QED
    BY <1>7, <2>1, <2>2, DisplaceStep DEF SeenFits, Displace, Skipped
<1>8. CASE Prepare
  <2>1. /\ pc \in Booting /\ ~Spared /\ Ready /\ seen' = ToBoot /\ seen = None
        /\ UNCHANGED <<world, pc, at, run>>
    BY <1>8 DEF Prepare
  <2>2. ToBoot \in Own /\ ToBoot # None /\ plist[at] = ToBoot /\ job[at] = None
    BY <2>1 DEF Ready, ToBoot, Booting, RuntimeInv, TypeOK, Own, Command, Book, Listeners, Comp
  <2>3. held = None /\ pc \notin Moving /\ ~Skipped
    BY <2>1 DEF SeenFits, Moving, Placing, Booting, Skipped
  <2> QED
    BY <2>1, <2>2, <2>3 DEF SeenFits, world, Skipped, Spared, ToBoot
<1>9. ASSUME NEW r \in Outcomes,
             Plan(r) \/ Intent(r) \/ Halt(r) \/ Commit(r) \/ Recheck(r) \/ RHalt(r) \/ Look(r)
             \/ BHalt(r) \/ BSettle(r) \/ GiveUp(r) \/ Resume(r) \/ USettle(r)
      PROVE  SeenFits'
  <2>1. pc \notin Moving \cup Booting
    BY <1>9 DEF Plan, Intent, Halt, Commit, Recheck, RHalt, Look, BHalt, BSettle, GiveUp,
                Resume, USettle, Moving, Placing, Booting
  <2>2. UNCHANGED <<seen, held>>
    BY <1>9 DEF Plan, Intent, Halt, Commit, Recheck, RHalt, Look, BHalt, BSettle, GiveUp,
                Resume, USettle, Rest, world
  <2> QED
    BY <1>1, <1>2, <2>1, <2>2
<1>10. ASSUME NEW k \in 0 .. Count, Stage(k) PROVE SeenFits'
  BY <1>1, <1>2, <1>10 DEF Stage, Rest, Moving, Placing, Booting
<1>11. ASSUME Step PROVE SeenFits'
  BY <1>3, <1>4, <1>5, <1>6, <1>7, <1>8, <1>9, <1>10, <1>11 DEF Step
<1>12. ASSUME NEW kind \in Kinds, NEW v \in Versions, Start(kind, v) PROVE SeenFits'
  BY <1>1, <1>2, <1>12 DEF Start, world, Moving, Placing, Booting
<1>13. CASE Kill \/ Reboot
  BY <1>1, <1>13 DEF Kill, Reboot
<1>14. ASSUME NEW c \in Comp, Squat(c) \/ Leave(c) PROVE SeenFits'
  BY <1>14 DEF Squat, Leave, Rest, SeenFits, Skipped, Spared, ToBoot
<1>15. ASSUME NEW c \in Comp, Meddle(c) PROVE SeenFits'
  <2>1. plist' = [plist EXCEPT ![c] = Alien] /\ UNCHANGED <<held, staged, job, pc, at, run, seen>>
    BY <1>15 DEF Meddle, Rest
  <2>2. plist'[at] \in {plist[at], Alien}
    BY <2>1 DEF RuntimeInv, TypeOK
  <2> QED
    BY <2>1, <2>2 DEF SeenFits, Skipped, Spared, ToBoot
<1>16. ASSUME NEW c \in Comp, OperatorBootout(c) PROVE SeenFits'
  BY <1>1, <1>2, <1>16 DEF OperatorBootout, Rest, Moving, Placing, Booting
<1>17. CASE UNCHANGED vars
  BY <1>17 DEF vars, world, SeenFits, Skipped, Spared, ToBoot
<1> QED
  BY <1>11, <1>12, <1>13, <1>14, <1>15, <1>16, <1>17 DEF Next, Kinds, Environment

Sound == RuntimeInv /\ SeenFits

\* The inductive invariant: a loaded job is its plist's, files are moved with
\* their job down, and the manifest says which files are whose.
LEMMA SoundInvariant == Spec => []Sound
<1>1. Init => Sound
  BY InitRuntimeInv, RuntimeAssumption DEF Sound, SeenFits, Init, Own
<1>2. Sound /\ [Next]_vars => Sound'
  BY StepRuntimeInv, StepSeenFits DEF Sound
<1> QED
  BY <1>1, <1>2, PTL DEF Spec

LEMMA RuntimeInvariant == Spec => []RuntimeInv
<1>1. Sound => RuntimeInv
  BY DEF Sound
<1> QED
  BY SoundInvariant, <1>1, PTL

(* Whatever a kill, a failed step or a restart leaves behind, every file and
   every job is a version the manifest on disk records.                      *)
THEOREM LedgerAccountsForEverything == Spec => []LedgerCovers
<1>1. RuntimeInv => LedgerCovers
  BY DEF RuntimeInv
<1> QED
  BY RuntimeInvariant, <1>1, PTL

(* A settled manifest tells the truth about files and jobs, and what status
   calls running runs what the manifest says, although no code compares a
   job's content.                                                            *)
THEOREM RecordTellsTheTruth == Spec => []RecordIsTrue
<1>1. RuntimeInv => RecordIsTrue
  <2> SUFFICES ASSUME RuntimeInv, Untouched, ~overtaken, NEW c \in Comp
               PROVE  /\ pc = "idle" /\ manifest.state \in Settled =>
                           plist[c] = manifest.sha[c] /\ job[c] \in {None, manifest.sha[c]}
                      /\ Status(c) = "running" => job[c] = manifest.sha[c]
    BY DEF RecordIsTrue
  <2>1. plist[c] # Alien /\ job[c] \in {None, plist[c]}
    BY DEF Untouched, RuntimeInv, JobIsItsPlist
  <2>2. manifest.state \in Settled => plist[c] = manifest.sha[c]
    BY <2>1 DEF RuntimeInv, SettledIsTrue
  <2>3. Status(c) = "running" => job[c] # None /\ plist[c] = manifest.sha[c]
    BY DEF Status, Registered
  <2> QED
    BY <2>1, <2>2, <2>3
<1> QED
  BY RuntimeInvariant, <1>1, PTL

\* What the property says of one step, but for how the command ends.
CameBetween(c) == c = at /\ seen \in Versions /\ held' = Alien

ForeignKept ==
  /\ \A c \in Comp : /\ job[c] = Alien => job'[c] = Alien
                     /\ plist[c] = Alien /\ plist'[c] # Alien => CameBetween(c)
  /\ held = Alien => plist'[at] \in {None, Alien}

\* What is held was moved from a path that nothing of ours has come to since.
LEMMA HeldFromHere ==
  ASSUME RuntimeInv, SeenFits, held = Alien
  PROVE  /\ held # seen /\ pc \in Moving /\ plist[at] \in {None, Alien}
         /\ ~Displaceable
BY RuntimeAssumption DEF RuntimeInv, SeenFits, PhaseFits, Own, Displaceable

\* No step of a command takes a file that is not the runtime's, but by the
\* rename that follows a check in which it found its own.
LEMMA StepKeepsForeign == Sound /\ Step => ForeignKept
<1> SUFFICES ASSUME Sound, Step PROVE ForeignKept
  OBVIOUS
<1> USE RuntimeAssumption DEF Sound
<1>0. ASSUME pc \notin Moving PROVE held # Alien
  BY <1>0, HeldFromHere
<1>1. ASSUME NEW r \in Outcomes, Halt(r) \/ RHalt(r) \/ BHalt(r) PROVE ForeignKept
  <2>1. plist' = plist /\ pc \notin Moving
    BY <1>1 DEF Halt, RHalt, BHalt, Moving, Placing
  <2>2. job' = job \/ (Owned(at) /\ Unloaded(at))
    BY <1>1 DEF Halt, RHalt, BHalt, Inspected, Observed, RuntimeInv, TypeOK
  <2>3. \A c \in Comp : job[c] = Alien => job'[c] = Alien
    BY <2>2 DEF Owned, Listeners, Unloaded, RuntimeInv, TypeOK
  <2> QED
    BY <1>0, <2>1, <2>3 DEF ForeignKept
<1>2. CASE Displace
  <2>1. seen \in Versions /\ held = None /\ held' = plist[at] /\ job' = job
        /\ plist' = [plist EXCEPT ![at] = None]
    BY <1>2, DisplaceStep DEF Displace, SeenFits, Own
  <2> QED
    BY <2>1 DEF ForeignKept, CameBetween, RuntimeInv, TypeOK
<1>3. ASSUME NEW r \in Outcomes, Publish(r) PROVE ForeignKept
  <2>1. held # Alien
    BY <1>3, PublishStep, HeldFromHere
  <2>2. job' = job /\ (plist' = plist \/ (plist[at] = None /\ \E p : plist' = [plist EXCEPT ![at] = p]))
    BY <1>3, PublishStep
  <2> QED
    BY <2>1, <2>2 DEF ForeignKept, RuntimeInv, TypeOK
<1>4. ASSUME NEW r \in Outcomes, Clear(r) PROVE ForeignKept
  <2>1. held # Alien
    BY <1>4, ClearStep, HeldFromHere
  <2>2. job' = job /\ (plist' = plist \/ (plist[at] = None /\ \E p : plist' = [plist EXCEPT ![at] = p]))
    BY <1>4, ClearStep
  <2> QED
    BY <2>1, <2>2 DEF ForeignKept, RuntimeInv, TypeOK
<1>5. ASSUME NEW private \in BOOLEAN, GiveBack(private) PROVE ForeignKept
  <2>1. /\ job' = job
        /\ plist' = plist \/ (plist[at] = None /\ plist' = [plist EXCEPT ![at] = held])
    BY <1>5, GiveBackStep
  <2>2. held = Alien => plist[at] \in {None, Alien}
    BY HeldFromHere
  <2> QED
    BY <2>1, <2>2 DEF ForeignKept, RuntimeInv, TypeOK
<1>6. ASSUME NEW r \in Outcomes, Boot(r) PROVE ForeignKept
  <2>1. plist' = plist /\ pc \notin Moving
    BY <1>6 DEF Boot, Booting, Moving, Placing
  <2>2. job' = job \/ (job[at] = None /\ job' = [job EXCEPT ![at] = plist[at]])
    BY <1>6 DEF Boot, SeenFits
  <2>3. \A c \in Comp : job[c] = Alien => job'[c] = Alien
    BY <2>2 DEF RuntimeInv, TypeOK
  <2> QED
    BY <1>0, <2>1, <2>3 DEF ForeignKept
<1>7. ASSUME NEW r \in Outcomes,
             Plan(r) \/ Intent(r) \/ Commit(r) \/ Recheck(r) \/ Look(r) \/ BSettle(r)
             \/ GiveUp(r) \/ Resume(r) \/ USettle(r)
      PROVE  ForeignKept
  <2>1. UNCHANGED <<plist, job>> /\ pc \notin Moving
    BY <1>7 DEF Plan, Intent, Commit, Recheck, Look, BSettle, GiveUp, Resume, USettle, world,
                Moving, Placing
  <2> QED
    BY <1>0, <2>1 DEF ForeignKept
<1>8. ASSUME NEW k \in 0 .. Count, Stage(k) PROVE ForeignKept
  <2>1. UNCHANGED <<plist, job>> /\ pc \notin Moving
    BY <1>8 DEF Stage, Moving, Placing
  <2> QED
    BY <1>0, <2>1 DEF ForeignKept
<1>9. CASE Match
  <2>1. UNCHANGED <<plist, job>> /\ held = None
    BY <1>9, MatchStep DEF world
  <2> QED
    BY <2>1 DEF ForeignKept
<1>10. CASE Prepare
  <2>1. UNCHANGED <<plist, job>> /\ pc \notin Moving
    BY <1>10 DEF Prepare, world, Moving, Placing, Booting
  <2> QED
    BY <1>0, <2>1 DEF ForeignKept
<1> QED
  BY <1>1, <1>2, <1>3, <1>4, <1>5, <1>6, <1>7, <1>8, <1>9, <1>10 DEF Step

\* The phases in which a command can only fail.
Failing == Undoing \cup {"putBack", "resume", "reBoot", "uSettle"}

\* A command that has met a foreign file is on its way to fail.
MetInv ==
  /\ met => held = Alien \/ pc \in Failing \cup {"idle"}
  /\ met \/ pc # "idle" => outcome # "ok"

LEMMA StepMetInv == Sound /\ MetInv /\ [Next]_vars => MetInv'
<1> SUFFICES ASSUME Sound, MetInv, [Next]_vars PROVE MetInv'
  OBVIOUS
<1> USE RuntimeAssumption DEF Sound
<1>0. held = Alien => pc \in Moving /\ held # seen
  BY HeldFromHere
<1>1. ASSUME NEW r \in Outcomes,
             Plan(r) \/ Intent(r) \/ Halt(r) \/ Commit(r) \/ Recheck(r) \/ RHalt(r)
      PROVE  MetInv'
  <2>1. pc \in {"plan", "intent", "halt", "commit", "rCommit", "recheck", "rHalt"} /\ met' = met
    BY <1>1 DEF Plan, Intent, Halt, Commit, Recheck, RHalt, Rest
  <2>2. ~met /\ outcome # "ok"
    BY <1>0, <2>1 DEF MetInv, Failing, Undoing, Moving, Placing
  <2>3. pc' # "idle" => outcome' = outcome
    BY <1>1 DEF Plan, Intent, Halt, Commit, Recheck, RHalt, Running, Finish
  <2> QED
    BY <2>1, <2>2, <2>3 DEF MetInv
<1>2. ASSUME NEW k \in 0 .. Count, Stage(k) PROVE MetInv'
  <2>1. ~met /\ outcome # "ok" /\ met' = met
    BY <1>0, <1>2 DEF Stage, Rest, MetInv, Failing, Undoing, Moving, Placing
  <2> QED
    BY <1>2, <2>1 DEF MetInv, Stage, Running, Finish
<1>3. ASSUME NEW r \in Outcomes,
             Look(r) \/ BHalt(r) \/ BSettle(r) \/ GiveUp(r) \/ Resume(r) \/ USettle(r)
      PROVE  MetInv'
  <2>1. pc \in Failing /\ met' = met
    BY <1>3 DEF Look, BHalt, BSettle, GiveUp, Resume, USettle, Rest, Failing, Undoing
  <2>2. outcome' \in {outcome, "failed"} /\ pc' \in Failing \cup {"idle"}
    BY <1>3 DEF Look, BHalt, BSettle, GiveUp, Resume, USettle, Running, Finish, Enter, Advance,
                Failing, Undoing
  <2>3. outcome # "ok"
    BY <2>1 DEF MetInv, Failing, Undoing
  <2> QED
    BY <2>1, <2>2, <2>3 DEF MetInv
<1>4. CASE Match \/ Prepare
  <2>1. UNCHANGED <<held, pc, outcome, met>>
    BY <1>4 DEF Match, Prepare, world
  <2> QED
    BY <2>1 DEF MetInv
<1>5. CASE Displace
  <2>1. pc \in Moving /\ held = None /\ held' = plist[at]
        /\ met' = (met \/ plist[at] = Alien) /\ UNCHANGED <<pc, outcome>>
    BY <1>5, DisplaceStep DEF Displace
  <2>2. outcome # "ok" /\ pc # "idle"
    BY <2>1 DEF MetInv, Moving, Placing
  <2> QED
    BY <2>1, <2>2 DEF MetInv
<1>6. ASSUME Placed \/ NotPlaced, pc \in Moving, met' = met,
             met => pc \in {"bPlace", "putBack"} \/ NotPlaced
      PROVE  MetInv'
  <2>1. outcome # "ok"
    BY <1>6 DEF MetInv, Moving, Placing
  <2>2. outcome' \in {outcome, "failed"}
    BY <1>6 DEF Placed, NotPlaced, Running, Finish
  <2>3. met => pc' \in Failing \cup {"idle"}
    BY <1>6 DEF Placed, NotPlaced, Moving, Placing, Failing, Undoing, Enter, Advance, Finish
  <2> QED
    BY <1>6, <2>1, <2>2, <2>3 DEF MetInv
<1>7. ASSUME NEW r \in Outcomes, Publish(r) PROVE MetInv'
  <2>1. pc \in Moving /\ (Placed \/ NotPlaced) /\ held # Alien
    BY <1>0, <1>7, PublishStep DEF Moving
  <2>2. met' = met
    BY <1>7 DEF Publish
  <2>3. met => pc \in {"bPlace", "putBack"}
    BY <2>1 DEF MetInv, Moving, Placing, Failing, Undoing
  <2> QED
    BY <1>6, <2>1, <2>2, <2>3
<1>8. ASSUME NEW private \in BOOLEAN, GiveBack(private) PROVE MetInv'
  <2>1. pc \in Moving
    BY <1>8, GiveBackStep DEF RuntimeInv, PhaseFits
  <2> QED
    BY <1>6, <1>8, <2>1, GiveBackStep
<1>9. ASSUME NEW r \in Outcomes, Clear(r) PROVE MetInv'
  <2>1. pc \in {"rClear", "clear"} /\ held = seen /\ met' = met
    BY <1>9 DEF Clear
  <2>2. ~met /\ outcome # "ok"
    BY <1>0, <2>1 DEF MetInv, Failing, Undoing
  <2>3. outcome' \in {outcome, "failed"}
    BY <1>9 DEF Clear, NotPlaced, Running, Finish
  <2> QED
    BY <2>1, <2>2, <2>3 DEF MetInv
<1>10. ASSUME NEW r \in Outcomes, Boot(r) PROVE MetInv'
  <2>1. pc \in Booting /\ held' = held /\ held # Alien /\ outcome # "ok"
    BY <1>0, <1>10 DEF Boot, MetInv, Moving, Placing, Booting
  <2>2. outcome' \in {outcome, "failed"}
    BY <1>10 DEF Boot, Running, Finish, Booting
  <2>3. met' => met \/ (seen # None /\ plist[at] # seen)
    BY <1>10, RuntimeAssumption DEF Boot, SeenFits, Own
  <2>4. met' => pc \in {"bBoot", "reBoot"} \/ (seen # None /\ plist[at] # seen)
    BY <2>1, <2>3 DEF MetInv, Failing, Undoing, Booting
  <2>5. pc \in {"bBoot", "reBoot"} => pc' \in Failing
    BY <1>10 DEF Boot, Failing, Undoing, Enter, Advance
  <2>6. seen # None /\ plist[at] # seen => pc' \in Failing \cup {"idle"}
    <3>1. seen # None => ~Spared
      BY <2>1 DEF SeenFits
    <3> QED
      BY <1>10, <2>1, <3>1 DEF Boot, Booting, Failing, Undoing, Enter, Finish
  <2> QED
    BY <2>1, <2>2, <2>4, <2>5, <2>6 DEF MetInv
<1>11. ASSUME Step PROVE MetInv'
  BY <1>1, <1>2, <1>3, <1>4, <1>5, <1>7, <1>8, <1>9, <1>10, <1>11 DEF Step
<1>12. ASSUME NEW kind \in Kinds, NEW v \in Versions, Start(kind, v) PROVE MetInv'
  BY <1>12 DEF Start, MetInv
<1>13. CASE Kill
  BY <1>13 DEF Kill, Finish, MetInv
<1>14. CASE Reboot
  BY <1>14 DEF Reboot, Finish, MetInv, RuntimeInv, PhaseFits, Moving, Placing
<1>15. ASSUME NEW c \in Comp, Squat(c) \/ Leave(c) \/ Meddle(c) \/ OperatorBootout(c)
       PROVE  MetInv'
  BY <1>15 DEF Squat, Leave, Meddle, OperatorBootout, Rest, MetInv
<1>16. CASE UNCHANGED vars
  BY <1>16 DEF vars, world, MetInv
<1> QED
  BY <1>11, <1>12, <1>13, <1>14, <1>15, <1>16 DEF Next, Kinds, Environment

(* What is not the runtime's own is left alone: a foreign file leaves its path
   only by the rename of a step whose check, just before, found one of ours
   there; nothing of ours is put in its place while it is aside; no foreign
   job is stopped; and a command that moved or started a foreign file does
   not report success, in whichever phase and however often that happens.    *)
THEOREM ForeignFilesAreLeftAlone == Spec => ForeignIsLeftAlone
<1>1. Init => MetInv
  BY DEF Init, MetInv
<1>2. Sound /\ MetInv /\ MetInv' /\ [Next]_vars =>
        [Step => /\ \A c \in Comp :
                      /\ job[c] = Alien => job'[c] = Alien
                      /\ plist[c] = Alien /\ plist'[c] # Alien =>
                           c = at /\ seen \in Versions /\ held' = Alien
                 /\ held = Alien => plist'[at] \in {None, Alien}
                 /\ met' => outcome' # "ok"]_vars
  BY StepKeepsForeign DEF ForeignKept, CameBetween, MetInv
<1> QED
  BY SoundInvariant, StepMetInv, <1>1, <1>2, PTL DEF Spec, ForeignIsLeftAlone

(* A command that fails and leaves a settled manifest has undone itself: the
   old manifest, the old files and exactly the jobs that ran before.         *)
THEOREM FailedCommandsAreUndone == Spec => FailureRestores
<1> DEFINE Ends == /\ pc \in {"bSettle", "uSettle"} /\ pc' = "idle" /\ outcome' = "failed"
                   /\ (manifest.state)' \in Settled /\ ~overtaken' /\ Untouched
           Undone == manifest' = run.old /\ plist = run.old.sha /\ Loaded = run.loaded
<1>1. ASSUME RuntimeInv, Restored PROVE plist = run.old.sha /\ Loaded = run.loaded
  BY <1>1 DEF Restored, Loaded, RuntimeInv, TypeOK, Command
<1>2. ASSUME RuntimeInv, NEW r \in Outcomes, BSettle(r), Ends PROVE Undone
  <2>1. /\ ~run.failed /\ Restored
        /\ r # "early" /\ manifest' = run.old
    BY <1>2 DEF BSettle, Enter, Replaced
  <2> QED
    BY <1>1, <1>2, <2>1
<1>3. ASSUME RuntimeInv, NEW r \in Outcomes, USettle(r), Ends PROVE Undone
  <2>1. CASE manifest' = run.old /\ Restored
    BY <1>1, <1>3, <2>1
  <2>2. CASE manifest' = manifest /\ (overtaken' <=> overtaken)
    <3>1. manifest = run.old /\ Loaded = run.loaded
      BY <1>3, <2>2, USettleStep DEF RuntimeInv, UnannouncedIsUndone, Manifest, Settled
    <3>2. \A c \in Comp : plist[c] = run.old.sha[c]
      BY <1>3, <2>2, <3>1 DEF RuntimeInv, SettledIsTrue, Untouched
    <3> QED
      BY <2>2, <3>1, <3>2, <1>3 DEF RuntimeInv, TypeOK, Book
  <2>3. manifest'.state \in Settled
    BY <1>3
  <2> QED
    BY <2>1, <2>2, <2>3, USettleStep, <1>3 DEF Manifest, Settled
<1>4. ASSUME RuntimeInv, Ends, [Next]_vars PROVE Undone
  <2>1. ASSUME Step PROVE Undone
    <3>1. pc \in {"bSettle", "uSettle"}
      BY <1>4
    <3> QED
      BY <1>2, <1>3, <1>4, <2>1, <3>1
         DEF Step, Plan, Intent, Halt, Publish, Boot, Clear, Commit,
         Recheck, RHalt, Look, BHalt, GiveUp, Resume, Stage, Match, Displace, Displaceable,
         GiveBack, Prepare, Placing, Moving, Booting, RuntimeInv, PhaseFits
  <2>2. ~Environment
    BY <1>4 DEF Environment, Kill, Reboot, Squat, Leave, Meddle, OperatorBootout, Finish
  <2>3. \A kind \in Kinds, v \in Versions : ~Start(kind, v)
    BY <1>4 DEF Start
  <2>4. vars' # vars
    BY <1>4 DEF vars
  <2> QED
    BY <1>4, <2>1, <2>2, <2>3, <2>4 DEF Next, Kinds
<1> HIDE DEF Ends, Undone
<1> QED
  BY RuntimeInvariant, <1>4, PTL DEF Spec, FailureRestores, Ends, Undone

-----------------------------------------------------------------------------
(* What a command that meets no trouble can rely on                        *)

(* A command that meets no trouble of its own succeeds.                      *)
Clean == \A c \in Comp : plist[c] # Alien

WellKept(m) == /\ m.state \in {"absent", "uninstalled"} => m.sha = All(None)
               /\ m.state = "uninstalling" => m.prev = All(None)

\* How far the files are in each phase, but for those somebody else has put there.
FilesInStep ==
  \A c \in Comp : plist[c] # Alien =>
    /\ pc \in {"stage", "intent", "halt"} => plist[c] = run.old.sha[c]
    /\ pc = "place" =>
         plist[c] = IF c < at THEN run.ver
                    ELSE IF c = at /\ held # None THEN None ELSE run.old.sha[c]
    /\ held # None /\ c = at => plist[c] = None
    /\ pc = "boot" \/ (pc = "commit" /\ run.kind # "uninstall") => plist[c] = run.ver
    /\ pc = "clear" =>
         plist[c] = IF c < at \/ (c = at /\ held # None) THEN None ELSE run.old.sha[c]
    /\ pc = "commit" /\ run.kind = "uninstall" => plist[c] = None
    /\ pc \in {"look", "bHalt", "bPlace"} /\ c > run.touched => plist[c] = run.old.sha[c]
    /\ pc = "bPlace" /\ ~run.failed /\ c > at => plist[c] = run.old.sha[c]
    /\ pc \in {"bBoot", "reBoot"} /\ ~run.failed => plist[c] = run.old.sha[c]
    /\ \/ pc = "rPlace" /\ c < at
       \/ pc = "rBoot"
       \/ pc = "rCommit" /\ manifest.state = "installing"
       => plist[c] = staged[c]
    /\ \/ pc = "rClear" /\ c < at
       \/ pc = "rCommit" /\ manifest.state = "uninstalling"
       => plist[c] = None

\* An interrupted command can be taken up again: what runs has its plists.
WayBack ==
  ~rebooted /\ ~overtaken /\ Clean /\ manifest.state \in Interrupted => Reachable

UndoKnows ==
  ~overtaken /\ pc \in Undoing /\ manifest.state \in Interrupted =>
    manifest = Manifest("installing", All(run.ver), run.old.sha)

\* A command without an excuse finds at every step what the step asks for.
OnTrack ==
  owed =>
    /\ Untouched /\ ~overtaken
    /\ pc \in {"idle", "plan", "stage", "intent", "halt", "place", "boot", "clear", "commit"}
              \cup Recovering
    /\ pc = "idle" => outcome # "failed"
    /\ pc \in {"recheck", "rHalt"} => Reachable
    /\ pc = "plan" => plist = manifest.sha /\ manifest.state \in Settled
    /\ pc \in {"plan", "stage", "intent"} =>
         /\ run.kind = "install" => Loaded = {}
         /\ Loaded # {} => manifest.state = "installed"
    /\ pc = "halt" =>
         /\ \A c \in run.loaded : c <= at => Registered(c)
         /\ Loaded # {} => run.old.state = "installed"
    /\ pc = "boot" => \A c \in Comp : c < at => Registered(c)
    /\ pc = "commit" /\ run.kind # "uninstall" => Loaded = Comp
    /\ pc = "rBoot" => \A c \in Comp : c < at <=> Registered(c)
    /\ pc = "rCommit" => Loaded = IF manifest.state = "installing" THEN Comp ELSE {}

\* A command fails when it ends.
FailureEnds == outcome = "failed" => pc = "idle"

AllTouched == pc = "boot" \/ (pc = "commit" /\ run.kind # "uninstall") => run.touched = Count

BooksAreKept == WellKept(manifest) /\ WellKept(run.old)

HealInv == /\ RuntimeInv /\ SeenFits /\ BooksAreKept /\ AllTouched /\ FilesInStep
           /\ UndoKnows /\ WayBack /\ OnTrack /\ FailureEnds

\* A plist that counts as placed is as wanted, or was not to be touched.
PutDone ==
  \/ Placed /\ Skipped /\ plist' = plist
  \/ pc \in Placing /\ Placed /\ plist'[at] = Wanted
  \/ NotPlaced

LEMMA PublishDone ==
  ASSUME TypeOK, NEW r \in Outcomes, Publish(r)
  PROVE  PutDone
BY DEF Publish, PutDone, TypeOK

LEMMA GiveBackDone ==
  ASSUME NEW private \in BOOLEAN, GiveBack(private)
  PROVE  PutDone
BY DEF GiveBack, PutDone, Placing

\* A file of another owner only leaves a plist's place by being moved aside.
LEMMA CleanStays == Sound /\ [Next]_vars /\ ~Displace /\ Clean' => Clean
<1> SUFFICES ASSUME Sound, [Next]_vars, ~Displace, Clean' PROVE Clean
  OBVIOUS
<1>1. CASE Step
  <2>1. ASSUME NEW r \in Outcomes,
               \/ Plan(r) \/ Intent(r) \/ Halt(r) \/ Boot(r) \/ Commit(r) \/ Recheck(r) \/ RHalt(r)
               \/ Look(r) \/ BHalt(r) \/ BSettle(r) \/ GiveUp(r) \/ Resume(r) \/ USettle(r)
        PROVE  plist' = plist
    BY <2>1 DEF Plan, Intent, Halt, Boot, Commit, Recheck, RHalt, Look, BHalt, BSettle, GiveUp,
                Resume, USettle, world
  <2>2. ASSUME NEW k \in 0 .. Count, Stage(k) PROVE plist' = plist
    BY <2>2 DEF Stage
  <2>3. ASSUME Match \/ Prepare PROVE plist' = plist
    BY <2>3 DEF Match, Prepare, world
  <2>4. ASSUME NEW r \in Outcomes, Publish(r) \/ Clear(r) PROVE held' = None
    BY <2>4 DEF Publish, Clear
  <2>5. ASSUME NEW private \in BOOLEAN, GiveBack(private) PROVE held' = None
    BY <2>5 DEF GiveBack
  <2>6. plist' = plist \/ held' = None
    BY <1>1, <2>1, <2>2, <2>3, <2>4, <2>5 DEF Step
  <2> QED
    BY <1>1, <2>6, StepKeepsForeign, RuntimeAssumption DEF Clean, ForeignKept, CameBetween
<1>2. CASE Environment
  BY <1>2 DEF Environment, Kill, Reboot, Squat, Leave, Meddle, OperatorBootout, Clean,
     Sound, RuntimeInv, TypeOK
<1>3. CASE UNCHANGED vars
  BY <1>3 DEF vars, world, Clean
<1>4. ASSUME NEW kind \in Kinds, NEW v \in Versions, Start(kind, v) PROVE Clean
  BY <1>4 DEF Start, world, Clean
<1> QED
  BY <1>1, <1>2, <1>3, <1>4 DEF Next, Kinds

-----------------------------------------------------------------------------
(* Each action keeps the way back                                          *)

\* The way back through planning.
LEMMA PlanHeals ==
  ASSUME HealInv, RuntimeInv', SeenFits', Clean' => Clean, NEW r \in Outcomes, Plan(r)
  PROVE  HealInv'
<1> USE RuntimeAssumption DEF HealInv, RuntimeInv, All
<1>1. BooksAreKept'
  BY PlanStep, PlanEffect
     DEF Inspected, Registered, Loaded, Owned, Listeners, ghosts, world, BooksAreKept, WellKept,
         TypeOK, PhaseFits, Command, Book, Working, Manifest
<1>2. AllTouched'
  BY PlanStep, PlanEffect DEF world, AllTouched, TypeOK, PhaseFits, Progress, Comp
<1>3. FilesInStep'
  <2>1. held' = None /\ held = None
    BY PlanStep DEF PhaseFits, Placing, Moving, world
  <2> QED
    BY <2>1, PlanEffect DEF FilesInStep, Clean, world
<1>4. UndoKnows'
  BY PlanStep, PlanEffect DEF world, UndoKnows, TypeOK, PhaseFits, Announced, Progress
<1>5. WayBack'
  BY PlanStep, PlanEffect
     DEF Inspected, Registered, Loaded, Owned, Listeners, ghosts, world, WayBack, Clean,
         Reachable, TypeOK, Interrupted
<1>6. OnTrack'
  BY PlanStep, PlanEffect
     DEF Plan, Luck, Running, Finish, Enter, Backward, Rest, Beyond, Inspected, Registered, Loaded,
         Owned, Listeners, ghosts, world, OnTrack, TypeOK, Untouched, Comp, Reachable,
         Recovering, Undoing
<1>7. FailureEnds' BY DEF FailureEnds, Plan, Running, Finish
<1> QED BY <1>1, <1>2, <1>3, <1>4, <1>5, <1>6, <1>7

\* The way back through staging.
LEMMA StageHeals ==
  ASSUME HealInv, RuntimeInv', SeenFits', Clean' => Clean, NEW k \in 0 .. Count, Stage(k)
  PROVE  HealInv'
<1> USE RuntimeAssumption DEF HealInv, RuntimeInv, All
<1>1. BooksAreKept' BY StageStep DEF BooksAreKept, WellKept, TypeOK, PhaseFits
<1>2. AllTouched' BY StageStep DEF AllTouched, TypeOK, PhaseFits, Progress
<1>3. FilesInStep'
  <2>1. held' = None /\ held = None
    BY StageStep DEF PhaseFits, Placing, Moving
  <2> QED
    BY <2>1, StageStep
       DEF FilesInStep, Clean, PhaseFits, Advance, Enter, Last, Finish, Backward, world, Comp,
           TypeOK
<1>4. UndoKnows'
  BY StageStep
     DEF UndoKnows, TypeOK, PhaseFits, Announced, Progress, Manifest, Undoing, Interrupted
<1>5. WayBack'
  BY StageStep
     DEF ghosts, world, WayBack, Clean, Reachable, Loaded, Registered, TypeOK, Interrupted
<1>6. OnTrack'
  BY StageStep
     DEF Stage, Luck, Running, Finish, Enter, Backward, Rest, Beyond, ghosts, world, OnTrack,
         TypeOK, Untouched, Comp, Reachable, Loaded, Registered, Recovering, Undoing
<1>7. FailureEnds' BY DEF FailureEnds, Stage, Running, Finish
<1> QED BY <1>1, <1>2, <1>3, <1>4, <1>5, <1>6, <1>7

\* The way back through the write-ahead record.
LEMMA IntentHeals ==
  ASSUME HealInv, RuntimeInv', SeenFits', Clean' => Clean, NEW r \in Outcomes, Intent(r)
  PROVE  HealInv'
<1> USE RuntimeAssumption DEF HealInv, RuntimeInv, All
<1>1. BooksAreKept'
  BY IntentStep, IntentEffect
     DEF Loaded, Owned, Listeners, Manifest, ghosts, world, BooksAreKept, WellKept, TypeOK,
         PhaseFits
<1>2. AllTouched' BY IntentStep, IntentEffect DEF AllTouched, TypeOK, PhaseFits, Progress
<1>3. FilesInStep'
  <2>1. held' = None /\ held = None
    BY IntentStep DEF PhaseFits, Placing, Moving
  <2> QED
    BY <2>1, IntentStep, IntentEffect DEF FilesInStep, Clean, Progress
<1>4. UndoKnows'
  <2>1. manifest.state \notin Interrupted /\ (pc' = "look" => run.kind # "uninstall")
    BY IntentStep DEF PhaseFits, Working
  <2>2. manifest' = manifest \/ run.kind = "uninstall"
        \/ manifest' = Manifest("installing", All(run.ver), run.old.sha)
    BY IntentStep
  <2>3. pc' \in {"halt", "resume", "look", "idle"} /\ run'.old = run.old /\ run'.ver = run.ver
    BY IntentEffect
  <2>4. pc' \in Undoing => pc' = "look"
    BY <2>3 DEF Undoing
  <2> QED
    BY <2>1, <2>2, <2>3, <2>4 DEF UndoKnows
<1>5. WayBack'
  <2>1. manifest.state \notin Interrupted
    BY IntentStep DEF PhaseFits, Working
  <2>2. \/ manifest' = manifest
        \/ manifest' = Manifest("uninstalling", run.old.sha, All(None))
        \/ manifest' = Manifest("installing", All(run.ver), run.old.sha)
    BY IntentStep
  <2>3. Clean => plist = run.old.sha
    BY IntentStep DEF Clean, FilesInStep, TypeOK, Command, Book
  <2>4. plist' = plist
    BY IntentStep
  <2> QED
    BY <2>1, <2>2, <2>3, <2>4 DEF WayBack, Reachable, Manifest
<1>6. OnTrack'
  <2> SUFFICES ASSUME owed' PROVE OnTrack'
    BY DEF OnTrack
  <2>1. owed
    BY DEF Intent, Luck
  <2>2. /\ pc = "intent" /\ manifest = run.old /\ UNCHANGED <<plist, job, taken, overtaken>>
        /\ run.kind = "install" => Loaded = {}
        /\ Loaded # {} => run.old.state = "installed"
        /\ Untouched /\ ~overtaken
    BY <2>1, IntentStep DEF OnTrack, PhaseFits, ghosts
  <2>3. Inspected(run.old)
    BY <2>2 DEF Inspected, Owned, Listeners, Untouched, Loaded, Registered
  <2>0. r = "ok"
    BY <2>2, <2>3 DEF Intent, Luck
  <2>4. pc' = "halt" /\ run'.old = run.old
        /\ run'.loaded = Loaded
    BY <2>0, <2>2, <2>3 DEF Intent, Enter, UnannouncedIsUndone, TypeOK, Command
  <2>5. Loaded' = Loaded /\ Untouched'
    BY <2>2 DEF Loaded, Registered, Untouched
  <2>6. \A c \in run'.loaded : Registered(c)'
    BY <2>4, <2>5 DEF Loaded
  <2> QED
    BY <2>2, <2>4, <2>5, <2>6 DEF OnTrack
<1>7. FailureEnds' BY DEF FailureEnds, Intent, Running, Finish
<1> QED BY <1>1, <1>2, <1>3, <1>4, <1>5, <1>6, <1>7

\* The way back through a job brought down.
LEMMA HaltHeals ==
  ASSUME HealInv, RuntimeInv', SeenFits', Clean' => Clean, NEW r \in Outcomes, Halt(r)
  PROVE  HealInv'
<1> USE RuntimeAssumption DEF HealInv, RuntimeInv, All
<1>1. BooksAreKept' BY HaltStep, HaltEffect DEF world, BooksAreKept, WellKept, TypeOK
<1>2. AllTouched' BY HaltStep, HaltEffect DEF world, AllTouched, TypeOK, PhaseFits
<1>3. FilesInStep'
  <2>1. /\ plist' = plist /\ held' = None /\ pc = "halt" /\ run.touched = 0
    BY HaltStep DEF PhaseFits, Placing, Moving, Progress
  <2>2. pc' \in {"clear", "place"} => at' = 1
    BY <2>1, HaltStep, AdvanceStep DEF Backward, TypeOK
  <2> QED
    BY <2>1, <2>2, HaltEffect DEF FilesInStep, Clean, Comp
<1>4. UndoKnows'
  BY HaltStep, HaltEffect
     DEF Running, ghosts, world, UndoKnows, TypeOK, PhaseFits, Announced, Progress, Manifest,
         Undoing
<1>5. WayBack'
  BY HaltStep, HaltEffect
     DEF Running, ghosts, world, WayBack, Clean, Reachable, Loaded, Registered, TypeOK,
         Interrupted
<1>6. OnTrack'
  <2> SUFFICES ASSUME owed' PROVE OnTrack'
    BY DEF OnTrack
  <2>1. owed /\ r = "ok"
    BY DEF Halt, Luck
  <2>2. /\ pc = "halt" /\ UNCHANGED <<plist, taken, overtaken>>
        /\ \A c \in run.loaded : c <= at => Registered(c)
        /\ Loaded # {} => run.old.state = "installed"
        /\ Untouched /\ ~overtaken
    BY <2>1, HaltStep DEF OnTrack, ghosts
  <2>3. Inspected(run.old) /\ (at \in run.loaded => Registered(at))
    BY <2>2 DEF Inspected, Owned, Listeners, Untouched, Loaded, Registered, TypeOK, Comp
  <2>4. Advance(IF run.kind = "uninstall" THEN "clear" ELSE "place")
    BY <2>1, <2>2, <2>3 DEF Halt
  <2>5. (pc' = "halt" /\ at' = at - 1) \/ pc' \in {"clear", "place"}
    BY <2>2, <2>4, AdvanceStep DEF TypeOK, Backward
  <2>6. \A c \in Comp : c # at => job'[c] = job[c]
    BY HaltStep DEF Unloaded, TypeOK
  <2>7. Loaded' \subseteq Loaded /\ Untouched'
    BY <2>2, HaltEffect DEF Loaded, Registered, Untouched
  <2>8. run'.old = run.old /\ run'.loaded = run.loaded /\ run.loaded \subseteq Comp
    BY HaltEffect DEF TypeOK, Command
  <2>9. pc' = "halt" => \A c \in run.loaded : c <= at' => Registered(c)'
    <3>1. at \in 1 .. Count
      BY RuntimeAssumption DEF TypeOK, Comp
    <3>2. pc' = "halt" => \A c \in run.loaded : c <= at' => c \in Comp /\ c <= at /\ c # at
      BY <2>5, <2>8, <3>1 DEF Comp
    <3> QED
      BY <2>2, <2>6, <3>2 DEF Registered
  <2> QED
    BY <2>2, <2>5, <2>7, <2>8, <2>9 DEF OnTrack
<1>7. FailureEnds' BY DEF FailureEnds, Halt, Running, Finish
<1> QED BY <1>1, <1>2, <1>3, <1>4, <1>5, <1>6, <1>7

\* The way back through a plist found at its path or a label found free.
LEMMA MatchHeals ==
  ASSUME HealInv, RuntimeInv', SeenFits', Match \/ Prepare
  PROVE  HealInv'
<1>0. UNCHANGED <<world, pc, at, run, outcome, owed, ghosts>>
  BY DEF Match, Prepare, Beyond
<1> USE <1>0 DEF HealInv, world, ghosts
<1>1. BooksAreKept' /\ AllTouched' /\ FailureEnds'
  BY DEF BooksAreKept, WellKept, AllTouched, FailureEnds
<1>2. FilesInStep'
  BY DEF FilesInStep
<1>3. UndoKnows' /\ WayBack'
  BY DEF UndoKnows, WayBack, Clean, Reachable, Loaded, Registered
<1>4. OnTrack'
  BY DEF OnTrack, Untouched, Reachable, Loaded, Registered
<1> QED
  BY <1>1, <1>2, <1>3, <1>4

\* The way back through a plist moved aside, whosesoever it is.
LEMMA DisplaceHeals ==
  ASSUME HealInv, RuntimeInv', SeenFits', Displace
  PROVE  HealInv'
<1> USE RuntimeAssumption DEF HealInv, RuntimeInv, All
<1>1. BooksAreKept' BY DisplaceStep DEF BooksAreKept
<1>2. AllTouched' BY DisplaceStep DEF AllTouched
<1>3. FilesInStep'
  <2>1. /\ pc \in Moving /\ held = None /\ ~Skipped /\ plist[at] # None
        /\ held' # None /\ plist' = [plist EXCEPT ![at] = None]
        /\ UNCHANGED <<staged, manifest, pc, at, run>>
    BY DisplaceStep
  <2>2. pc = "bPlace" => at <= run.touched
    BY <2>1 DEF Skipped, TypeOK, Comp, Command
  <2>3. \A c \in Comp : c # at => plist'[c] = plist[c]
    BY <2>1 DEF TypeOK
  <2>4. plist'[at] = None
    BY <2>1 DEF TypeOK
  <2>5. at \in 1 .. Count /\ run.touched \in 0 .. Count
    BY DEF TypeOK, Comp, Command
  <2> QED
    BY <2>1, <2>2, <2>3, <2>4, <2>5 DEF FilesInStep, Moving, Placing, Comp
<1>4. UndoKnows' BY DisplaceStep DEF ghosts, UndoKnows
<1>5. WayBack'
  <2>1. Loaded = {}
    BY DisplaceStep
       DEF JobsAreDown, Skipped, Moving, Placing, Loaded, Registered, TypeOK, Comp, Command
  <2> QED
    BY <2>1, DisplaceStep DEF WayBack, Reachable, Loaded, Registered
<1>6. OnTrack'
  <2>1. /\ UNCHANGED <<manifest, job, taken, pc, at, run, owed, overtaken, outcome>>
        /\ pc \in Moving
    BY DisplaceStep DEF Displace, ghosts
  <2>2. \A c \in Comp : plist[c] # Alien => plist'[c] # Alien
    BY DisplaceStep DEF TypeOK
  <2>3. owed => Untouched'
    BY <2>1, <2>2 DEF OnTrack, Untouched
  <2> QED
    BY <2>1, <2>3 DEF OnTrack, Moving, Placing, Recovering, Loaded, Registered
<1>7. FailureEnds' BY DEF FailureEnds, Displace, Moving, Placing
<1> QED BY <1>1, <1>2, <1>3, <1>4, <1>5, <1>6, <1>7

\* The way back through a plist put in its place: what the files and the
\* record are then.
LEMMA PutHeals ==
  ASSUME HealInv, RuntimeInv', Clean' => Clean, Put, PutDone
  PROVE  BooksAreKept' /\ AllTouched' /\ FilesInStep' /\ UndoKnows' /\ WayBack'
<1> USE RuntimeAssumption DEF HealInv, RuntimeInv, All
<1>0. pc \in Moving /\ ((pc \in Placing /\ Placed) \/ NotPlaced) /\ at \in Comp
  BY DEF Put, TypeOK
<1>1. BooksAreKept' BY PutEffect DEF BooksAreKept, WellKept
<1>2. AllTouched'
  <2>1. pc = "place" /\ pc' = "boot" => at = Count
    BY <1>0, AdvanceStep DEF Placed, NotPlaced, Enter, Backward
  <2>2. pc' \in {"boot", "commit"} => pc = "place" /\ pc' = "boot"
    BY PutEffect DEF Moving, Placing
  <2>3. run'.touched = IF pc = "place" THEN at ELSE run.touched
    BY PutEffect
  <2> QED
    BY <2>1, <2>2, <2>3 DEF AllTouched
<1>3. FilesInStep'
  <2>1. /\ pc \in Moving /\ at \in 1 .. Count /\ run.touched \in 0 .. Count
        /\ plist \in [Comp -> File]
    BY <1>0 DEF TypeOK, Comp, Command
  <2>2. \A c \in Comp : c # at => plist'[c] = plist[c]
    BY <2>1, PutEffect
  <2>3. /\ staged' = staged /\ manifest' = manifest /\ held' = None
        /\ run'.old = run.old /\ run'.kind = run.kind /\ run'.ver = run.ver
        /\ run'.touched = IF pc = "place" THEN at ELSE run.touched
    BY PutEffect
  <2>4. /\ pc' = pc => at' = IF pc = "bPlace" THEN at - 1 ELSE at + 1
        /\ pc = "place" /\ pc' = "boot" => at' = 1
    BY PutEffect
  <2>5. pc \in {"place", "rPlace"} /\ pc' = pc => plist'[at] = Wanted
    BY <2>1, PutDone DEF PutDone, Skipped, Placed, NotPlaced, Advance, Enter, Finish, Comp
  <2>6. CASE pc = "place"
    <3>1. pc' \in {"place", "boot", "look"} /\ Wanted = run.ver
      BY <2>6, PutEffect
    <3>2. pc' = "boot" => plist'[at] = run.ver /\ at = Count
      BY <2>1, <2>6, <3>1, PutDone, AdvanceStep
      DEF PutDone, Skipped, Placed, NotPlaced, Enter, Backward, Comp
    <3> QED
      BY <2>1, <2>2, <2>3, <2>4, <2>5, <2>6, <3>1, <3>2 DEF FilesInStep, Comp
  <2>7. CASE pc = "rPlace"
    <3>1. pc' \in {"rPlace", "rBoot", "idle"} /\ Wanted = staged[at]
      BY <2>7, PutEffect
    <3>2. pc' = "rBoot" => plist'[at] = staged[at] /\ at = Count
      BY <2>1, <2>7, <3>1, PutDone, AdvanceStep
      DEF PutDone, Skipped, Placed, NotPlaced, Finish, Backward, Comp
    <3> QED
      BY <2>1, <2>2, <2>3, <2>4, <2>5, <2>7, <3>1, <3>2 DEF FilesInStep, Comp
  <2>8. CASE pc = "bPlace"
    <3>1. pc' \in {"bPlace", "bBoot"} /\ Wanted = run.old.sha[at]
      BY <2>8, PutEffect
    <3>2. pc' = "bBoot" => at = 1
      BY <1>0, <2>1, <2>8, AdvanceStep DEF Placed, NotPlaced, Backward, Comp
    <3>3. ~run'.failed => ~run.failed /\ (plist'[at] = run.old.sha[at] \/ (Skipped /\ plist' = plist))
      BY <2>1, <2>8, <3>1, PutDone DEF PutDone, Placed, NotPlaced, TypeOK, Command
    <3>4. at > run.touched => plist' = plist
      BY <2>8 DEF Skipped, Put
    <3>5. ~run'.failed /\ plist'[at] # Alien => plist'[at] = run.old.sha[at]
      BY <2>1, <2>8, <3>3 DEF FilesInStep, Skipped, Comp
    <3> QED
      BY <2>1, <2>2, <2>3, <2>4, <2>8, <3>1, <3>2, <3>3, <3>4, <3>5 DEF FilesInStep, Comp
  <2>9. CASE pc = "putBack"
    <3>1. pc' \in {"putBack", "resume"}
      BY <2>9, PutEffect
    <3> QED
      BY <2>3, <3>1 DEF FilesInStep
  <2>10. CASE pc \in {"rClear", "clear"}
    <3>1. pc' \in {"idle", "putBack"}
      BY <2>10, PutEffect
    <3> QED
      BY <2>3, <3>1 DEF FilesInStep
  <2> QED
    BY <2>1, <2>6, <2>7, <2>8, <2>9, <2>10 DEF Moving, Placing
<1>4. UndoKnows'
  <2>1. pc \in Moving /\ manifest' = manifest /\ overtaken' = overtaken
        /\ run'.old = run.old /\ run'.ver = run.ver
    BY PutEffect DEF ghosts
  <2>2. pc' \in Undoing => pc \in {"place", "bPlace"}
    BY <2>1, PutEffect DEF Undoing, Moving, Placing
  <2> QED
    BY <2>1, <2>2 DEF UndoKnows, Announced, PhaseFits, InstallOnly, Undoing
<1>5. WayBack'
  <2>1. plist' # plist => Loaded = {}
    BY PutEffect
       DEF JobsAreDown, Skipped, Moving, Placing, Loaded, Registered, TypeOK, Comp, Command
  <2> QED
    BY <2>1, PutEffect DEF WayBack, Reachable, Loaded, Registered, ghosts
<1> QED BY <1>1, <1>2, <1>3, <1>4, <1>5

\* The way back through a plist published.
LEMMA PublishHeals ==
  ASSUME HealInv, RuntimeInv', SeenFits', Clean' => Clean, NEW r \in Outcomes, Publish(r)
  PROVE  HealInv'
<1> USE RuntimeAssumption DEF HealInv, RuntimeInv, All
<1>0. Put /\ PutDone
  BY PublishPuts, PublishDone
<1>1. BooksAreKept' /\ AllTouched' /\ FilesInStep' /\ UndoKnows' /\ WayBack'
  BY <1>0, PutHeals
<1>2. OnTrack'
  <2> SUFFICES ASSUME owed' PROVE OnTrack'
    BY DEF OnTrack
  <2>1. owed /\ r = "ok"
    BY DEF Publish, Luck
  <2>2. /\ Untouched /\ ~overtaken /\ Clean /\ pc \in {"place", "rPlace"}
        /\ at \in 1 .. Count
    BY <2>1, PublishStep DEF OnTrack, Untouched, Clean, Placing, Recovering, TypeOK, Comp
  <2>3. Wanted # None /\ Wanted # Alien
    BY <2>2, <1>0, PutEffect DEF TypeOK, Command, PhaseFits, StagedIsAnnounced, Comp, Own
  <2>4. ~Skipped
    BY <2>2 DEF Skipped
  <2>5. ASSUME pc = "place" PROVE plist[at] = None /\ (held # None \/ Basis = None)
    <3>1. plist[at] = IF held # None THEN None ELSE run.old.sha[at]
      BY <2>2, <2>5 DEF Clean, FilesInStep, Comp
    <3>2. Basis = run.old.sha[at]
      BY <2>5 DEF Basis
    <3> QED
      BY <2>2, <2>3, <2>4, <2>5, <3>1, <3>2 DEF Publish, Displaceable, Placing, Moving
  <2>6. ASSUME pc = "rPlace"
        PROVE  \/ plist[at] = None /\ (held # None \/ Basis = None)
               \/ held = None /\ plist[at] = Wanted
    <3>1. plist[at] \in {None, manifest.sha[at], manifest.prev[at]}
      BY <2>2 DEF LedgerCovers, Clean, Comp
    <3>2. held # None => plist[at] = None
      BY <2>2 DEF Clean, FilesInStep, Comp
    <3>3. Basis = plist[at]
      BY <2>6, <3>1 DEF Basis
    <3> QED
      BY <2>2, <2>3, <2>4, <2>6, <3>2, <3>3 DEF Publish, Displaceable, Placing, Moving
  <2>7. Placed /\ (plist' = plist \/ plist' = [plist EXCEPT ![at] = Wanted])
    BY <2>1, <2>2, <2>4, <2>5, <2>6 DEF Publish
  <2>8. pc' \in {"place", "boot", "rPlace", "rBoot"} /\ (pc' \in {"boot", "rBoot"} => at' = 1)
    BY <2>2, <2>7 DEF Placed, Advance, Enter, Backward
  <2>9. UNCHANGED <<job, taken, manifest, overtaken>>
    BY <1>0, PutEffect DEF ghosts
  <2>10. Untouched' /\ ~overtaken'
    BY <2>2, <2>3, <2>7, <2>9 DEF Untouched, TypeOK
  <2>11. pc' = "rBoot" => Loaded' = {}
    BY <2>2, <2>8, <2>9, <1>0, PutEffect DEF JobsAreDown, Loaded, Registered
  <2> QED
    BY <2>8, <2>10, <2>11 DEF OnTrack, Recovering, Loaded, Comp
<1>3. FailureEnds' BY DEF FailureEnds, Publish, Running, Finish, Placing, Placed, NotPlaced
<1> QED BY <1>1, <1>2, <1>3

\* The way back through a foreign file given back, or left aside: the command
\* that has moved one is not one that meets no trouble.
LEMMA GiveBackHeals ==
  ASSUME HealInv, RuntimeInv', SeenFits', Clean' => Clean, owed => held # Alien,
         NEW private \in BOOLEAN, GiveBack(private)
  PROVE  HealInv'
<1> USE RuntimeAssumption DEF HealInv, RuntimeInv
<1>0. Put /\ PutDone
  BY GiveBackPuts, GiveBackDone
<1>1. BooksAreKept' /\ AllTouched' /\ FilesInStep' /\ UndoKnows' /\ WayBack'
  BY <1>0, PutHeals
<1>2. held = Alien
  BY GiveBackStep DEF SeenFits
<1>3. OnTrack'
  BY <1>2, GiveBackStep DEF OnTrack
<1>4. FailureEnds'
  BY <1>0 DEF FailureEnds, Put, Moving, Placing, Running, Finish, Placed, NotPlaced
<1> QED BY <1>1, <1>3, <1>4

\* The way back through a job brought up.
LEMMA BootHeals ==
  ASSUME HealInv, RuntimeInv', SeenFits', Clean' => Clean, NEW r \in Outcomes, Boot(r)
  PROVE  HealInv'
<1> USE RuntimeAssumption DEF HealInv, RuntimeInv, All
<1>1. BooksAreKept' BY BootStep, BootEffect DEF ghosts, world, BooksAreKept, WellKept
<1>2. AllTouched'
  BY BootStep, BootEffect
     DEF Advance, Enter, Last, Backward, Finish, Running, ghosts, world, AllTouched, TypeOK
<1>3. FilesInStep'
  <2>1. /\ plist' = plist /\ staged' = staged /\ manifest' = manifest /\ held' = held
        /\ run'.old = run.old /\ run'.kind = run.kind /\ run'.ver = run.ver
        /\ run'.touched = run.touched /\ pc \in Booting /\ held = None
    BY BootEffect DEF PhaseFits, Placing, Moving, Booting
  <2>2. pc' \in CASE pc = "rBoot" -> {"rBoot", "rCommit", "idle"}
                 [] pc = "boot" -> {"boot", "commit", "look"}
                 [] pc = "bBoot" -> {"bBoot", "bSettle", "giveUp"}
                 [] pc = "reBoot" -> {"reBoot", "uSettle"}
    BY BootEffect
  <2>3. pc \in {"bBoot", "reBoot"} /\ run.failed => run'.failed
    BY BootStep DEF TypeOK, Command
  <2>4. pc = "rBoot" => manifest.state = "installing"
    BY DEF PhaseFits
  <2>5. pc \in {"boot", "bBoot"} => run.kind # "uninstall"
    BY DEF PhaseFits, InstallOnly, Undoing
  <2> QED
    BY <2>1, <2>2, <2>3, <2>4, <2>5 DEF FilesInStep, Clean, Booting, AllTouched, Comp
<1>4. UndoKnows'
  <2>1. manifest' = manifest /\ overtaken' = overtaken /\ pc \in Booting
        /\ run'.old = run.old /\ run'.ver = run.ver
    BY BootEffect DEF ghosts
  <2>2. pc' \in Undoing => pc \in {"boot", "bBoot"}
    BY <2>1, BootEffect DEF Undoing, Booting
  <2>3. pc = "boot" => run.kind # "uninstall"
    BY DEF PhaseFits, InstallOnly
  <2> QED
    BY <2>1, <2>2, <2>3 DEF UndoKnows, Announced, Undoing
<1>5. WayBack'
  <2> SUFFICES ASSUME ~rebooted', ~overtaken', Clean', manifest'.state \in Interrupted
               PROVE Reachable'
    BY DEF WayBack
  <2>1. /\ plist' = plist /\ manifest' = manifest /\ pc \in Booting
        /\ ~rebooted /\ ~overtaken /\ Clean
    BY BootEffect DEF ghosts
  <2>2. CASE job' = job
    BY <2>1, <2>2 DEF WayBack, Reachable, Loaded, Registered
  <2>3. CASE pc \in {"bBoot", "reBoot"} => ~run.failed
    <3>1. plist \in [Comp -> File] /\ manifest \in Book /\ run.old.sha \in [Comp -> Own]
      BY DEF TypeOK, Command, Book
    <3>2. pc = "rBoot" => plist = manifest.sha
      BY <2>1, <3>1 DEF Clean, FilesInStep, StagedIsAnnounced, PhaseFits, Book
    <3>3. pc = "boot" => manifest.sha = All(run.ver)
      BY <2>1 DEF Announced, PhaseFits, InstallOnly, Manifest
    <3>4. pc = "boot" => plist = All(run.ver)
      BY <2>1, <3>1 DEF Clean, FilesInStep
    <3>5. pc \in {"bBoot", "reBoot"} => plist = run.old.sha
      BY <2>1, <2>3, <3>1 DEF Clean, FilesInStep
    <3>6. pc = "bBoot" => manifest.state = "installing" /\ manifest.prev = run.old.sha
      BY <2>1 DEF UndoKnows, Undoing, Manifest
    <3>7. pc = "reBoot" => manifest.sha = run.old.sha
      BY <2>1 DEF UnannouncedIsUndone, Manifest
    <3> QED
      BY <2>1, <3>2, <3>3, <3>4, <3>5, <3>6, <3>7 DEF Reachable, Booting
  <2> QED
    BY <2>2, <2>3, BootStep
<1>6. OnTrack'
  <2> SUFFICES ASSUME owed' PROVE OnTrack'
    BY DEF OnTrack
  <2>1. owed /\ r = "ok"
    BY DEF Boot, Luck
  <2>2. /\ Untouched /\ ~overtaken /\ Clean /\ pc \in {"boot", "rBoot"}
        /\ at \in 1 .. Count
    BY <2>1, BootStep DEF OnTrack, Untouched, Clean, Booting, Recovering, TypeOK, Comp
  <2>3. ToBoot = IF pc = "boot" THEN run.ver ELSE staged[at]
    BY <2>2 DEF ToBoot
  <2>4. ToBoot # None /\ plist[at] = ToBoot
    BY <2>2, <2>3 DEF Clean, FilesInStep, PhaseFits, StagedIsAnnounced, TypeOK, Command, Comp
  <2>5. job[at] = None
    BY <2>1, <2>2 DEF OnTrack, JobsAreDown, Registered, Comp
  <2>6. Ready /\ ~Spared /\ ~taken[at]
    BY <2>2, <2>4, <2>5 DEF Ready, Spared, Listeners, Untouched, Comp
  <2>7. seen # None /\ seen = ToBoot
    BY <2>2, <2>6 DEF Boot, SeenFits, Booting
  <2>8. /\ Advance(IF pc = "boot" THEN "commit" ELSE "rCommit") /\ Running
        /\ job' = [job EXCEPT ![at] = plist[at]]
    BY <2>1, <2>2, <2>4, <2>6, <2>7 DEF Boot
  <2>9. \/ pc' = pc /\ at' = at + 1
        \/ pc = "boot" /\ pc' = "commit" /\ at = Count
        \/ pc = "rBoot" /\ pc' = "rCommit" /\ at = Count
    BY <2>2, <2>8, AdvanceStep DEF Backward, Comp
  <2>10. /\ UNCHANGED <<plist, taken, manifest, overtaken>> /\ run'.kind = run.kind
    BY BootEffect DEF ghosts
  <2>11. \A c \in Comp : Registered(c)' <=> (c = at \/ Registered(c))
    BY <2>4, <2>8 DEF Registered, TypeOK
  <2>12. Untouched' /\ ~overtaken'
    BY <2>2, <2>8, <2>10 DEF Untouched, TypeOK, Comp
  <2>13. \A c \in Comp : c < at => Registered(c)
    BY <2>1, <2>2 DEF OnTrack
  <2>14. pc' \in {"commit", "rCommit"} => Loaded' = Comp
    BY <2>2, <2>9, <2>11, <2>13 DEF Loaded, Comp
  <2>15. pc' = "boot" => \A c \in Comp : c < at' => Registered(c)'
    BY <2>2, <2>9, <2>11, <2>13 DEF Comp
  <2>16. pc' = "rBoot" => \A c \in Comp : c < at' <=> Registered(c)'
    BY <2>1, <2>2, <2>9, <2>11 DEF OnTrack, Comp
  <2>17. pc' = "rCommit" => manifest'.state = "installing"
    BY <2>2, <2>9, <2>10 DEF PhaseFits
  <2> QED
    BY <2>2, <2>9, <2>12, <2>14, <2>15, <2>16, <2>17, <2>10, RuntimeAssumption
    DEF OnTrack, Recovering, PhaseFits, InstallOnly
<1>7. FailureEnds' BY DEF FailureEnds, Boot, Running, Finish, Booting
<1> QED BY <1>1, <1>2, <1>3, <1>4, <1>5, <1>6, <1>7

\* The way back through a plist removed.
LEMMA ClearHeals ==
  ASSUME HealInv, RuntimeInv', SeenFits', Clean' => Clean, NEW r \in Outcomes, Clear(r)
  PROVE  HealInv'
<1> USE RuntimeAssumption DEF HealInv, RuntimeInv, All
<1>1. BooksAreKept' BY ClearStep DEF BooksAreKept, WellKept, TypeOK, PhaseFits
<1>2. AllTouched'
  <2>1. pc' \in {"boot", "commit"} => pc = "clear"
    BY ClearStep DEF Advance, Enter, Finish
  <2>2. pc = "clear" => run.kind = "uninstall"
    BY DEF PhaseFits, UninstallOnly
  <2>3. pc' # "boot" /\ run' = run
    BY ClearStep DEF Advance, Enter, Finish
  <2> QED
    BY <2>1, <2>2, <2>3 DEF AllTouched
<1>3. FilesInStep'
  <2>1. /\ pc \in {"clear", "rClear"} /\ at \in 1 .. Count /\ held' = None
        /\ UNCHANGED <<staged, manifest, run>>
        /\ \A c \in Comp : c # at => plist'[c] = plist[c]
    BY ClearStep DEF TypeOK, Comp
  <2>2. pc' \in IF pc = "clear" THEN {"clear", "commit", "putBack"} ELSE {"rClear", "rCommit", "idle"}
    BY ClearStep DEF Advance, Enter, Finish
  <2>3. pc' = pc => at' = at + 1
    BY <2>1, ClearStep, AdvanceStep DEF Comp, Enter, Finish, Backward
  <2>4. pc' \in {"commit", "rCommit"} => at = Count
    BY <2>1, ClearStep, AdvanceStep DEF Comp, Enter, Finish, Backward
  <2>5. pc' \in {"clear", "rClear", "commit", "rCommit"} /\ plist'[at] # Alien => plist'[at] = None
    <3>1. pc = "clear" /\ held = None /\ plist[at] # Alien => plist[at] = Basis
      BY <2>1 DEF FilesInStep, Comp, Basis
    <3>2. plist \in [Comp -> File]
      BY DEF TypeOK
    <3> QED
      BY <2>1, <3>1, <3>2 DEF Clear, NotPlaced, Enter, Finish, Comp
  <2>6. (pc = "clear" => run.kind = "uninstall") /\ (pc = "rClear" => manifest.state = "uninstalling")
    BY DEF PhaseFits, UninstallOnly
  <2> QED
    BY <2>1, <2>2, <2>3, <2>4, <2>5, <2>6 DEF FilesInStep, Comp
<1>4. UndoKnows'
  BY ClearStep
     DEF Advance, Enter, Last, Backward, Finish, Running, ghosts, world, UndoKnows, TypeOK,
         PhaseFits, Announced, Progress, Manifest, Undoing, Interrupted
<1>5. WayBack'
  <2>1. Loaded = {}
    BY ClearStep DEF JobsAreDown, Loaded, Registered
  <2> QED
    BY <2>1, ClearStep DEF WayBack, Reachable, Loaded, Registered, ghosts
<1>6. OnTrack'
  <2> SUFFICES ASSUME owed' PROVE OnTrack'
    BY DEF OnTrack
  <2>1. owed /\ r = "ok"
    BY DEF Clear, Luck
  <2>2. /\ Untouched /\ ~overtaken /\ Clean /\ pc \in {"clear", "rClear"}
        /\ at \in 1 .. Count /\ Loaded = {}
    BY <2>1, ClearStep
       DEF OnTrack, Untouched, Clean, JobsAreDown, Loaded, Registered, TypeOK, Comp
  <2>3. /\ held # None => plist[at] = None
        /\ pc = "clear" /\ held = None => plist[at] = Basis
    BY <2>2 DEF Clean, FilesInStep, Comp, Basis
  <2>4. pc = "rClear" => plist[at] \in {None, Basis}
    BY <2>2 DEF LedgerCovers, Clean, PhaseFits, BooksAreKept, WellKept, Comp, Basis
  <2>5. /\ Advance(IF pc = "clear" THEN "commit" ELSE "rCommit") /\ Running
        /\ run' = run /\ plist' = plist
    BY <2>1, <2>2, <2>3, <2>4 DEF Clear, Displaceable, Skipped, Moving
  <2>6. pc' \in IF pc = "clear" THEN {"clear", "commit"} ELSE {"rClear", "rCommit"}
    BY <2>2, <2>5 DEF Advance, Enter
  <2>7. UNCHANGED <<plist, job, taken, manifest, overtaken, run>>
    BY <2>5, ClearStep DEF ghosts
  <2>8. Untouched' /\ Loaded' = {}
    BY <2>2, <2>7, RuntimeAssumption DEF Untouched, Loaded, Registered, TypeOK
  <2>9. (pc = "clear" => run.kind = "uninstall") /\ (pc = "rClear" => manifest.state = "uninstalling")
    BY DEF PhaseFits, UninstallOnly
  <2> QED
    BY <2>2, <2>6, <2>7, <2>8, <2>9 DEF OnTrack, Recovering
<1>7. FailureEnds' BY DEF FailureEnds, Clear, NotPlaced, Running, Enter, Finish
<1> QED BY <1>1, <1>2, <1>3, <1>4, <1>5, <1>6, <1>7

\* The way back through the settled record.
LEMMA CommitHeals ==
  ASSUME HealInv, RuntimeInv', SeenFits', Clean' => Clean, NEW r \in Outcomes, Commit(r)
  PROVE  HealInv'
<1> USE RuntimeAssumption DEF HealInv, RuntimeInv, All
<1>1. BooksAreKept'
  BY CommitStep
     DEF Owned, Listeners, Registered, Manifest, ghosts, world, BooksAreKept, WellKept, TypeOK,
         PhaseFits
<1>2. AllTouched' BY CommitStep DEF AllTouched, TypeOK, PhaseFits, Progress
<1>3. FilesInStep'
  <2>1. /\ UNCHANGED <<plist, staged, run, held>> /\ pc \in {"commit", "rCommit"} /\ held = None
    BY CommitStep DEF PhaseFits, Placing, Moving
  <2>2. pc' \in {"idle", "plan", "look", "putBack"}
        /\ (pc' = "look" => pc = "commit" /\ run.kind # "uninstall")
    BY CommitStep
  <2> QED
    BY <2>1, <2>2 DEF FilesInStep, Clean, AllTouched, Comp
<1>4. UndoKnows'
  BY CommitStep
     DEF Owned, Listeners, Registered, Manifest, ghosts, world, UndoKnows, TypeOK, PhaseFits,
         Announced, Progress, Undoing, Interrupted
<1>5. WayBack'
  BY CommitStep
     DEF AllRun, AllGone, Owned, Listeners, Registered, Manifest, ghosts, world, WayBack, Clean,
         Reachable, Loaded
<1>6. OnTrack'
  <2> SUFFICES ASSUME owed' PROVE OnTrack'
    BY DEF OnTrack
  <2>1. owed /\ r = "ok"
    BY DEF Commit, Luck
  <2>2. /\ Untouched /\ ~overtaken /\ Clean /\ pc \in {"commit", "rCommit"}
        /\ plist \in [Comp -> File] /\ staged \in [Comp -> Own]
        /\ UNCHANGED <<plist, job, taken, run>>
    BY <2>1, CommitStep DEF OnTrack, Untouched, Clean, TypeOK
  <2>3. \A c \in Comp : Owned(c) /\ (~Registered(c) => Listeners(c) = {})
    BY <2>2 DEF Owned, Listeners, Registered, Untouched
  <2>4. CASE pc = "commit" /\ run.kind # "uninstall"
    <3>1. plist = All(run.ver) /\ Loaded = Comp
      BY <2>1, <2>2, <2>4 DEF Clean, FilesInStep, OnTrack
    <3>2. AllRun(All(run.ver))
      BY <2>3, <3>1 DEF AllRun, Loaded
    <3>3. Finish("ok") /\ overtaken' = (overtaken \/ FALSE)
      BY <2>1, <2>4, <3>2 DEF Commit
    <3> QED
      BY <2>2, <3>3 DEF OnTrack, Finish, Untouched
  <2>5. CASE pc = "commit" /\ run.kind = "uninstall"
    <3>1. plist = All(None) /\ Loaded = {}
      BY <2>2, <2>5 DEF Clean, FilesInStep, JobsAreDown, Loaded, Registered
    <3>2. AllGone
      BY <2>3, <3>1 DEF AllGone, Loaded
    <3>3. Finish("ok") /\ overtaken' = (overtaken \/ FALSE)
      BY <2>1, <2>5, <3>2 DEF Commit
    <3> QED
      BY <2>2, <3>3 DEF OnTrack, Finish, Untouched
  <2>6. CASE pc = "rCommit" /\ manifest.state = "installing"
    <3>1. plist = staged /\ Loaded = Comp
      BY <2>1, <2>2, <2>6 DEF Clean, FilesInStep, OnTrack
    <3>2. AllRun(staged)
      BY <2>3, <3>1 DEF AllRun, Loaded
    <3>3. /\ manifest' = Manifest("installed", staged, All(None))
          /\ IF run.kind = "install" THEN Finish("ok") ELSE Enter("plan") /\ Running
          /\ overtaken' = (overtaken \/ FALSE)
      BY <2>1, <2>6, <3>2 DEF Commit, Replaced
    <3> QED
      BY <2>2, <3>1, <3>3 DEF OnTrack, Finish, Enter, Untouched, Manifest, Settled, Recovering
  <2>7. CASE pc = "rCommit" /\ manifest.state = "uninstalling"
    <3>1. plist = All(None) /\ Loaded = {}
      BY <2>1, <2>2, <2>7 DEF Clean, FilesInStep, OnTrack
    <3>2. AllGone
      BY <2>3, <3>1 DEF AllGone, Loaded
    <3>3. /\ manifest' = Manifest("uninstalled", All(None), All(None))
          /\ IF run.kind = "uninstall" THEN Finish("ok") ELSE Enter("plan") /\ Running
          /\ overtaken' = (overtaken \/ FALSE)
      BY <2>1, <2>7, <3>2 DEF Commit, Replaced
    <3>4. Loaded' = {}
      BY <2>2, <3>1 DEF Loaded, Registered
    <3> QED
      BY <2>2, <3>1, <3>3, <3>4
         DEF OnTrack, Finish, Enter, Untouched, Manifest, Settled, Recovering
  <2> QED
    BY <2>2, <2>4, <2>5, <2>6, <2>7 DEF PhaseFits, Recovering, Interrupted
<1>7. FailureEnds' BY DEF FailureEnds, Commit, Running, Finish
<1> QED BY <1>1, <1>2, <1>3, <1>4, <1>5, <1>6, <1>7

\* The way back through rollback finding out what it needs.
LEMMA RecheckHeals ==
  ASSUME HealInv, RuntimeInv', SeenFits', Clean' => Clean, NEW r \in Outcomes, Recheck(r)
  PROVE  HealInv'
<1> USE RuntimeAssumption DEF HealInv, RuntimeInv, All
<1>1. BooksAreKept' BY RecheckStep DEF ghosts, world, BooksAreKept, WellKept, TypeOK, PhaseFits
<1>2. AllTouched' BY RecheckStep DEF AllTouched, TypeOK, PhaseFits, Progress
<1>3. FilesInStep'
  <2>1. held' = None /\ held = None
    BY RecheckStep DEF PhaseFits, Placing, Moving, world
  <2> QED
    BY <2>1, RecheckStep
       DEF FilesInStep, Clean, PhaseFits, Advance, Enter, Last, Finish, Backward, world, Comp,
           TypeOK
<1>4. UndoKnows'
  BY RecheckStep
     DEF UndoKnows, TypeOK, PhaseFits, Announced, Progress, Manifest, Undoing, Interrupted
<1>5. WayBack'
  BY RecheckStep
     DEF ghosts, world, WayBack, Clean, Reachable, Loaded, Registered, TypeOK, Interrupted
<1>6. OnTrack'
  <2> SUFFICES ASSUME owed' PROVE OnTrack'
    BY DEF OnTrack
  <2>1. owed /\ r = "ok"
    BY DEF Recheck, Luck
  <2>2. /\ Untouched /\ ~overtaken /\ Clean /\ pc = "recheck" /\ Reachable
        /\ UNCHANGED <<world, ghosts, run>>
    BY <2>1, RecheckStep DEF OnTrack, Untouched, Clean
  <2>3. Observed
    BY <2>2 DEF Observed, Owned, Listeners, Registered, Untouched, JobIsItsPlist
  <2>4. Resumable
    BY <2>2 DEF Resumable, LedgerCovers, Clean, StagedIsAnnounced, PhaseFits, Recovering,
       Interrupted, BooksAreKept, WellKept
  <2>5. pc' = "rHalt"
    BY <2>1, <2>2, <2>3, <2>4 DEF Recheck, Enter
  <2> QED
    BY <2>2, <2>5
       DEF OnTrack, Untouched, Reachable, Loaded, Registered, world, ghosts, Recovering
<1>7. FailureEnds' BY DEF FailureEnds, Recheck, Running, Finish
<1> QED BY <1>1, <1>2, <1>3, <1>4, <1>5, <1>6, <1>7

\* The way back through rollback bringing a job down.
LEMMA RHaltHeals ==
  ASSUME HealInv, RuntimeInv', SeenFits', Clean' => Clean, NEW r \in Outcomes, RHalt(r)
  PROVE  HealInv'
<1> USE RuntimeAssumption DEF HealInv, RuntimeInv, All
<1>1. BooksAreKept' BY RHaltStep DEF world, BooksAreKept, WellKept, TypeOK
<1>2. AllTouched'
  BY RHaltStep
     DEF Unloaded, Advance, Enter, Last, Backward, Finish, Running, ghosts, world, AllTouched,
         TypeOK, PhaseFits
<1>3. FilesInStep'
  <2>1. held' = None /\ held = None
    BY RHaltStep DEF PhaseFits, Placing, Moving
  <2> QED
    BY <2>1, RHaltStep
       DEF FilesInStep, Clean, PhaseFits, Advance, Enter, Last, Finish, Backward, world, Comp,
           TypeOK
<1>4. UndoKnows'
  BY RHaltStep
     DEF Unloaded, Advance, Enter, Last, Backward, Finish, Running, ghosts, world, UndoKnows,
         TypeOK, PhaseFits, Announced, Progress, Manifest, Undoing
<1>5. WayBack'
  BY RHaltStep
     DEF Unloaded, Advance, Enter, Last, Backward, Finish, Running, ghosts, world, WayBack,
         Clean, Reachable, Loaded, Registered, TypeOK, Interrupted
<1>6. OnTrack'
  <2> SUFFICES ASSUME owed' PROVE OnTrack'
    BY DEF OnTrack
  <2>1. owed /\ r = "ok"
    BY DEF RHalt, Luck
  <2>2. /\ Untouched /\ ~overtaken /\ Clean /\ pc = "rHalt" /\ Reachable
        /\ UNCHANGED <<plist, manifest, taken, run, ghosts>>
    BY <2>1, RHaltStep DEF OnTrack, Untouched, Clean
  <2>3. Observed
    BY <2>2 DEF Observed, Owned, Listeners, Registered, Untouched, JobIsItsPlist
  <2>4. /\ Unloaded(at) /\ Running
        /\ Advance(IF manifest.state = "installing" THEN "rPlace" ELSE "rClear")
    BY <2>1, <2>2, <2>3 DEF RHalt
  <2>5. pc' \in {"rHalt", "rPlace", "rClear"}
    BY <2>2, <2>4 DEF Advance, Enter
  <2>6. Loaded' \subseteq Loaded /\ Untouched' /\ ~overtaken'
    BY <2>2, <2>4 DEF Unloaded, Loaded, Registered, Untouched, TypeOK, ghosts
  <2>7. Reachable'
    BY <2>2, <2>6 DEF Reachable
  <2> QED
    BY <2>5, <2>6, <2>7 DEF OnTrack, Recovering
<1>7. FailureEnds' BY DEF FailureEnds, RHalt, Running, Finish
<1> QED BY <1>1, <1>2, <1>3, <1>4, <1>5, <1>6, <1>7

\* The way back through recovery looking at what is there.
LEMMA LookHeals ==
  ASSUME HealInv, RuntimeInv', SeenFits', Clean' => Clean, NEW r \in Outcomes, Look(r)
  PROVE  HealInv'
<1> USE RuntimeAssumption DEF HealInv, RuntimeInv, All
<1>1. BooksAreKept' BY LookStep DEF ghosts, world, BooksAreKept, WellKept, TypeOK, PhaseFits
<1>2. AllTouched' BY LookStep DEF AllTouched, TypeOK, PhaseFits, Progress
<1>3. FilesInStep'
  <2>1. held' = None /\ held = None
    BY LookStep DEF PhaseFits, Placing, Moving, world
  <2> QED
    BY <2>1, LookStep DEF FilesInStep, Clean, world, TypeOK, Comp
<1>4. UndoKnows'
  BY LookStep
     DEF ghosts, world, UndoKnows, TypeOK, PhaseFits, Announced, Progress, Manifest, Undoing,
         Interrupted
<1>5. WayBack'
  BY LookStep
     DEF ghosts, world, WayBack, Clean, Reachable, Loaded, Registered, TypeOK, Interrupted
<1>6. OnTrack'
  BY LookStep
     DEF Look, Luck, Running, Finish, Enter, Backward, Rest, Beyond, ghosts, world, OnTrack, TypeOK,
         Untouched, Comp, Reachable, Loaded, Registered, Recovering, Undoing
<1>7. FailureEnds' BY DEF FailureEnds, Look, Running, Finish
<1> QED BY <1>1, <1>2, <1>3, <1>4, <1>5, <1>6, <1>7

\* The way back through recovery bringing a job down.
LEMMA BHaltHeals ==
  ASSUME HealInv, RuntimeInv', SeenFits', Clean' => Clean, NEW r \in Outcomes, BHalt(r)
  PROVE  HealInv'
<1> USE RuntimeAssumption DEF HealInv, RuntimeInv, All
<1>1. BooksAreKept' BY BHaltStep DEF BooksAreKept, WellKept, TypeOK, PhaseFits
<1>2. AllTouched'
  BY BHaltStep DEF Loaded, Registered, Advance, Enter, AllTouched, TypeOK, PhaseFits, Progress
<1>3. FilesInStep'
  <2>1. held' = None /\ held = None
    BY BHaltStep DEF PhaseFits, Placing, Moving
  <2>2. pc' \in {"giveUp", "bHalt"} \/ (pc' = "bPlace" /\ at' = Count)
    BY BHaltStep, AdvanceStep DEF Backward, TypeOK
  <2> QED
    BY <2>1, <2>2, BHaltStep DEF FilesInStep, Clean, TypeOK, Comp
<1>4. UndoKnows'
  BY BHaltStep
     DEF Finish, Running, ghosts, world, UndoKnows, TypeOK, PhaseFits, Announced, Progress,
         Manifest, Undoing, Interrupted
<1>5. WayBack'
  BY BHaltStep
     DEF Unloaded, Tried, Loaded, Registered, Advance, Enter, Last, Backward, Finish, Running,
         ghosts, world, WayBack, Clean, Reachable, TypeOK
<1>6. OnTrack'
  BY BHaltStep
     DEF BHalt, Luck, Running, Finish, Enter, Backward, Rest, Beyond, Unloaded, Tried, Loaded,
         Registered, Advance, Last, ghosts, world, OnTrack, TypeOK, Untouched, Comp, Reachable,
         Recovering, Undoing
<1>7. FailureEnds' BY DEF FailureEnds, BHalt, Running, Finish
<1> QED BY <1>1, <1>2, <1>3, <1>4, <1>5, <1>6, <1>7

\* The way back through a failed command's settled record.
LEMMA BSettleHeals ==
  ASSUME HealInv, RuntimeInv', SeenFits', Clean' => Clean, NEW r \in Outcomes, BSettle(r)
  PROVE  HealInv'
<1> USE RuntimeAssumption DEF HealInv, RuntimeInv, All
<1>1. BooksAreKept' BY BSettleStep DEF BooksAreKept, WellKept, TypeOK, PhaseFits, Command, Book
<1>2. AllTouched' BY BSettleStep DEF AllTouched, TypeOK, PhaseFits, Progress, Comp
<1>3. FilesInStep'
  <2>1. held' = None /\ held = None
    BY BSettleStep DEF PhaseFits, Placing, Moving
  <2> QED
    BY <2>1, BSettleStep
       DEF FilesInStep, Clean, PhaseFits, Advance, Enter, Last, Finish, Backward, world, Comp,
           TypeOK
<1>4. UndoKnows'
  <2>1. run.old.state \notin Interrupted /\ run' = run /\ pc = "bSettle"
    BY BSettleStep DEF PhaseFits, Working, InstallOnly, Undoing
  <2> QED
    BY <2>1, BSettleStep DEF UndoKnows, Undoing
<1>5. WayBack'
  BY BSettleStep
     DEF Restored, Owned, Registered, Listeners, ghosts, world, WayBack, Clean, Reachable,
         Loaded, TypeOK, Interrupted
<1>6. OnTrack'
  BY BSettleStep
     DEF BSettle, Luck, Running, Finish, Enter, Backward, Rest, Beyond, Restored, Owned, Registered,
         Listeners, ghosts, world, OnTrack, TypeOK, Untouched, Comp, Reachable, Loaded,
         Recovering, Undoing
<1>7. FailureEnds' BY DEF FailureEnds, BSettle, Running, Finish
<1> QED BY <1>1, <1>2, <1>3, <1>4, <1>5, <1>6, <1>7

\* The way back through a command that gives up.
LEMMA GiveUpHeals ==
  ASSUME HealInv, RuntimeInv', SeenFits', Clean' => Clean, NEW r \in Outcomes, GiveUp(r)
  PROVE  HealInv'
<1> USE RuntimeAssumption DEF HealInv, RuntimeInv, All
<1>1. BooksAreKept' BY GiveUpStep DEF Manifest, ghosts, world, BooksAreKept, WellKept, TypeOK
<1>2. AllTouched' BY GiveUpStep DEF world, AllTouched, TypeOK, PhaseFits
<1>3. FilesInStep'
  <2>1. held' = None /\ held = None
    BY GiveUpStep DEF PhaseFits, Placing, Moving
  <2> QED
    BY <2>1, GiveUpStep
       DEF FilesInStep, Clean, PhaseFits, Advance, Enter, Last, Finish, Backward, world, Comp,
           TypeOK
<1>4. UndoKnows'
  BY GiveUpStep
     DEF world, UndoKnows, TypeOK, PhaseFits, Announced, Progress, Undoing, Interrupted
<1>5. WayBack'
  BY GiveUpStep
     DEF Manifest, ghosts, world, WayBack, Clean, Reachable, Loaded, Registered, TypeOK,
         Interrupted
<1>6. OnTrack'
  BY GiveUpStep
     DEF GiveUp, Luck, Running, Finish, Enter, Backward, Rest, Beyond, Manifest, ghosts, world,
         OnTrack, TypeOK, Untouched, Comp, Reachable, Loaded, Registered, Recovering, Undoing
<1>7. FailureEnds' BY DEF FailureEnds, GiveUp, Running, Finish
<1> QED BY <1>1, <1>2, <1>3, <1>4, <1>5, <1>6, <1>7

\* The way back through a command that takes up an interrupted one.
LEMMA ResumeHeals ==
  ASSUME HealInv, RuntimeInv', SeenFits', Clean' => Clean, NEW r \in Outcomes, Resume(r)
  PROVE  HealInv'
<1> USE RuntimeAssumption DEF HealInv, RuntimeInv, All
<1>1. BooksAreKept'
  BY ResumeStep, ResumeEffect DEF ghosts, world, BooksAreKept, WellKept, TypeOK, PhaseFits
<1>2. AllTouched' BY ResumeStep, ResumeEffect DEF AllTouched, TypeOK, PhaseFits, Progress
<1>3. FilesInStep'
  <2>1. held' = None /\ held = None
    BY ResumeStep DEF PhaseFits, Placing, Moving, world
  <2>2. run'.failed \/ plist = run.old.sha
    BY DEF Resume, TypeOK, Command
  <2> QED
    BY <2>1, <2>2, ResumeStep, ResumeEffect DEF FilesInStep, Clean, world
<1>4. UndoKnows'
  BY ResumeStep, ResumeEffect
     DEF UndoKnows, TypeOK, PhaseFits, Announced, Progress, Manifest, Undoing, Interrupted
<1>5. WayBack'
  BY ResumeStep, ResumeEffect
     DEF ghosts, world, WayBack, Clean, Reachable, Loaded, Registered, TypeOK, Interrupted
<1>6. OnTrack'
  BY ResumeStep, ResumeEffect
     DEF Resume, Luck, Running, Finish, Enter, Backward, Rest, Beyond, ghosts, world, OnTrack,
         TypeOK, Untouched, Comp, Reachable, Loaded, Registered, Recovering, Undoing
<1>7. FailureEnds' BY DEF FailureEnds, Resume, Running, Finish
<1> QED BY <1>1, <1>2, <1>3, <1>4, <1>5, <1>6, <1>7

\* The way back through an uninstall's settled record.
LEMMA USettleHeals ==
  ASSUME HealInv, RuntimeInv', SeenFits', Clean' => Clean, NEW r \in Outcomes, USettle(r)
  PROVE  HealInv'
<1> USE RuntimeAssumption DEF HealInv, RuntimeInv, All
<1>1. BooksAreKept'
  BY USettleStep
     DEF Restored, Manifest, Owned, Registered, Listeners, ghosts, world, BooksAreKept,
         WellKept, TypeOK, PhaseFits, Command
<1>2. AllTouched' BY USettleStep DEF world, AllTouched, TypeOK, PhaseFits, Progress, Comp
<1>3. FilesInStep'
  <2>1. held' = None /\ held = None
    BY USettleStep DEF PhaseFits, Placing, Moving
  <2> QED
    BY <2>1, USettleStep
       DEF FilesInStep, Clean, PhaseFits, Advance, Enter, Last, Finish, Backward, world, Comp,
           TypeOK
<1>4. UndoKnows'
  BY USettleStep
     DEF world, UndoKnows, TypeOK, PhaseFits, Announced, Progress, Undoing, Interrupted
<1>5. WayBack'
  BY USettleStep
     DEF Restored, Manifest, Owned, Registered, Listeners, ghosts, world, WayBack, Clean,
         Reachable, Loaded, TypeOK, Interrupted
<1>6. OnTrack'
  BY USettleStep
     DEF USettle, Luck, Running, Finish, Enter, Backward, Rest, Beyond, Restored, Manifest, Owned,
         Registered, Listeners, ghosts, world, OnTrack, TypeOK, Untouched, Comp, Reachable,
         Loaded, Recovering, Undoing
<1>7. FailureEnds' BY DEF FailureEnds, USettle, Running, Finish
<1> QED BY <1>1, <1>2, <1>3, <1>4, <1>5, <1>6, <1>7

\* The way back through the operator starting a command.
LEMMA StartHeals ==
  ASSUME HealInv, RuntimeInv', SeenFits', Clean' => Clean, NEW kind \in Kinds, NEW v \in Versions,
         Start(kind, v)
  PROVE  HealInv'
<1> USE RuntimeAssumption DEF HealInv, RuntimeInv, All
<1>1. BooksAreKept'
  BY DEF Start, Fresh, NoManifest, Manifest, Enter, Backward, ghosts, world, BooksAreKept,
         WellKept, TypeOK, PhaseFits, Command, Book, Working
<1>2. AllTouched'
  BY DEF Start, Fresh, NoManifest, Manifest, Enter, Backward, ghosts, world, AllTouched, TypeOK,
         PhaseFits, Progress
<1>3. FilesInStep'
  <2>1. held' = None /\ held = None
    BY DEF PhaseFits, Placing, Moving, Start, world
  <2>2. pc' \in {"recheck", "plan"}
    BY DEF Start, Enter
  <2> QED
    BY <2>1, <2>2 DEF FilesInStep
<1>4. UndoKnows'
  BY DEF Start, Fresh, NoManifest, Manifest, Enter, Backward, ghosts, world, UndoKnows, TypeOK,
         PhaseFits, Announced, Progress, Undoing, Interrupted
<1>5. WayBack'
  BY DEF Start, Fresh, NoManifest, Manifest, Enter, Backward, ghosts, world, WayBack, Clean,
         Reachable, Loaded, Registered, TypeOK, Interrupted
<1>6. OnTrack'
  <2> SUFFICES ASSUME owed' PROVE OnTrack'
    BY DEF OnTrack
  <2>1. /\ Untouched /\ ~overtaken /\ Clean
        /\ rebooted => Reachable \/ manifest.state \notin Interrupted
        /\ manifest.state # "rollback_required"
        /\ ~(kind = "install" /\ manifest.state = "installed" /\ Loaded # {})
    BY DEF Start, Owes, Untouched, Clean
  <2>2. /\ UNCHANGED <<world, ghosts>> /\ run'.kind = kind
        /\ pc' = IF manifest.state \in Interrupted THEN "recheck" ELSE "plan"
    BY DEF Start, Enter, Fresh
  <2>3. manifest.state \in Interrupted => Reachable
    BY <2>1 DEF WayBack
  <2>4. ASSUME manifest.state \in Settled
        PROVE  plist = manifest.sha /\ (Loaded # {} => manifest.state = "installed")
    <3>1. plist = manifest.sha
      BY <2>1, <2>4 DEF SettledIsTrue, Clean, TypeOK, Book
    <3>2. \A c \in Comp : job[c] \in {None, plist[c]}
      BY <2>1 DEF JobIsItsPlist, Clean
    <3>3. manifest.state # "installed" => manifest.sha = All(None)
      BY <2>4 DEF BooksAreKept, WellKept, Settled
    <3> QED
      BY <3>1, <3>2, <3>3 DEF Loaded, Registered
  <2>5. manifest.state \in Settled \cup Interrupted
    BY <2>1 DEF TypeOK, Book, States
  <2> QED
    BY <2>1, <2>2, <2>3, <2>4, <2>5
    DEF OnTrack, Untouched, Reachable, Loaded, Registered, world, ghosts, Recovering
<1>7. FailureEnds' BY DEF FailureEnds, Start, Running, Finish, Enter
<1> QED BY <1>1, <1>2, <1>3, <1>4, <1>5, <1>6, <1>7

\* The way back through a command that is killed.
LEMMA KillHeals ==
  ASSUME HealInv, RuntimeInv', SeenFits', Clean' => Clean, Kill
  PROVE  HealInv'
<1> USE RuntimeAssumption DEF HealInv, RuntimeInv, All
<1>1. BooksAreKept'
  BY DEF Kill, Mishap, Finish, Rest, Beyond, ghosts, world, BooksAreKept, WellKept, TypeOK,
         PhaseFits, Command, Book
<1>2. AllTouched'
  BY DEF Kill, Mishap, Finish, Rest, Beyond, ghosts, world, AllTouched, TypeOK, PhaseFits, Progress,
         Comp
<1>3. FilesInStep'
  BY DEF Kill, Mishap, Finish, Rest, Beyond, ghosts, world, FilesInStep, Clean, TypeOK, Comp,
         PhaseFits, Progress
<1>4. UndoKnows'
  BY DEF Kill, Mishap, Finish, Rest, Beyond, ghosts, world, UndoKnows, TypeOK, PhaseFits, Announced,
         Progress, Manifest, Undoing, Interrupted
<1>5. WayBack'
  BY DEF Kill, Mishap, Finish, Rest, Beyond, ghosts, world, WayBack, Clean, Reachable, Loaded,
         Registered, TypeOK
<1>6. OnTrack'
  BY DEF Kill, Luck, Running, Finish, Enter, Backward, Rest, Beyond, Mishap, ghosts, world, OnTrack,
         TypeOK
<1>7. FailureEnds' BY DEF FailureEnds, Kill, Running, Finish, Mishap
<1> QED BY <1>1, <1>2, <1>3, <1>4, <1>5, <1>6, <1>7

\* The way back through a reboot.
LEMMA RebootHeals ==
  ASSUME HealInv, RuntimeInv', SeenFits', Clean' => Clean, Reboot
  PROVE  HealInv'
<1> USE RuntimeAssumption DEF HealInv, RuntimeInv, All
<1>1. BooksAreKept'
  BY DEF Reboot, Mishap, Finish, Rest, Beyond, ghosts, world, BooksAreKept, WellKept, TypeOK,
         PhaseFits, Command, Book
<1>2. AllTouched'
  BY DEF Reboot, Mishap, Finish, Rest, Beyond, ghosts, world, AllTouched, TypeOK, PhaseFits,
         Progress, Comp
<1>3. FilesInStep'
  BY DEF Reboot, Mishap, Finish, Rest, Beyond, ghosts, world, FilesInStep, Clean, TypeOK, Comp,
         PhaseFits, Progress
<1>4. UndoKnows'
  BY DEF Reboot, Mishap, Finish, Rest, Beyond, ghosts, world, UndoKnows, TypeOK, PhaseFits,
         Announced, Progress, Manifest, Undoing, Interrupted
<1>5. WayBack'
  BY DEF Reboot, Mishap, Finish, Rest, Beyond, ghosts, world, WayBack, Clean, Reachable, Loaded,
         Registered, TypeOK
<1>6. OnTrack'
  BY DEF Reboot, Luck, Running, Finish, Enter, Backward, Rest, Beyond, Mishap, ghosts, world,
         OnTrack, TypeOK
<1>7. FailureEnds' BY DEF FailureEnds, Reboot, Running, Finish, Mishap
<1> QED BY <1>1, <1>2, <1>3, <1>4, <1>5, <1>6, <1>7

\* The way back through a stranger on the port.
LEMMA SquatHeals ==
  ASSUME HealInv, RuntimeInv', SeenFits', Clean' => Clean, NEW c \in Comp, Squat(c)
  PROVE  HealInv'
<1> USE RuntimeAssumption DEF HealInv, RuntimeInv, All
<1>1. BooksAreKept' BY DEF Squat, Mishap, Rest, Beyond, ghosts, world, BooksAreKept
<1>2. AllTouched' BY DEF Squat, Mishap, Rest, Beyond, ghosts, world, AllTouched
<1>3. FilesInStep' BY DEF Squat, Mishap, Rest, Beyond, ghosts, world, FilesInStep
<1>4. UndoKnows' BY DEF Squat, Mishap, Rest, Beyond, ghosts, world, UndoKnows
<1>5. WayBack'
  BY DEF Squat, Mishap, Rest, Beyond, ghosts, world, WayBack, Clean, Reachable, Loaded, Registered,
         TypeOK, Interrupted
<1>6. OnTrack'
  BY DEF Squat, Luck, Running, Finish, Enter, Backward, Rest, Beyond, Mishap, ghosts, world,
         OnTrack, TypeOK
<1>7. FailureEnds' BY DEF FailureEnds, Squat, Running, Finish, Mishap
<1> QED BY <1>1, <1>2, <1>3, <1>4, <1>5, <1>6, <1>7

\* The way back through a stranger leaving it.
LEMMA LeaveHeals ==
  ASSUME HealInv, RuntimeInv', SeenFits', Clean' => Clean, NEW c \in Comp, Leave(c)
  PROVE  HealInv'
<1> USE RuntimeAssumption DEF HealInv, RuntimeInv, All
<1>1. BooksAreKept' BY DEF Leave, Rest, Beyond, ghosts, world, BooksAreKept, WellKept
<1>2. AllTouched' BY DEF Leave, Rest, Beyond, ghosts, world, AllTouched, TypeOK
<1>3. FilesInStep' BY DEF Leave, Rest, Beyond, ghosts, world, FilesInStep, Clean
<1>4. UndoKnows' BY DEF Leave, Rest, Beyond, ghosts, world, UndoKnows, TypeOK
<1>5. WayBack'
  BY DEF Leave, Rest, Beyond, ghosts, world, WayBack, Clean, Reachable, Loaded, Registered, TypeOK,
         Interrupted
<1>6. OnTrack'
  BY DEF Leave, Luck, Running, Finish, Enter, Backward, Rest, Beyond, ghosts, world, OnTrack,
         TypeOK, Untouched
<1>7. FailureEnds' BY DEF FailureEnds, Leave, Running, Finish
<1> QED BY <1>1, <1>2, <1>3, <1>4, <1>5, <1>6, <1>7

\* The way back through somebody else's file in a plist's place.
LEMMA MeddleHeals ==
  ASSUME HealInv, RuntimeInv', SeenFits', Clean' => Clean, NEW c \in Comp, Meddle(c)
  PROVE  HealInv'
<1> USE RuntimeAssumption DEF HealInv, RuntimeInv, All
<1>1. BooksAreKept' BY DEF Meddle, Mishap, Rest, Beyond, ghosts, world, BooksAreKept
<1>2. AllTouched' BY DEF Meddle, Mishap, Rest, Beyond, ghosts, world, AllTouched
<1>3. FilesInStep'
  BY DEF Meddle, Mishap, Rest, Beyond, ghosts, world, FilesInStep, Clean, TypeOK, Comp, PhaseFits,
         Progress
<1>4. UndoKnows' BY DEF Meddle, Mishap, Rest, Beyond, ghosts, world, UndoKnows
<1>5. WayBack'
  BY DEF Meddle, Mishap, Rest, Beyond, ghosts, world, WayBack, Clean, Reachable, Loaded, Registered,
         TypeOK, Interrupted
<1>6. OnTrack'
  BY DEF Meddle, Luck, Running, Finish, Enter, Backward, Rest, Beyond, Mishap, ghosts, world,
         OnTrack, TypeOK
<1>7. FailureEnds' BY DEF FailureEnds, Meddle, Running, Finish, Mishap
<1> QED BY <1>1, <1>2, <1>3, <1>4, <1>5, <1>6, <1>7

\* The way back through the operator's own bootout.
LEMMA OperatorBootoutHeals ==
  ASSUME HealInv, RuntimeInv', SeenFits', Clean' => Clean, NEW c \in Comp, OperatorBootout(c)
  PROVE  HealInv'
<1> USE RuntimeAssumption DEF HealInv, RuntimeInv, All
<1>1. BooksAreKept' BY DEF OperatorBootout, Unloaded, Rest, Beyond, ghosts, world, BooksAreKept
<1>2. AllTouched' BY DEF OperatorBootout, Unloaded, Rest, Beyond, ghosts, world, AllTouched
<1>3. FilesInStep' BY DEF OperatorBootout, Unloaded, Rest, Beyond, ghosts, world, FilesInStep
<1>4. UndoKnows' BY DEF OperatorBootout, Unloaded, Rest, Beyond, ghosts, world, UndoKnows
<1>5. WayBack'
  BY DEF OperatorBootout, Unloaded, Rest, Beyond, ghosts, world, WayBack, Clean, Reachable, Loaded,
         Registered, TypeOK, Interrupted
<1>6. OnTrack'
  BY DEF OperatorBootout, Luck, Running, Finish, Enter, Backward, Rest, Beyond, Unloaded, ghosts,
         world, OnTrack, TypeOK, Untouched, Comp, Reachable, Loaded
<1>7. FailureEnds' BY DEF FailureEnds, OperatorBootout, Running, Finish
<1> QED BY <1>1, <1>2, <1>3, <1>4, <1>5, <1>6, <1>7

-----------------------------------------------------------------------------
(* Interrupted commands heal                                               *)

\* The machine begins with a way back.
LEMMA InitHealInv == Init => HealInv
<1> SUFFICES ASSUME Init PROVE HealInv
  OBVIOUS
<1>1. RuntimeInv
  BY InitRuntimeInv
<1>2. pc = "idle" /\ held = None /\ ~owed
  BY DEF Init
<1>3. BooksAreKept
  BY DEF Init, BooksAreKept, WellKept, NoManifest, Manifest, Fresh
<1>4. WayBack
  BY DEF Init, WayBack, NoManifest, Manifest, Interrupted
<1>6. FailureEnds
  BY DEF Init, FailureEnds
<1>5. AllTouched /\ FilesInStep /\ UndoKnows /\ OnTrack
  BY <1>2 DEF AllTouched, FilesInStep, UndoKnows, OnTrack, Undoing
<1>7. SeenFits
  BY DEF Init, SeenFits, Own
<1> QED
  BY <1>1, <1>3, <1>4, <1>5, <1>6, <1>7 DEF HealInv

\* What changes nothing leaves the way back.
LEMMA StutterHealInv == HealInv /\ RuntimeInv' /\ SeenFits' /\ UNCHANGED vars => HealInv'
<1> SUFFICES ASSUME HealInv, RuntimeInv', SeenFits', UNCHANGED vars PROVE HealInv'
  OBVIOUS
<1> USE DEF HealInv, vars, world, ghosts
<1>1. BooksAreKept' /\ AllTouched' /\ FailureEnds'
  BY DEF BooksAreKept, WellKept, AllTouched, FailureEnds
<1>2. FilesInStep'
  BY DEF FilesInStep, Clean
<1>3. UndoKnows' /\ WayBack'
  BY DEF UndoKnows, WayBack, Clean, Reachable, Loaded, Registered
<1>4. OnTrack'
  BY DEF OnTrack, Untouched, Reachable, Loaded, Registered
<1> QED
  BY <1>1, <1>2, <1>3, <1>4

\* A command without an excuse has not moved anybody else's file.
HoldsItsOwn == owed => held # Alien

LEMMA StepHoldsItsOwn == HealInv /\ HoldsItsOwn /\ [Next]_vars => HoldsItsOwn'
<1> SUFFICES ASSUME HealInv, HoldsItsOwn, [Next]_vars, owed' PROVE held' # Alien
  BY DEF HoldsItsOwn
<1> USE RuntimeAssumption DEF HealInv, HoldsItsOwn
<1>1. CASE Displace
  BY <1>1 DEF Displace, OnTrack, Untouched, RuntimeInv, TypeOK
<1>2. ASSUME NEW r \in Outcomes,
             \/ Plan(r) \/ Intent(r) \/ Halt(r) \/ Boot(r) \/ Commit(r) \/ Recheck(r) \/ RHalt(r)
             \/ Look(r) \/ BHalt(r) \/ BSettle(r) \/ GiveUp(r) \/ Resume(r) \/ USettle(r)
      PROVE  held' = held /\ owed
  BY <1>2 DEF Plan, Intent, Halt, Boot, Commit, Recheck, RHalt, Look, BHalt, BSettle, GiveUp,
              Resume, USettle, world, Luck
<1>3. ASSUME NEW r \in Outcomes, Publish(r) \/ Clear(r) PROVE held' = None
  BY <1>3 DEF Publish, Clear
<1>4. ASSUME NEW private \in BOOLEAN, GiveBack(private) PROVE held' = None
  BY <1>4 DEF GiveBack
<1>5. ASSUME NEW k \in 0 .. Count, Stage(k) PROVE held' = held /\ owed
  BY <1>5 DEF Stage, Luck
<1>6. ASSUME Match \/ Prepare PROVE held' = held /\ owed
  BY <1>6 DEF Match, Prepare, world
<1>7. CASE Step
  BY <1>1, <1>2, <1>3, <1>4, <1>5, <1>6, <1>7 DEF Step
<1>8. ASSUME NEW kind \in Kinds, NEW v \in Versions, Start(kind, v) PROVE held' = None
  BY <1>8 DEF Start, world, RuntimeInv, PhaseFits, Moving, Placing
<1>9. CASE Environment
  BY <1>9 DEF Environment, Kill, Reboot, Squat, Leave, Meddle, OperatorBootout, Mishap
<1>10. CASE UNCHANGED vars
  BY <1>10 DEF vars, world
<1> QED
  BY <1>7, <1>8, <1>9, <1>10 DEF Next, Kinds

\* Every step leaves a way back to the interrupted command's beginning or end.
LEMMA StepHealInv == HealInv /\ HoldsItsOwn /\ [Next]_vars => HealInv'
<1> SUFFICES ASSUME HealInv, HoldsItsOwn, [Next]_vars PROVE HealInv'
  OBVIOUS
<1>0. RuntimeInv' /\ SeenFits'
  BY StepRuntimeInv, StepSeenFits DEF HealInv
<1>1. CASE Displace
  BY <1>0, <1>1, DisplaceHeals
<1>2. CASE ~Displace
  <2>0. Clean' => Clean
    BY <1>2, CleanStays DEF HealInv, Sound
  <2>1. ASSUME NEW r \in Outcomes,
               Plan(r) \/ Intent(r) \/ Halt(r) \/ Publish(r) \/ Boot(r) \/ Clear(r) \/ Commit(r)
        PROVE  HealInv'
    BY <1>0, <2>0, <2>1, PlanHeals, IntentHeals, HaltHeals, PublishHeals, BootHeals, ClearHeals,
       CommitHeals
  <2>2. ASSUME NEW r \in Outcomes,
               Recheck(r) \/ RHalt(r) \/ Look(r) \/ BHalt(r) \/ BSettle(r) \/ GiveUp(r)
               \/ Resume(r) \/ USettle(r)
        PROVE  HealInv'
    BY <1>0, <2>0, <2>2, RecheckHeals, RHaltHeals, LookHeals, BHaltHeals, BSettleHeals, GiveUpHeals,
       ResumeHeals, USettleHeals
  <2>3. ASSUME NEW private \in BOOLEAN, GiveBack(private) PROVE HealInv'
    BY <1>0, <2>0, <2>3, GiveBackHeals DEF HoldsItsOwn
  <2>4. ASSUME Step PROVE HealInv'
    BY <1>0, <1>2, <2>0, <2>1, <2>2, <2>3, <2>4, StageHeals, MatchHeals DEF Step
  <2>5. ASSUME Environment PROVE HealInv'
    BY <1>0, <2>0, <2>5, KillHeals, RebootHeals, SquatHeals, LeaveHeals, MeddleHeals,
       OperatorBootoutHeals DEF Environment
  <2>6. ASSUME NEW kind \in Kinds, NEW v \in Versions, Start(kind, v) PROVE HealInv'
    BY <1>0, <2>0, <2>6, StartHeals
  <2>7. CASE UNCHANGED vars
    BY <1>0, <2>7, StutterHealInv
  <2> QED
    BY <2>4, <2>5, <2>6, <2>7 DEF Next, Kinds
<1> QED
  BY <1>1, <1>2

(* A command that starts from a state nobody else disturbed and meets no
   fault itself succeeds, whatever earlier commands and kills left behind:
   an interrupted install is rolled forward, an interrupted uninstall is
   finished, and the new command runs on what that left.                     *)
THEOREM InterruptedCommandsHeal == Spec => []HealsItself
<1>1. HealInv => HealsItself
  BY DEF HealInv, OnTrack, FailureEnds, HealsItself
<1>2. Init => HealInv /\ HoldsItsOwn
  BY InitHealInv DEF Init, HoldsItsOwn
<1>3. HealInv /\ HoldsItsOwn /\ [Next]_vars => (HealInv /\ HoldsItsOwn)'
  BY StepHealInv, StepHoldsItsOwn
<1> QED
  BY <1>1, <1>2, <1>3, PTL DEF Spec

-----------------------------------------------------------------------------
(* Write-ahead.  A command's undo may begin before its announcement has       *)
(* landed, but then it finds nothing to undo.                                 *)

AheadInv ==
  /\ run.tried > 0 \/ pc = "boot" => run.touched > 0
  /\ ~overtaken /\ pc \in Undoing \ {"giveUp"} /\ run.halted # {} => manifest.state = "installing"

\* A command that is about to move files or jobs has its record on disk.
LEMMA UnderWay ==
  ASSUME RuntimeInv, AheadInv, ~overtaken,
         \/ pc \in {"halt", "place", "boot", "clear", "putBack"} \cup Recovering
         \/ pc \in Undoing \ {"giveUp"} /\ (run.touched > 0 \/ run.tried > 0 \/ run.halted # {})
  PROVE  manifest.state \in Interrupted
<1>1. \A sha, prev : /\ Manifest("installing", sha, prev).state \in Interrupted
                     /\ Manifest("uninstalling", sha, prev).state \in Interrupted
  BY DEF Manifest, Interrupted
<1>2. CASE pc \in Recovering
  BY <1>2 DEF RuntimeInv, PhaseFits
<1>3. CASE pc \in {"halt", "place", "boot", "clear", "putBack"}
  <2>1. /\ pc \in {"place", "boot"} => run.kind # "uninstall"
        /\ pc \in {"clear", "putBack"} => run.kind = "uninstall"
    BY DEF RuntimeInv, PhaseFits, InstallOnly, UninstallOnly
  <2>2. \/ manifest = Manifest("installing", All(run.ver), run.old.sha)
        \/ manifest = Manifest("uninstalling", run.old.sha, All(None))
    BY <1>3, <2>1 DEF RuntimeInv, Announced
  <2> QED
    BY <1>1, <2>2
<1>4. CASE pc \in Undoing \ {"giveUp"} /\ (run.touched > 0 \/ run.tried > 0 \/ run.halted # {})
  <2>1. run.kind # "uninstall"
    BY <1>4 DEF RuntimeInv, PhaseFits, InstallOnly
  <2>2. CASE run.touched > 0
    BY <1>1, <1>4, <2>1, <2>2 DEF RuntimeInv, Announced
  <2>3. CASE run.halted # {}
    BY <1>4, <2>3 DEF AheadInv, Interrupted
  <2> QED
    BY <1>4, <2>2, <2>3 DEF AheadInv
<1> QED
  BY <1>2, <1>3, <1>4

\* No step of a command moves a plist or a job unannounced.
LEMMA StepIsAnnounced ==
  ASSUME Sound, AheadInv, ~overtaken, Step
  PROVE  manifest.state \in Interrupted \/ UNCHANGED <<plist, job>>
<1> SUFFICES ASSUME manifest.state \notin Interrupted PROVE UNCHANGED <<plist, job>>
  OBVIOUS
<1> USE DEF Sound
<1>1. ASSUME NEW r \in Outcomes, Halt(r) \/ RHalt(r) \/ Clear(r)
      PROVE  FALSE
  <2>1. pc \in {"halt", "clear"} \cup Recovering
    BY <1>1 DEF Halt, RHalt, Clear, Recovering
  <2> QED
    BY <2>1, UnderWay
<1>2. ASSUME pc \in Moving, ~Skipped PROVE FALSE
  <2>1. pc = "bPlace" => run.touched > 0
    <3>1. at \in Nat /\ at >= 1 /\ run.touched \in Nat
      BY RuntimeAssumption DEF RuntimeInv, TypeOK, Comp, Command
    <3> QED
      BY <1>2, <3>1 DEF Skipped
  <2>2. \/ pc \in {"place", "putBack", "clear"} \cup Recovering
        \/ pc = "bPlace" /\ pc \in Undoing \ {"giveUp"}
    BY <1>2 DEF Placing, Moving, Recovering, Undoing
  <2> QED
    BY <2>1, <2>2, UnderWay
<1>3. CASE Displace
  BY <1>2, <1>3, DisplaceStep, RuntimeAssumption
<1>4. ASSUME Put PROVE UNCHANGED <<plist, job>>
  BY <1>2, <1>4 DEF Put
<1>5. ASSUME NEW r \in Outcomes, Publish(r) PROVE UNCHANGED <<plist, job>>
  BY <1>5, <1>4, PublishPuts
<1>6. ASSUME NEW private \in BOOLEAN, GiveBack(private) PROVE UNCHANGED <<plist, job>>
  BY <1>4, <1>6, GiveBackPuts DEF RuntimeInv
<1>7. ASSUME Match \/ Prepare PROVE UNCHANGED <<plist, job>>
  BY <1>7 DEF Match, Prepare, world
<1>8. ASSUME NEW r \in Outcomes, Boot(r) PROVE UNCHANGED <<plist, job>>
  <2>1. pc \notin {"boot"} \cup Recovering
    BY UnderWay
  <2>2. pc \in {"bBoot", "reBoot"} /\ plist' = plist
    BY <1>8, <2>1, BootStep DEF Booting, Recovering
  <2>3. job' # job => at \in run.halted
    BY <1>8, <2>2, BootStep
  <2>4. pc = "bBoot" => run.halted = {}
    BY UnderWay DEF Undoing
  <2>5. pc = "reBoot" => run.halted = {}
    <3>1. Manifest("uninstalling", run.old.sha, All(None)).state \in Interrupted
      BY DEF Manifest, Interrupted
    <3> QED
      BY <3>1 DEF RuntimeInv, UnannouncedIsUndone
  <2> QED
    BY <2>2, <2>3, <2>4, <2>5
<1>9. ASSUME NEW r \in Outcomes, BHalt(r) PROVE UNCHANGED <<plist, job>>
  <2>1. pc = "bHalt" /\ plist' = plist
    BY <1>9, BHaltStep
  <2>2. run.tried \in Nat /\ ~(run.tried > 0)
    BY <2>1, UnderWay DEF Undoing, RuntimeInv, TypeOK, Command
  <2>3. at \notin Tried \cap Loaded
    BY <2>2 DEF Tried
  <2>4. job' = job
    BY <1>9, <2>3 DEF BHalt
  <2> QED
    BY <2>1, <2>4
<1>10. ASSUME NEW r \in Outcomes,
             Plan(r) \/ Intent(r) \/ Commit(r) \/ Recheck(r) \/ Look(r) \/ BSettle(r)
             \/ GiveUp(r) \/ Resume(r) \/ USettle(r)
      PROVE  UNCHANGED <<plist, job>>
  BY <1>10 DEF Plan, Intent, Commit, Recheck, Look, BSettle, GiveUp, Resume, USettle, world
<1>11. ASSUME NEW k \in 0 .. Count, Stage(k) PROVE UNCHANGED <<plist, job>>
  BY <1>11 DEF Stage
<1> QED
  BY <1>1, <1>3, <1>5, <1>8, <1>9, <1>10, <1>11, <1>6, <1>7 DEF Step

\* A step that leaves the command's progress and goes into no undo.
LEMMA QuietAhead ==
  ASSUME AheadInv,
         run'.tried = run.tried /\ run'.touched = run.touched,
         pc' = "boot" => pc = "boot",
         pc' \notin Undoing \ {"giveUp"}
  PROVE  AheadInv'
BY DEF AheadInv, Undoing

\* A step that leaves the command and its record.
LEMMA RestingAhead ==
  ASSUME AheadInv, run' = run, manifest' = manifest, overtaken' = overtaken,
         pc' = "boot" => pc = "boot",
         pc' \in Undoing \ {"giveUp"} => pc \in Undoing \ {"giveUp"}
  PROVE  AheadInv'
BY DEF AheadInv

LEMMA StepAheadInv == Sound /\ AheadInv /\ [Next]_vars => AheadInv'
<1> SUFFICES ASSUME Sound, AheadInv, [Next]_vars PROVE AheadInv'
  OBVIOUS
<1> USE DEF Sound
<1>1. /\ run \in Command /\ at \in Nat /\ at >= 1
      /\ run.tried \in Nat /\ run.touched \in Nat
  BY RuntimeAssumption DEF RuntimeInv, TypeOK, Comp, Command
<1>a. \A sha, prev : Manifest("installing", sha, prev).state = "installing"
  BY DEF Manifest
<1>2. ASSUME NEW r \in Outcomes, Plan(r) \/ Recheck(r) \/ RHalt(r) \/ Clear(r) \/ BSettle(r)
             \/ GiveUp(r) \/ Resume(r) \/ USettle(r)
      PROVE  AheadInv'
  <2>1. pc' \notin {"boot"} \cup (Undoing \ {"giveUp"})
    BY <1>2 DEF Plan, Recheck, RHalt, Clear, NotPlaced, BSettle, GiveUp, Resume, USettle,
         Enter, Finish, Advance, Undoing
  <2>2. run'.tried = run.tried /\ run'.touched = run.touched
    BY <1>1, <1>2 DEF Plan, Recheck, RHalt, Clear, NotPlaced, BSettle, GiveUp, Resume, USettle,
         Command
  <2> QED
    BY <2>1, <2>2, QuietAhead
<1>3. ASSUME NEW k \in 0 .. Count, Stage(k) PROVE AheadInv'
  BY <1>3, StageStep, QuietAhead DEF Undoing
<1>4. ASSUME NEW r \in Outcomes, Intent(r) PROVE AheadInv'
  <2>1. run'.tried = run.tried /\ run'.touched = run.touched /\ run'.halted = run.halted
    BY <1>1, <1>4, IntentStep DEF Command
  <2>2. pc' \in {"idle", "halt", "look", "resume"} /\ run.halted = {}
    BY <1>4, IntentStep DEF RuntimeInv, Progress
  <2> QED
    BY <2>1, <2>2 DEF AheadInv
<1>5. ASSUME NEW r \in Outcomes, Halt(r) PROVE AheadInv'
  <2>1. /\ run'.tried = run.tried /\ run'.touched = run.touched
        /\ manifest' = manifest /\ overtaken' = overtaken /\ pc = "halt"
    BY <1>1, <1>5, HaltStep DEF Command, ghosts
  <2>2. pc' # "boot"
    BY <1>5 DEF Halt, Advance, Enter
  <2>3. pc' \in Undoing => run.kind # "uninstall"
    BY <1>5 DEF Halt, Advance, Enter, Undoing
  <2>4. ~overtaken /\ run.kind # "uninstall" => manifest.state = "installing"
    BY <1>a, <2>1 DEF RuntimeInv, Announced
  <2> QED
    BY <2>1, <2>2, <2>3, <2>4 DEF AheadInv
<1>6. ASSUME Match \/ Displace \/ Prepare PROVE AheadInv'
  BY <1>6, RestingAhead DEF Match, Displace, Prepare, Beyond, ghosts, world
<1>7. ASSUME Put PROVE AheadInv'
  <2>1. /\ manifest' = manifest /\ overtaken' = overtaken
        /\ pc \in Moving /\ ((pc \in Placing /\ Placed) \/ NotPlaced)
    BY <1>7 DEF Put, ghosts
  <2>2. CASE pc = "place"
    <3>1. run' = [run EXCEPT !.touched = at]
      BY <2>1, <2>2 DEF Placed, NotPlaced
    <3>2. run'.touched > 0
      BY <1>1, <3>1 DEF Command
    <3>3. run.kind # "uninstall"
      BY <2>2 DEF RuntimeInv, PhaseFits, InstallOnly
    <3>4. ~overtaken => manifest.state = "installing"
      BY <1>a, <2>2, <3>3 DEF RuntimeInv, Announced
    <3> QED
      BY <2>1, <3>2, <3>4 DEF AheadInv
  <2>3. CASE pc # "place"
    <3>1. pc' # "boot" /\ (pc' \in Undoing \ {"giveUp"} => pc = "bPlace")
      BY <2>1, <2>3 DEF Placed, NotPlaced, Placing, Moving, Advance, Enter, Finish, Undoing
    <3>2. run' = run \/ run' = [run EXCEPT !.failed = TRUE]
      BY <2>1, <2>3 DEF Placed, NotPlaced, Placing, Moving
    <3>3. run'.tried = run.tried /\ run'.touched = run.touched /\ run'.halted = run.halted
      BY <1>1, <3>2 DEF Command
    <3> QED
      BY <2>1, <3>1, <3>3 DEF AheadInv, Undoing
  <2> QED
    BY <2>2, <2>3
<1>8. ASSUME NEW r \in Outcomes, Publish(r) PROVE AheadInv'
  BY <1>7, <1>8, PublishPuts
<1>9. ASSUME NEW private \in BOOLEAN, GiveBack(private) PROVE AheadInv'
  BY <1>7, <1>9, GiveBackPuts DEF RuntimeInv
<1>10. ASSUME NEW r \in Outcomes, Boot(r) PROVE AheadInv'
  <2>1. manifest' = manifest /\ overtaken' = overtaken
    BY <1>10, BootStep DEF ghosts
  <2>2. CASE pc = "boot"
    <3>1. run' = [run EXCEPT !.tried = at]
      BY <1>10, <2>2, BootStep
    <3>2. run'.touched = run.touched /\ run.touched > 0
      BY <1>1, <2>2, <3>1 DEF Command, AheadInv
    <3>3. run.kind # "uninstall"
      BY <2>2 DEF RuntimeInv, PhaseFits, InstallOnly
    <3>4. ~overtaken => manifest.state = "installing"
      BY <1>a, <2>2, <3>3 DEF RuntimeInv, Announced
    <3> QED
      BY <2>1, <3>2, <3>4 DEF AheadInv
  <2>3. CASE pc # "boot"
    <3>1. pc' # "boot" /\ (pc' \in Undoing \ {"giveUp"} => pc = "bBoot")
      BY <1>10, <2>3, BootStep DEF Booting, Advance, Enter, Finish, Undoing
    <3>2. run' = run \/ run' = [run EXCEPT !.failed = TRUE]
      BY <1>10, <2>3, BootStep
    <3>3. run'.tried = run.tried /\ run'.touched = run.touched /\ run'.halted = run.halted
      BY <1>1, <3>2 DEF Command
    <3> QED
      BY <2>1, <3>1, <3>3 DEF AheadInv, Undoing
  <2> QED
    BY <2>2, <2>3
<1>11. ASSUME NEW r \in Outcomes, Commit(r) PROVE AheadInv'
  <2>1. run' = run /\ pc' # "boot" /\ pc' \notin Undoing \ {"look", "giveUp"}
    BY <1>11, CommitStep DEF Undoing
  <2>2. pc' = "look" => pc = "commit" /\ run.kind # "uninstall"
    BY <1>11, CommitStep DEF RuntimeInv, PhaseFits
  <2>3. pc' = "look" /\ ~overtaken' => manifest' = manifest /\ ~overtaken
    <3>1. ~overtaken' => ~overtaken /\ ~(pc = "commit" /\ r = "late")
      BY <1>11, Zenon DEF Commit
    <3>2. pc' = "look" /\ pc = "commit" /\ r # "late" => manifest' = manifest
      BY <1>11 DEF Commit, Enter, Finish, Replaced
    <3> QED
      BY <2>2, <3>1, <3>2
  <2>4. pc' = "look" /\ ~overtaken' => manifest'.state = "installing"
    BY <1>a, <2>2, <2>3 DEF RuntimeInv, Announced
  <2> QED
    BY <2>1, <2>4 DEF AheadInv, Undoing
<1>12. ASSUME NEW r \in Outcomes, Look(r) \/ BHalt(r) PROVE AheadInv'
  <2>1. run' = run /\ manifest' = manifest /\ overtaken' = overtaken
    BY <1>12, LookStep, BHaltStep DEF world, ghosts
  <2>2. pc \in Undoing \ {"giveUp"} /\ pc' # "boot"
    BY <1>12 DEF Look, BHalt, Advance, Enter, Undoing
  <2> QED
    BY <2>1, <2>2, RestingAhead
<1>13. ASSUME NEW kind, NEW v, Start(kind, v) PROVE AheadInv'
  <2>1. run'.tried = 0 /\ pc' \in {"recheck", "plan"}
    BY <1>13 DEF Start, Fresh, Enter
  <2> QED
    BY <2>1 DEF AheadInv, Undoing
<1>14. CASE Environment
  <2>1. run' = run /\ pc' \in {pc, "idle"}
    BY <1>14 DEF Environment, Kill, Reboot, Squat, Leave, Meddle, OperatorBootout, Finish
  <2>2. manifest' = manifest /\ overtaken' = overtaken
    BY <1>14 DEF Environment, Kill, Reboot, Squat, Leave, Meddle, OperatorBootout, Rest, Beyond,
                 ghosts
  <2> QED
    BY <2>1, <2>2, RestingAhead DEF Undoing
<1>15. CASE UNCHANGED vars
  BY <1>15, RestingAhead DEF vars, world, ghosts
<1> QED
  BY <1>2, <1>3, <1>4, <1>5, <1>6, <1>10, <1>11, <1>12, <1>13, <1>14, <1>15, <1>8, <1>9
  DEF Next, Step

(* What a kill or a failure interrupts is always on record before it begins:
   no step of an install, an uninstall, a recovery or an undo moves a plist,
   or starts or ends a job, while the manifest on disk announces no
   transaction (_write_manifest_intent before the loops of local_runtime.py). *)
THEOREM MovesAreAnnounced == Spec => NothingMovesUnannounced
<1>1. Init => AheadInv
  BY DEF Init, AheadInv, Fresh, Undoing
<1>2. Sound /\ AheadInv /\ [Next]_vars
        => [Step /\ ~overtaken /\ manifest.state \notin Interrupted => UNCHANGED <<plist, job>>]_vars
  BY StepIsAnnounced
<1> QED
  BY SoundInvariant, StepAheadInv, <1>1, <1>2, PTL DEF Spec, NothingMovesUnannounced
=============================================================================
