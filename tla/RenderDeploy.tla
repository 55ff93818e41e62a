---------------------------- MODULE RenderDeploy ----------------------------
(***************************************************************************)
(* How a theme reaches the live configs: the modules render, symlinks,     *)
(* specials and post_install of fox-install, with the plan that selects    *)
(* them, over successive runs on one machine.  Between and during the runs *)
(* the user edits live files and the repository is updated; a run may fail *)
(* half way or be killed.  Runs do not overlap (InstallRun: OneRealRun),   *)
(* and each has a backup directory of its own.                             *)
(*                                                                         *)
(* A file's content is where it comes from: rendered from revision r of    *)
(* the templates with a theme's palette, copied from revision r of shared/,*)
(* or the user's own.  A hash is the content it was taken of.  TFile       *)
(* stands for the files detect_drift compares, in a state-driven run.      *)
(***************************************************************************)
EXTENDS Integers

CONSTANTS
    Theme, DefaultTheme, NoTheme,
    TFile,       \* files of TEMPLATE_MAPPINGS
    Special,     \* those of them that specials deploys again
    Sentinel,    \* hyprland.conf, a file of SHARED_MAPPINGS
    NoFile,
    Faults,      \* what may go wrong: a subset of AllFaults
    Offered,     \* which of symlinks, specials and post_install a run may select
    MaxRuns, MaxRev, MaxEdits    \* bounds

AllFaults == {"render", "stamp", "snapshot", "copy", "publish", "kill"}

ASSUME ThemeAssumption == DefaultTheme \in Theme /\ NoTheme \notin Theme
ASSUME KindAssumption == {"none", "user", "shared", "untracked", "nohash", "nostamp"} \cap Theme = {}
ASSUME FileAssumption == Special \subseteq TFile /\ Sentinel \notin TFile /\ NoFile \notin TFile \cup {Sentinel}
ASSUME FaultAssumption == Faults \subseteq AllFaults
ASSUME OfferAssumption == Offered \subseteq SUBSET {"symlinks", "specials", "post_install"}
ASSUME BoundAssumption == MaxRuns \in Nat /\ MaxRev \in Nat /\ MaxEdits \in Nat

File == TFile \cup {Sentinel}
Rendered == Theme \X Nat
Shared == {"shared"} \X Nat
Mine == {"user"} \X Nat
Absent == <<"none", 0>>
Untracked == <<"untracked", 0>>   \* no manifest entry for render
NoHash == <<"nohash", 0>>         \* an entry without a source_hash
NoStamp == <<"nostamp", 0>>

VARIABLES
    rev,          \* revision of templates/, themes/ and shared/
    rendered,     \* the rendered/ tree
    stamp,        \* rendered/.render-inputs
    live,         \* the deployed files
    saved,        \* what backup directories and .foxml-bak copies hold
    entry,        \* render's source_hash in the manifest file
    active,       \* .active-theme
    pc, run,      \* where the run is; its theme, flags and selected modules
    memEntry,     \* render's source_hash in the run's memory
    renderRan, renderOk, deployFailed,   \* ctx.render_ran, render_ok, deploy_failed
    missed,       \* fox-render-fast could not write some file
    todo, cur,    \* files still to handle; the one between its snapshot and its rename
    snap,         \* files this run's backup directory holds
    runs, edits,  \* counters for the bounds
    racing,       \* history: edited after this run looked at them to back them up
    torn,         \* history: those in snap whose copy broke off half way
    unguarded,    \* history: template files the run's drift check does not vouch for
    calm          \* history: 0, or 1 + the complete runs since the last disturbance

world == <<rev, rendered, stamp, live, saved, entry, active>>
flags == <<memEntry, renderRan, renderOk, deployFailed, missed>>
work == <<todo, cur, snap>>
history == <<racing, torn, unguarded, calm>>
vars == <<rev, rendered, stamp, live, saved, entry, active, pc, run, memEntry, renderRan,
          renderOk, deployFailed, missed, todo, cur, snap, runs, edits, racing, torn, unguarded, calm>>

-----------------------------------------------------------------------------
Module == {"render", "symlinks", "specials", "post_install"}
After(m) ==
    CASE m = "render" -> "symlinks" [] m = "symlinks" -> "specials"
      [] m = "specials" -> "post_install" [] m = "post_install" -> "closing"
Deploying == {"symlinks_files", "specials_files"}
Mode == {"default", "only", "reapply", "full"}
Fate == {"run", "keep", "noop", "off"}   \* what becomes of render in a run
NoRun == [theme |-> NoTheme, force |-> FALSE, asks |-> FALSE, render |-> "off", sel |-> {}]

WorldOK ==
    /\ rev \in Nat
    /\ rendered \in [TFile -> Rendered \cup {Absent}]
    /\ stamp \in Rendered \cup {NoStamp}
    /\ live \in [File -> Rendered \cup Shared \cup Mine \cup {Absent}]
    /\ \A f \in TFile : live[f] \notin Shared
    /\ live[Sentinel] \notin Rendered
    /\ saved \subseteq Rendered \cup Shared \cup Mine
    /\ entry \in Shared \cup Mine \cup {Untracked, NoHash}
    /\ active \in Theme \cup {NoTheme}

RunOK ==
    /\ pc \in Module \cup Deploying \cup {"idle", "rendering", "recording", "closing"}
    /\ run \in [theme : Theme \cup {NoTheme}, force : BOOLEAN, asks : BOOLEAN, render : Fate,
                sel : SUBSET Module]
    /\ pc # "idle" => run.theme \in Theme
    /\ memEntry \in Shared \cup Mine \cup {Untracked, NoHash}
    /\ renderRan \in BOOLEAN /\ renderOk \in BOOLEAN
    /\ deployFailed \in BOOLEAN /\ missed \in BOOLEAN
    /\ todo \subseteq File /\ cur \in File \cup {NoFile} /\ snap \subseteq File
    /\ runs \in Nat /\ edits \in Nat
    /\ racing \subseteq File /\ torn \subseteq snap /\ unguarded \subseteq TFile /\ calm \in 0..3

TypeOK == WorldOK /\ RunOK

(* A machine on which nothing was installed yet; the user may have a       *)
(* hyprland.conf of their own.                                             *)
Init ==
    /\ rev = 0
    /\ rendered = [f \in TFile |-> Absent]
    /\ stamp = NoStamp
    /\ \E own \in {Absent, <<"user", 0>>} :
          live = [f \in File |-> IF f = Sentinel THEN own ELSE Absent]
    /\ saved = {}
    /\ entry = Untracked /\ memEntry = Untracked
    /\ active = NoTheme
    /\ pc = "idle" /\ run = NoRun
    /\ renderRan = FALSE /\ renderOk = FALSE /\ deployFailed = FALSE /\ missed = FALSE
    /\ todo = {} /\ cur = NoFile /\ snap = {}
    /\ runs = 0 /\ edits = 0
    /\ racing = {} /\ torn = {} /\ unguarded = {} /\ calm = 0

-----------------------------------------------------------------------------
(***************************************************************************)
(* What the state checks say.                                              *)
(***************************************************************************)
Inputs(theme) == <<theme, rev>>                  \* render_inputs_hash
RenderedIsCurrent(theme) == stamp = Inputs(theme)

SentinelHash == IF live[Sentinel] = Absent THEN NoHash ELSE live[Sentinel]

CheckRender(theme) ==
    CASE live[Sentinel] = Absent /\ entry = Untracked -> "fresh"
      [] live[Sentinel] = Absent /\ entry # Untracked -> "conflict"
      [] live[Sentinel] # Absent /\ entry = Untracked -> "conflict"
      [] OTHER -> IF RenderedIsCurrent(theme) /\ entry = live[Sentinel] THEN "noop" ELSE "update"

(* Fault: a tree that is about to be re-rendered anyway is not compared.   *)
DriftedIfCurrent ==
    IF stamp = Inputs(run.theme)
      THEN {f \in TFile : rendered[f] # Absent /\ live[f] # Absent /\ rendered[f] # live[f]}
      ELSE {}

(* detect_drift: live copies that differ from the last render.             *)
Drifted == {f \in TFile : rendered[f] # Absent /\ live[f] # Absent /\ rendered[f] # live[f]}

-----------------------------------------------------------------------------
(***************************************************************************)
(* The plan: the state check's default, the command line, --full, the      *)
(* wizard and the conflict decision, in that order.                        *)
(***************************************************************************)
ChooseTheme(requested) ==
    CASE requested \in Theme -> requested
      [] requested \notin Theme /\ active \in Theme -> active
      [] OTHER -> DefaultTheme

(* A conflict is decided in the wizard, or as BackupThenTakeNew by --full, *)
(* or as KeepMine; --only and --reapply override an up-to-date verdict.    *)
RenderFate(status, enabled, mode, asks) ==
    CASE status = "conflict" /\ ~enabled -> {"off"}
      [] status = "conflict" /\ enabled /\ mode = "full" -> {"backup"}
      [] status = "conflict" /\ enabled /\ mode # "full" ->
            IF asks THEN {"run", "keep", "backup"} ELSE {"keep"}
      [] status # "conflict" /\ asks -> {"run", "off"}
      [] status # "conflict" /\ ~asks /\ ~enabled -> {"off"}
      [] OTHER -> IF status # "noop" \/ mode \in {"only", "reapply"} THEN {"run"} ELSE {"noop"}

(* A sentinel that cannot be backed up is kept.                            *)
AfterBackup(fate) ==
    CASE fate = "backup" /\ live[Sentinel] # Absent /\ "snapshot" \in Faults -> {"run", "keep"}
      [] fate = "backup" /\ ~(live[Sentinel] # Absent /\ "snapshot" \in Faults) -> {"run"}
      [] OTHER -> {fate}

Plan ==
    /\ pc = "idle" /\ runs < MaxRuns
    /\ \E requested \in Theme \cup {NoTheme}, mode \in Mode, asks, enabled \in BOOLEAN,
          others \in Offered, fate \in Fate \cup {"backup"}, then \in Fate :
         /\ mode = "full" => ~asks
         /\ fate \in RenderFate(CheckRender(ChooseTheme(requested)), enabled, mode, asks)
         /\ then \in AfterBackup(fate)
         /\ saved' = saved \cup {live[f] : f \in {g \in {Sentinel} :
                                fate = "backup" /\ then = "run" /\ live[g] # Absent}}
         /\ run' = [theme |-> ChooseTheme(requested), force |-> mode \in {"reapply", "full"},
                    asks |-> asks, render |-> then,
                    sel |-> others \cup {m \in {"render"} : then = "run"}]
    /\ runs' = runs + 1
    /\ pc' = "render"
    /\ memEntry' = entry
    /\ calm' = IF calm = 0 THEN 1 ELSE calm
    /\ UNCHANGED <<rev, rendered, stamp, live, entry, active, renderRan, renderOk, deployFailed,
                   missed, work, edits, racing, torn, unguarded>>

Pass ==
    /\ pc \in Module \ run.sel
    /\ pc' = After(pc)
    /\ UNCHANGED <<world, run, flags, work, runs, edits, history>>

(* The run is over and its memory gone.                                    *)
EndRun(quiet) ==
    /\ pc' = "idle" /\ run' = NoRun /\ memEntry' = Untracked
    /\ renderRan' = FALSE /\ renderOk' = FALSE /\ deployFailed' = FALSE /\ missed' = FALSE
    /\ todo' = {} /\ cur' = NoFile /\ snap' = {} /\ racing' = {} /\ torn' = {} /\ unguarded' = {}
    /\ calm' = quiet
    /\ UNCHANGED <<rev, rendered, stamp, live, saved, active, runs, edits>>

-----------------------------------------------------------------------------
(***************************************************************************)
(* render.  fox-render-fast replaces the files of rendered/ one by one, in *)
(* several threads, reading each template as it gets to it.                *)
(***************************************************************************)
AtRender == pc = "render" /\ "render" \in run.sel

(* Live edits are protected by std::exit(2), unless forced or agreed to.   *)
DriftStop ==
    /\ AtRender /\ Drifted # {} /\ ~run.force
    /\ EndRun(0)
    /\ UNCHANGED entry

BeginRender ==
    /\ AtRender
    /\ Drifted = {} \/ run.force \/ run.asks
    /\ renderRan' = TRUE
    /\ unguarded' = {f \in TFile : rendered[f] = Absent}
    /\ \/ pc' = "rendering" /\ todo' = TFile
       \/ "render" \in Faults /\ pc' = "symlinks" /\ UNCHANGED todo   \* no palette, no templates
    /\ UNCHANGED <<world, run, memEntry, renderOk, deployFailed, missed, cur, snap,
                   runs, edits, racing, torn, calm>>

RenderFile(f) ==
    /\ pc = "rendering" /\ f \in todo
    /\ todo' = todo \ {f}
    /\ \/ rendered' = [rendered EXCEPT ![f] = Inputs(run.theme)] /\ UNCHANGED missed
       \/ "render" \in Faults /\ missed' = TRUE /\ UNCHANGED rendered
    /\ UNCHANGED <<rev, stamp, live, saved, entry, active, pc, run, memEntry, renderRan, renderOk,
                   deployFailed, cur, snap, runs, edits, history>>

RenderFailed ==
    /\ pc = "rendering" /\ todo = {}
    /\ missed \/ "render" \in Faults
    /\ pc' = "symlinks"
    /\ UNCHANGED <<world, run, flags, work, runs, edits, history>>

(* Fault: the entry is made without the hash of the sentinel.              *)
RenderSucceededUnhashed ==
    /\ pc = "rendering" /\ todo = {} /\ ~missed
    /\ renderOk' = TRUE
    /\ stamp' = Inputs(run.theme)
    /\ memEntry' = NoHash
    /\ pc' = "symlinks"
    /\ UNCHANGED <<rev, rendered, live, saved, entry, active, run, renderRan, deployFailed, missed,
                   work, runs, edits, history>>

(* The stamp is taken of the inputs as they are now, and the dispatcher    *)
(* records the sentinel as it is now.                                      *)
RenderSucceeded ==
    /\ pc = "rendering" /\ todo = {} /\ ~missed
    /\ renderOk' = TRUE
    /\ \/ stamp' = Inputs(run.theme)
       \/ "stamp" \in Faults /\ UNCHANGED stamp
    /\ memEntry' = SentinelHash
    /\ pc' = "symlinks"
    /\ UNCHANGED <<rev, rendered, live, saved, entry, active, run, renderRan, deployFailed, missed,
                   work, runs, edits, history>>

-----------------------------------------------------------------------------
(***************************************************************************)
(* symlinks and specials: each file is backed up once per run, then        *)
(* replaced by a rename.                                                   *)
(***************************************************************************)
Source(f) == IF f = Sentinel THEN <<"shared", rev>> ELSE rendered[f]

RefuseDeploy ==
    /\ pc = "symlinks" /\ pc \in run.sel
    /\ renderRan /\ ~renderOk
    /\ pc' = After(pc)
    /\ UNCHANGED <<world, run, flags, work, runs, edits, history>>

BeginDeploy ==
    /\ pc \in {"symlinks", "specials"} /\ pc \in run.sel
    /\ \/ /\ pc = "symlinks" /\ ~(renderRan /\ ~renderOk)
          /\ todo' = IF renderOk \/ RenderedIsCurrent(run.theme) THEN File ELSE {Sentinel}
          /\ pc' = "symlinks_files"
       \/ /\ pc = "specials"
          /\ todo' = Special
          /\ pc' = "specials_files"
    /\ UNCHANGED <<world, run, flags, cur, snap, runs, edits, history>>

NextFile(f) ==
    /\ pc \in Deploying /\ cur = NoFile /\ f \in todo
    /\ f = Sentinel => todo = {Sentinel}
    /\ todo' = todo \ {f}

SkipMissing(f) ==
    /\ NextFile(f)
    /\ Source(f) = Absent
    /\ UNCHANGED <<world, pc, run, flags, cur, snap, runs, edits, history>>

(* snapshot_one: the first snapshot of the run is kept, whatever it is.    *)
Snapshot(f) ==
    /\ NextFile(f)
    /\ Source(f) # Absent
    /\ cur' = f
    /\ IF live[f] = Absent \/ f \in snap
         THEN UNCHANGED <<saved, snap>>
         ELSE saved' = saved \cup {live[f]} /\ snap' = snap \cup {f}
    /\ racing' = IF f \in snap THEN racing ELSE racing \ {f}
    /\ UNCHANGED <<rev, rendered, stamp, live, entry, active, pc, run, flags, runs, edits,
                   torn, unguarded, calm>>

(* Fault: a backup that did not land does not keep the file from being     *)
(* replaced.                                                               *)
SnapshotFailedGoOn(f) ==
    /\ "snapshot" \in Faults
    /\ NextFile(f)
    /\ Source(f) # Absent /\ live[f] # Absent /\ f \notin snap
    /\ cur' = f
    /\ UNCHANGED <<world, pc, run, flags, snap, runs, edits, history>>

(* No backup, no replacement.  A copy that breaks off may leave a part of  *)
(* the file as its backup.  Only symlinks notes the failure.               *)
SnapshotFailed(f) ==
    /\ "snapshot" \in Faults
    /\ NextFile(f)
    /\ Source(f) # Absent /\ live[f] # Absent /\ f \notin snap
    /\ \/ snap' = snap \cup {f} /\ torn' = torn \cup {f}
       \/ UNCHANGED <<snap, torn>>
    /\ deployFailed' = (deployFailed \/ pc = "symlinks_files")
    /\ UNCHANGED <<world, pc, run, memEntry, renderRan, renderOk, missed, cur,
                   runs, edits, racing, unguarded, calm>>

Replace ==
    /\ pc \in Deploying /\ cur # NoFile
    /\ cur' = NoFile
    /\ \/ live' = [live EXCEPT ![cur] = Source(cur)] /\ UNCHANGED deployFailed
       \/ /\ "copy" \in Faults
          /\ deployFailed' = (deployFailed \/ pc = "symlinks_files")
          /\ UNCHANGED live
    /\ UNCHANGED <<rev, rendered, stamp, saved, entry, active, pc, run, memEntry, renderRan,
                   renderOk, missed, todo, snap, runs, edits, history>>

EndDeploy ==
    /\ pc \in Deploying /\ cur = NoFile /\ todo = {}
    /\ pc' = IF pc = "symlinks_files" THEN "specials" ELSE "post_install"
    /\ UNCHANGED <<world, run, flags, work, runs, edits, history>>

-----------------------------------------------------------------------------
(***************************************************************************)
(* post_install records the theme: the ofstream truncates .active-theme,   *)
(* then the name is written.                                               *)
(***************************************************************************)
(* Fault: only a failed render counts.                                     *)
RenderIncomplete == renderRan /\ ~renderOk

PartlyApplied == (renderRan /\ ~renderOk) \/ deployFailed

BeginRecord ==
    /\ pc = "post_install" /\ pc \in run.sel
    /\ IF PartlyApplied
         THEN pc' = "closing" /\ UNCHANGED active
         ELSE pc' = "recording" /\ active' = NoTheme
    /\ UNCHANGED <<rev, rendered, stamp, live, saved, entry, run, flags, work, runs, edits, history>>

Record ==
    /\ pc = "recording"
    /\ active' = run.theme
    /\ pc' = "closing"
    /\ UNCHANGED <<rev, rendered, stamp, live, saved, entry, run, flags, work, runs, edits, history>>

(* The dispatcher publishes the manifest; a failed write only warns.       *)
Finish ==
    /\ pc = "closing"
    /\ \/ /\ entry' = memEntry
          /\ EndRun(CASE calm = 0 \/ ~renderOk \/ deployFailed \/ "symlinks" \notin run.sel -> 0
                     [] OTHER -> IF calm = 3 THEN 3 ELSE calm + 1)
       \/ "publish" \in Faults /\ EndRun(0) /\ UNCHANGED entry

-----------------------------------------------------------------------------
(***************************************************************************)
(* The environment.                                                        *)
(***************************************************************************)
Kill ==
    /\ "kill" \in Faults /\ pc # "idle"
    /\ EndRun(0)
    /\ UNCHANGED entry

(* The user, or another program, writes or removes a live file.            *)
EditLive(f) ==
    /\ edits < MaxEdits
    /\ edits' = edits + 1
    /\ \E new \in {<<"user", edits + 1>>, Absent} :
          new # live[f] /\ live' = [live EXCEPT ![f] = new]
    /\ racing' = racing \cup {f}
    /\ unguarded' = unguarded \cup ({f} \cap TFile)
    /\ calm' = 0
    /\ UNCHANGED <<rev, rendered, stamp, saved, entry, active, pc, run, flags, work, runs, torn>>

(* git pull, or update.sh capturing edits into templates/ and shared/.     *)
Pull ==
    /\ rev < MaxRev
    /\ rev' = rev + 1
    /\ calm' = 0
    /\ UNCHANGED <<rendered, stamp, live, saved, entry, active, pc, run, flags, work, runs, edits,
                   racing, torn, unguarded>>

Rest == pc = "idle" /\ runs = MaxRuns /\ UNCHANGED vars

Installer ==
    \/ Plan \/ Pass \/ DriftStop \/ BeginRender \/ RenderFailed \/ RenderSucceeded
    \/ RefuseDeploy \/ BeginDeploy \/ Replace \/ EndDeploy \/ BeginRecord \/ Record \/ Finish
    \/ \E f \in File : RenderFile(f) \/ SkipMissing(f) \/ Snapshot(f) \/ SnapshotFailed(f)

Environment == Kill \/ Pull \/ \E f \in File : EditLive(f)

Next == Installer \/ Environment \/ Rest

Spec == Init /\ [][Next]_vars

-----------------------------------------------------------------------------
(***************************************************************************)
(* What must hold.                                                         *)
(***************************************************************************)
Overwrites(f) == cur = f /\ cur' # f /\ live'[f] # live[f]

(* symlinks and specials replace no file whose content is not in a backup, *)
(* except one that was changed after the run had looked at it to back it   *)
(* up, and one that symlinks left alone because its copy broke off half    *)
(* way: specials takes the part that was copied for the run's first        *)
(* snapshot (snapshot_one and its callers).                                *)
OverwrittenIsSaved ==
    [][\A f \in File :
         Overwrites(f) /\ live[f] # Absent
            => live[f] \in saved \/ f \in racing \/ (pc = "specials_files" /\ f \in torn)]_vars

(* A run that renders, unattended and not told to overwrite, replaces no   *)
(* template file that holds the user's edits, unless they were made after  *)
(* the drift check or the file had never been rendered (detect_drift and   *)
(* std::exit(2) in run_render).                                            *)
UnattendedSparesEdits ==
    [][\A f \in TFile :
         Overwrites(f) /\ live[f] \in Mine /\ renderRan /\ ~run.asks /\ ~run.force
            => f \in unguarded]_vars

(* When a run that selected both render and symlinks records its theme,    *)
(* every deployed template file is of that theme or the user's, whatever   *)
(* failed on the way (write_active_theme_and_marker).                      *)
RecordedThemeIsLive ==
    [][pc = "recording" /\ pc' = "closing" /\ {"render", "symlinks"} \subseteq run.sel
         => \A f \in TFile : live[f][1] \in {run.theme, "user", "none"}]_vars

(* After two undisturbed runs the state check finds nothing left to do:    *)
(* the installer does not render, restart and report for ever              *)
(* (check_render, against the hash the dispatcher recorded).               *)
Converges == pc = "idle" /\ calm = 3 => CheckRender(stamp[1]) = "noop"

-----------------------------------------------------------------------------
(***************************************************************************)
(* What comments and docs say.                                             *)
(***************************************************************************)
(* conflict_resolve.hpp:20: KeepMine leaves the deployed file alone.       *)
KeepMineKeepsTheFile ==
    [][Overwrites(Sentinel) /\ run.render = "keep" => live[Sentinel] \notin Mine]_vars
=============================================================================
