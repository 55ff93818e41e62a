# A verification of the fox-install provisioner

This directory holds TLA+ specifications of the programs in this repository
that keep state across runs, run next to each other or may be interrupted; the
TLC configurations that check them; and the proofs TLAPS checks about them.
`PROJECT.json` lists the runs, the mutants that show that every property can
fail, the source lines of every definition, the findings, and the hazards the
properties were chosen for.

## 1. The system

The repository provisions an Arch + Hyprland workstation. `fox-install` (C++,
`src/src/fox-install`) walks a registry of modules (`core/modules.def`), each
of which changes some part of the machine; the theme part renders `templates/`
with a palette of `themes/` into `rendered/` and deploys it into the home
directory. Small daemons and tools are installed with it.

| Component | State it keeps | Operations | Correct when |
|---|---|---|---|
| dispatcher (`fox-install.cpp`) | install lock, resume file, state manifest | start, plan, run a module, stamp, finish | one real run at a time; resume and manifest never claim what was not done; exit code tells the truth |
| install lock (`core/install_lock.cpp`) | flock, pid stamp | acquire, die | whoever loses knows it lost |
| selection (`core/args.cpp`, `core/wizard.cpp`, `core/hw_autoenable.hpp`, `modules/detect.cpp`) | enable bits, plan, per-module action | flags, hardware gates, wizard keys, conflict decisions | a flag that was accepted takes effect; user edits are only overwritten on request |
| render and deploy (`modules/render.cpp`, `modules/symlinks.cpp`, `core/backup.cpp`, `core/state_checks.cpp`, `modules/post_install.cpp`, `fox-render`) | templates, palette, rendered tree, stamp, live files, backups, active theme | edit, render, check, deploy, record | the live files are those of the theme on record; the user's edits survive somewhere |
| fox-pulse | inotify watch, compositor socket, debouncers | events, timers, reconnect | every burst of events is followed by a handler run |
| fox-vault | socket, secrets in memory | SET, GET, DEL, LIST, CLEAR, SHUTDOWN | a call takes effect once or fails; one daemon answers |
| fox-monitor | layout sidecar and its temporary name, wallpaper variants, recipe stamp, the pictures on the outputs | reconcile, apply, generate | one undisturbed reconcile puts everything right; the primary output is sticky |
| fox-drawer | agent queue, bookmark ribbons, picker requests | note, jump, clear, toggle, pick | no process loses another's line or ribbon; whoever asks is answered |
| kernel command line (`modules/apparmor.cpp`, `lockdown_heal.cpp`, `iommu.cpp`, `nvidia.cpp`) | the boot line, grub.cfg, two kinds of backup | edit, self-check, regenerate, revert | an edit happens whole or not at all; the machine still boots its drivers |
| findex (`fox-intel/findex.cpp`) | `.foxml_index.json`, the cache read from it | walk, chunk, embed, write | every chunk once, with the vector of its own lines |
| git clones (`core/git_clone.hpp`, `modules/llama_turbo.cpp`) | the clone, what was moved aside, the CUDA and the CPU build | ensure, pin, build | half a clone is never taken for one; the user's folders stay |
| fingerprint PAM modules (`modules/sudo_fingerprint.cpp`, `fprint_pam.cpp`, `greetd_fingerprint.cpp`, `hyprlock_pam.cpp`), fox-health's B1 and B2 | four stacks of `/etc/pam.d`, their backups | gate, back up, splice or replace; check | nobody is locked out by what they add |
| other system modules (`modules/*.cpp`) | systemd units, pacman state | per module | idempotent |
| scripts (`shared/bin`, `install.sh`, `swap.sh`, `update.sh`) | call the tools above | theme swap, update, rollback | as the tools they call |

How they interact: `swap.sh` and `update.sh` call `fox-install` (exit code 2
means render refused because of live edits, 3 that modules reported errors);
render, symlinks and post_install are registry modules run by the dispatcher;
the dispatcher's manifest entry for render is what the drift check of the next
run compares with. The modules that edit the boot line, those that clone and those that splice PAM
stacks are called by the dispatcher too, one at a time; the user and pacman edit
the same files. fox-pulse starts the handlers of
`~/.config/foxml/pulse.d`, among them `fox-monitor reconcile`, one run per
event and without waiting for the last, so that runs overlap. The hooks of
`agent_notify.sh` append to the queue that fox-drawer shows and rewrites, and
the Quickshell drawer (`shell.qml`) answers the requests of `fox-drawer pick`.
`fox-init` starts findex in the background, over files that go on changing.
The vault is started by the systemd unit that `modules/vault.cpp` writes.

What is hard in it: invocations next to each other and killed at any point
(dispatcher, vault, fox-monitor, fox-drawer), files written one after the other
with a failure in between (render, deploy, boot line), networks that drop and
commands whose exit codes nobody looks at (clones, boot line), records compared runs later with something that has
changed since (manifest hash, stamp, resume file), events that come in the
same batch as the timer they re-arm or while nobody listens (pulse), and flags
whose effect depends on their order (selection). `PROJECT.json` lists these
hazards at their lines.

## 2. Modules and their correspondence to the code

| Module | Models | Proofs | Instance |
|---|---|---|---|
| `InstallLedger` | what the manifest promises: it is only ever replaced by one that is at least as new everywhere | | |
| `InstallRun` | the dispatcher; refines `InstallLedger` | `InstallRunProofs` | `MCHost`, `MCLive`, `MCInstallRun` |
| `InstallSelect` | command line, hardware step, plan, wizard, conflict decisions | `InstallSelectProofs` | `MCInstallSelect` |
| `RenderDeploy` | render, symlinks, specials, post_install over successive runs | `RenderDeployProofs` | `MCRenderDeploy` |
| `Pulse` | the event loop of fox-pulse | `PulseProofs` | `MCLive` |
| `Monitor` | fox-monitor's reconcile, several runs at once | `MonitorProofs` | `MCHost` |
| `NoteBook` | what the agent queue promises: it grows at its end and shrinks by one named note | | |
| `AgentNotes` | the agent queue, its hooks and drawers; refines `NoteBook` | `DesktopProofs` | `MCHost` |
| `Bookmarks` | the ribbons | `DesktopProofs` | `MCHost` |
| `Picker` | fox-drawer pick and the drawer that answers | `DesktopProofs` | `MCLive` |
| `BootLine` | the modules that edit the kernel command line | `SystemProofs` | `MCHost` |
| `GitClone` | `git_clone::ensure` under `run_llama_turbo` | `SystemProofs` | `MCHost` |
| `Findex` | findex: chunks, cache and index over files that change | `DesktopProofs` | `MCHost` |
| `PamStack` | the fingerprint modules' splices of PAM stacks, and fox-health's B1 and B2 | `SystemProofs` | `MCHost` |
| `VaultStore` | a store whose calls take effect once, between request and answer, or not at all | | |
| `Vault` | fox-vault's daemons and calls; refines `VaultStore` | `VaultProofs` | `MCVault` |

`MCHost` and `MCLive` put parts into one instance that share a machine and no
state. Their initial states choose a part (`focus`), the next-state relation
moves that part only, and the others stay where they start: what is explored is the sum of
the parts' behaviours and not their product, which would add nothing since no
step of one reads what another writes. Fairness is stated for the part in focus.
That nothing else is explored is proved (`HostRunsItsParts`): every behaviour of
`MCHost` is, for each part, a behaviour of that part's own specification.

Definitions whose comment begins with "Fault:" are not part of any
specification. Each is a plausible mistake in the definition it stands before;
`PROJECT.json` pairs it with a property it breaks.

### InstallRun

The shared state is the flock (`lock`), `install_state` (`stateFile`: absent,
truncated, or an index) and the state manifest (`manifest`). Per invocation:
the place in `main()` (`pc`), where the loop starts, the selection, the loop
index `at`, the manifest in memory `mem`, the soft-error and failure lists and
the exit code. The manifest is a time per module: the number of the run that
made the entry.

`StartLocked`, `StartLockedOut` and `StartDry` are `lockfile::acquire()` and the
exemption of `--dry-run` and `--wizard-demo`; `ReadManifest`, `Plan`
(`--resume`, `--phase`, and any selection), `Begin`, `ReturnClean`,
`ReturnIncomplete`, `RefuseRun`, `ExitInModule`, `Throw` are the steps and the
outcomes of a module; `RecordDone` is the write of the resume file and the
entry, after the ofstream truncated the file; `ClearResume`, `Publish`,
`PublishNothing` and `Finish` the end of `main()`. A kill is possible
everywhere and drops the lock; the manifest may be deleted or damaged, which
reads as an empty one (`LoseManifest`). Which modules run is free here: any selection,
which covers those of `InstallSelect`.

### InstallSelect

One action per kind of argument (`Name`, `RenderOnly`, `Only`, `No`, `Quick`,
`PresetOn`, `Full`, `Switch`), read in any order; `EndArgs` is what `parse()`
does last (REQ). `RunDetect` is the hardware step of `main()`, which runs only
if detect is selected; `MakePlan` is `default_plan`, `apply_cli_layer` and
`--full`'s promotion; `Previous`, `NextScreen`, `Cycle`, `Toggle`, `EndWizard`
the wizard's keys; `Preview` the question; `Resolve` is
`apply_conflict_decisions` and the translation back to `module_enabled`.
`named`, `themed`, `refused` and `toggled` are history: what the user said
last about each module, which the program does not keep.

Abstractions: a preset is a sequence of one-line presets and `--only a,b` a
sequence of `--only`s; what the state checks answer is a constant set of
combinations; hardware is a set, of which detect finds (and the user does not
decline) any subset. Not in it: `FOX_INSTALL_LEGACY=1`, which skips the plan,
and `--wizard-demo`, which executes nothing.

### RenderDeploy

A file's content is where it came from: a theme and a repository revision, the
shared tree at a revision, the user's n-th edit, or nothing. `rendered` is the
rendered tree, `stamp` the `.render-inputs` file, `live` the deployed files,
`saved` everything in some backup, `entry` the sentinel hash the manifest
holds, `active` the saved theme. A run is planned in one step (`Plan`: theme,
state check, wizard decision, conflict backup), then `DriftStop` or
`BeginRender`; `RenderFile` replaces one file of `rendered/`, in any order as
`render_tree`'s threads do; `RenderSucceeded` stamps; `BeginDeploy`,
`Snapshot`, `SnapshotFailed`, `Replace`, `SkipMissing`, `EndDeploy` are the
mapping loops of symlinks and then specials; `BeginRecord`, `Record`, `Finish`
the record of the theme and of the manifest. A backup whose copy breaks off may
leave a part of the file under the backup's name (`torn`), which a later
deployment of the file in the same run takes for its first snapshot. The environment edits live files
and pulls the repository at any time. `Faults` names the failures an instance
has.

### Pulse

The three classes of events, what happened outside (`changed`), what the daemon
heard, what is unread, what each timer is (`off`, `armed`, `expired`), and the
batch of ready descriptors `epoll_wait` returned. `Handle` handles one member
of the batch; `HandleTimer` starts the handler, whether or not its read found
the expiration that a re-arm in the same batch took away, as the code does.
`Reconnect` is the retry every interval, with the catch-up trigger for
monitors.

### Monitor

The world is what is plugged, the `.current` wallpaper and the version of every
artwork; a run is its place in `cmd_reconcile` and its locals. `StartRun` reads
the sidecar, `Derive` asks the compositor (`derive_settled`,
`from_hyprctl_json`); `OpenTmp`, `WriteTmp`, `RenameTmp` are the three steps of
`sidecar::write` over the one temporary name, with what an open stream does
when another run truncates or renames the file under it (`fd`); `Apply` and
`ApplyAgain` are `apply_current` before and after generation; `Scan`,
`Render`, `PublishVariant`, `RenderFails`, `FinishVariants` are `generate`. A
variant is the version it was made from and the one of the day it was finished,
since only the latter is what its mtime is compared with. `KillRun` may strike
anywhere; `calm` marks a run that nothing disturbed.

### AgentNotes, NoteBook, Bookmarks

`Notify` is `agent_notify.sh` in one hold of the lock; `Visit`, `LookUp`,
`Route`, `RouteFails` are `jump_agent`, `LockQueue`, `TakeLines`, `Replace` are
`dismiss_agent` and `clear_agents`; `DrawerDies` is a kill or a full disk. The
jump reads under the lock, routes without it and takes it again.
In `Bookmarks`, `StartToggle` judges the path before the lock; `LockRibbons`,
`ReadRibbons`, `KeepBackup`, `SaveRibbons`, `HandFails` are `toggle_bookmark`
and `atomic_write`.

### Picker

`MakeDirectory`, `WriteRequest`, `AddWatch`, `StartDrawer`, `CallDrawer` set a
request up; `CheckStop`, `ReadReply`, `Poll`, `Drain` are the loop of
`pick`, and `Exit` takes the directory away on every way out. The drawer's side
(`showPicker`, `finishPicker`, `cancelPicker`) is taken from `shell.qml`.
Signals, kills, crashes of the drawer and the deadline come at any point.

### BootLine

The command line is a set of the arguments that matter. `AppArmor` and
`Modeset` are single edits; `StartIommu` and `StartHeal` decide, `Backup`,
`Edit`, `Check`, `Generate`, `Swap` are the commands of `run_iommu` and
`run_lockdown_heal` one by one, a sed that fails silently among them. The loader, the
NVIDIA card and the first DKMS modules are chosen initially; `UserEdits` and `DriversChange`
happen between or under runs. What a run knows of the card (`Detected`) is chosen each
time: `has_nvidia` is false where the user declines the prompt or detect is not selected,
while `dkms_has_modules` is asked anew. `touched` and `pristine` are history: whether a
module has changed the line yet, and the lines the file held until one did, so that the
backup is compared with FoxML's first change and not with the step that makes the backup.

### GitClone

`Look`, `MoveAside`, `Attempt`, `GitFetches`, `GitFinishes`, `GitFails`,
`Leftover` are `ensure` with git's own two phases (HEAD is valid before the
files are there); the steps from `sync` on are `run_llama_turbo`: the
checkout of the pin, the removal of a build of another commit, the build. There is a
build per flavour (`build-cuda`, `build-cpu`), and each run has one of them, since
`has_nvidia` is decided per run; `Clear` removes only that one, or fails to.
`leftBehind` remembers the builds that a checkout did not take away. The user creates, removes and
edits folders at the target, except inside a clone git is writing.

### Findex

A file is a version, a number of lines and an mtime; an embedding is the text it
was made from. `StartFind` keeps the entries of its model, `VisitDoc` takes a
file's mtime and `ReadDoc` later its lines; `ChunkFile` is the loop of
`chunk_file` with its buffer (`Flush`), `Embed` a worker that finds its chunk
in the cache (`Hits`), gets a vector or gets none; `OpenIndex` truncates and
`WriteIndex` writes the index, over whatever another run has written meanwhile.
`Chunks` is the reference for `ChunkFile`: a closed form of what the overlapping
chunks should be.

### PamStack

A stack is a sequence of the parts its lines play; `sysauth` is the pam_unix line
of `system-auth`, which an `include` leads to. A module is `StartSplice` with
its gate (`SudoGate`, `LoginGate`, `GreetdGate`, `LockGate`), `BackUpStack`, and
then `SedStack` (sudo and greetd: one step, since sed renames) or
`InstallStarts` and `InstallEnds` (login and lock: install(1) removes the file
first). Each command may fail unnoticed, install(1) also after it has removed the
file (a full disk), and the module may be killed between any two. `EditStack`, `EditSystemAuth`, `RestoreStack` and `EnrollFinger` are the
user's and pacman's. `Cascades` says what locks an account; `B2Fails` is how
fox-health finds out. `intact` remembers for which stacks the installer is
answerable: not for those that others changed, nor for one whose replacement
was killed or came to nothing.

### Vault

`Start`, `Bind` and `Listen` are the three steps by which a daemon takes the
socket path, `CloseListener` and `Exit` those by which it leaves: the unlink at
the end does not look whose socket it is. A call is `Connect`, `Send`,
`Receive`; the daemon serves one client at a time. Daemons and calls may be
killed at any point. `StartRule` says when a daemon may be started: `"any"`
time, once the other was `"stopped"` (its reply to SHUTDOWN has been read), or
once it is `"gone"`.

## 3. Runs

| Run | Instance and bounds | Shows |
|---|---|---|
| `host` (dispatcher) | 2 invocations, 2 modules, 2 runs | `OneRealRun`; `ResumePointIsBehind` (once a run has completed a module, the resume file is its own, and nothing it planned and did not reach lies before the resume point); `SavedRunsAreRecorded`, `ExitCodeHonest`; `LedgerSpec`, the refinement |
| `host` (boot line) | 3 module runs, 1 edit of the user | `AllOrNothing`, `HealedStaysHealed`, `FirstBackupStays` |
| `host` (clones) | 2 commits, 2 flavours, 3 tries, 3 runs, 2 steps of the user, 1 new pin | `HalfClonesGo`, `BuiltIsPinned`, `OwnFilesStay` |
| `host` (monitor) | 2 outputs, 2 resolutions, 2 wallpapers, 3 runs of which 2 at once, 1 change of the world, 1 fault | `ReconcileSettles`, `PrimarySticks` |
| `host` (queue) | 2 notes, 3 lines, 2 drawers, 3 visits | `NotesAreSeenFirst`; `QueueIsANoteBook`, the refinement |
| `host` (ribbons) | 3 paths, 2 runs at once, 4 toggles, at most 2 ribbons (16 in the code), 1 project that disappears | `OneRibbonAtATime`, `BackupIsThePast` |
| `host` (findex) | 1 file of up to 2 lines, 1 edit, 2 models, 2 runs (at once, or one after the other), chunks of 2 lines that overlap by 1 and of 1 line, failed embeddings and kills | `RerunIsExact`: a run during which no file changed leaves exactly the chunks of the files, whatever came before it or goes on beside it |
| `host` (PAM stacks) | 5 shapes of a stack or none, 2 module runs, 1 step of the user, of pacman or a kill | `SplicesAreSafeOrSeen`: a splice that came to its end leaves sudo, login and the lock screen as open to a password as they were; and what locks an account is what B2 reports |
| `install_select` | 6 modules that stand for the roles of the registry, 3 arguments, 1 toggle | `RefusalsHold`, `NothingUnasked`, `DemandIsMet`, `OverwriteHasConsent` |
| `render_faults` | 2 themes, a template and the sentinel, 2 runs, 1 edit, every fault and kill | `OverwrittenIsSaved`, `UnattendedSparesEdits`; `RecordedThemeIsLive`: a theme that was rendered and deployed is only recorded if it is live |
| `render_settles` | the same with 3 runs, a repository update and failing renders | `Converges`: after two undisturbed runs nothing is left to do |
| `live` (pulse) | 2 changes, 1 exit of the compositor, with and without one at the start, any number of starts | `NothingFallsThrough`, `RunsArePaid`, and, fair, `HeardIsHandled` and `MonitorsCatchUp` |
| `live` (picker) | 2 processes, 1 crash of the drawer, any signals and kills | `AnswerWakes`, `NobodyIsForgotten`, and, fair, `EveryPickReturns` |
| `live` (dispatcher) | 1 invocation, 2 modules, 2 runs | fair, `EveryRunEnds` |
| `vault_promise` | 2 daemons, one after the other, 3 calls | `ReachableWhileAlive`, and `Promise`, the refinement of `VaultStore` |
| `vault_chaos` | 2 daemons started at any time, 2 calls | `NoTornSecret`, and, fair, `EveryCallReturns` |

`HostTypes` bundles the types of the parts of `host`, and is proved as well
(`HostTypesHold`). The types of the other modules are proved and not run again, and so are ten facts that are part of the
argument for a property that is run: `ManifestTruthful`, `MemoryCovers`,
`NoLostUpdate` and `DryRunIsInert` (for `LedgerSpec`), `RevertIsThisRuns`,
`NotesLockOK`, `MonitorsAreCovered`, `HardwareIsThere`, `BlockedNeverRuns` and
`StartSucceeds`. Five runs are expected to fail; each refutes a sentence of the
repository:

| Run | The sentence | What happens |
|---|---|---|
| `resume_retries_failing` | fox-install.cpp:617, "On failure, we don't advance the state_file so --resume will retry the failing module" | An index left by an earlier, killed run is not reset by a fresh run; if that throws before its first success, `--resume` starts past the module that failed. |
| `select_refusals` | args.cpp:178, "An earlier explicit --no-<slug> survives --full" | `--full --no-sudo-fingerprint` with a reader: detect runs after the arguments and turns the module on again. |
| `keep_mine` | conflict_resolve.hpp:20, "leave the deployed file alone" | KeepMine skips render; symlinks deploys `hyprland.conf`, the very sentinel, in the same run (a backup is kept). |
| `vault_restart` | fox-vault.cpp:4, the socket a started daemon has | SHUTDOWN is answered before the old daemon unlinks the path: a start right after `stop` returns loses its socket to that unlink. |
| `boot_backup` | iommu.cpp:180, the `.foxml-bak` is the pre-FoxML original | nvidia.cpp:272 edits with `sed -i.foxml-bak`, which renews the backup with a line the other modules have already edited. |

### Why the bounds are enough

Two invocations are what a lock is about, and two runs are what a record is
about: one that writes it and one that believes it. `ResumePointIsBehind`,
`SavedRunsAreRecorded` and `ExitCodeHonest` are checked with two modules and
proved for every registry; `resume_retries_failing` needs three runs (one killed, one failing, one that
resumes). In `InstallSelect` a module may be default or not, required, themed,
slow, gated with and without auto-enabling, checked and in conflict: the six
modules have these roles (vault stands in for `--quick`'s modules, symlinks for
summary), and every ordering hazard listed is between two arguments, with a
third to disturb them. In `RenderDeploy` the sentinel, which is deployed but
not rendered, and one template suffice to make every pair of steps that
disagree about a file; `Converges` needs three runs because the hash recorded
by the first is older than the deployment. In `Pulse`
the two changes may be of one class (an event behind the expired timer of the
one before) or of two (in one batch); the initial states without a compositor
give a reconnect after which the exit comes. In `Monitor` a run that a fault or another run disturbed leaves
its debris, and the third start is the one that has to settle it; the fault is
the kill, the failing renderer or the silent daemon, and the change of the
world comes at any point. Two drawers and two hands are what a lock is about;
three lines let a note be taken from between two, two of them equal. Three
runs on the boot line are a heal, an edit of another module and one that looks
at both. In `GitClone`, three tries are the code's, and three runs are a build of one
flavour, a run of the other at a new pin, and one of the first that finds its old build. In `Findex` the second run is
the one that believes what the first left, and the edit may fall between its
mtime and its lines; two lines make a full chunk, an overlap and a rest. In `PamStack` no module reads the stack of
another, so that the four may start alike; two runs are a splice and the one
that finds it, and the step of the user comes before, between or in them. The vault's third call
allows a stop and two calls around it.

### Fairness

`EveryRunEnds`: weak fairness of each invocation, which is a process the kernel
schedules and whose modules return (a module that hangs is outside). Nothing
is assumed of kills or of new starts. `HeardIsHandled`, `MonitorsCatchUp`: weak
fairness of the daemon, of its timers' expiration and of the reconnect
interval; none of the compositor (`MonitorsCatchUp` says what follows if it is
there to stay). `EveryCallReturns`: weak fairness of daemons and calls; none of
kills or starts. `EveryPickReturns`: weak fairness of each process's own steps
and of its deadline (the clock advances); none of the user, of signals or of the drawer.

`CHECK_DEADLOCK FALSE` is in the vault's configurations only: daemons and calls
are finite there and the system may really come to rest. The other modules
stutter explicitly at the end, and so do `MCHost` and `MCLive` for the parts whose
bounds run out or whose processes may all be gone; in the dispatcher's and fox-pulse's
part deadlock is checked.

## 4. Theorems

All are checked by TLAPS, for every value of the constants that satisfies the
named assumptions.

* `InstallRunProofs`: `TypeCorrect`, `MutualExclusion`, `ManifestIsTruthful`,
  `NoUpdateIsLost`, `DryRunsAreInert`, `ImplementsLedger`, `MemoryStaysAhead`, from
  `Inductive`. The invariant adds to
  the properties that the lock's holder is the one real run in flight, that what
  a run has in memory covers the file from the moment it read it, and the order
  of run numbers; without these, a step that publishes could not be shown to
  publish something newer. `NothingBehindIsUnreached`, `ExitCodesAreHonest`,
  `CompletedIsRecorded` need more (`WInv`): that only real runs stamp, how far
  each run is in what it has selected (`Progress`: what lies behind the index
  was completed, failed softly or was not selected), and what a run that has
  published has written (`Written`). `RunsAreBounded` is the part of
  `EveryRunEnds` that is not fairness: a measure (`StepsLeft`, three steps for
  each module ahead and six to get in and out) falls with each step of an invocation and
  no other process raises it.
* `InstallSelectProofs`: `TypeCorrect` and every property of `install_select`
  (`Refusals`, `Unasked`, `Demand`, `HardwareThere`, `BlockedNever`, `Consent`),
  for any registry, roles, number of arguments and keys. The selection lives in
  three places (`enabled`, then the plan's actions, then `enabled` again); the
  invariant says of each selected module why it may be there (`Justified`) and
  of each one missing why it may be missing (`Withheld`), and follows it through
  the three.
* `RenderDeployProofs`: `TypeCorrect`, `NothingIsLost`, `EditsAreSpared`,
  `RecordsAreTrue`, `RunsSettle`. The invariant says that the file about to be replaced is
  backed up, was changed since, or was copied in part, that symlinks has by then
  finished with a file of the last kind, and that a run past its drift check has no edit
  in front of it that was there at the check. For the record of the theme
  (`RecordInv`) it follows how many template files are rendered, then live, in
  the theme of the run, as long as nothing failed. For `Converges` (`SettleInv`)
  one quiet run leaves the sentinel of this revision deployed (`Fresh`), so that the
  hash the next one takes before its own deployment is that of the file it leaves
  (`Agreeing`). `RunsSettle` assumes `"stamp" \notin Faults`: where
  `.render-inputs` cannot be written, render only warns that "the next run
  re-renders" (render.cpp:151), and so it does. The other faults may have struck any
  earlier run; `render_settles` has failing renders.
* `PulseProofs`: `TypeCorrect`, `NoEventFallsThrough`, `MonitorsStayCovered`,
  `EveryRunIsPaid`. For the last a credit per timer counts triggers that were
  not yet followed by a run, in the timer and in the batch.
* `VaultProofs`: `Inductive`, `TypeCorrect`, `NoSecretIsTorn`, however daemons
  are started. `AlwaysReachable`, `AlwaysStarts`, `KeepsThePromise`, under the
  assumption `StartRule = "gone"` (what a systemd unit does, which waits for the
  process; `vault_restart` shows the assumption is needed). `NoCallIsDropped`,
  however daemons are started, is what `EveryCallReturns` rests on besides
  fairness: a call that waits for its answer is in the queue of a daemon that
  listens, or is being served.
* `DesktopProofs`: `NotesLockHolds` (who works on the queue holds its lock, and the
  lines it kept are still what the queue would lose) and from it
  `QueueRefinesNoteBook`: appending maps to `Add`, replacing to `Dismiss` or
  `PutAway`, all else stutters. `RibbonsMoveOneAtATime` and `BackupsComeFirst`
  rest on the same kind of invariant: between a read and its save the holder's
  list is the toggled one of now, and its backup, once made, is what is there.
  `PickTypes`, `AnswersWake`, `NoPickIsForgotten` for any number of processes.
  `NotesTypes`, `MarksTypes` (no ribbon twice, never more than the limit).
  `NotesSeenFirst` counts (`NotesPaid`): the drawers that have shown a note and have
  yet to take a line away (`Owing`) are covered by showings that no line has been
  taken for; how often a line occurs after a removal is a lemma (`TimesRemove`).
* `DesktopProofs`, findex: `FindexTypes` for any sizes and overlaps, and
  `RerunsAreExact` for every size larger than its overlap (`Exact`; for the
  others see section 5: the chunks are not what findex.cpp promises). The loop of
  `chunk_file` is a recursive function; `RecursionIsUnique` and `AfterLineIs`
  give its closed form, by the least line at which it would differ
  (`Smallest`), and `ChunkFileIsExact` that it makes exactly `Chunks`. The
  invariant says that a row as old as its file has the vector of its lines
  wherever it is kept, cache, tasks or index, of this run or another
  (`FindAges`), and that an undisturbed run holds of each file it has dealt
  with the rows it should, and of the others none (`Complete`).
* `SystemProofs`: `BootTypes`, `EditsAreAllOrNothing`, `HealsLast`,
  `FirstBackupIsKept`, `RevertsToWhatItFound` for any number of runs and edits,
  and `CloneTypes`, `HalfClonesAreMoved`, `BuildsArePinned`,
  `OwnFilesAreLeftAlone` for any commits and any number of tries. The boot line's invariant
  says what each file holds at each point of a module's run (the
  `.foxml-preedit` is what the run found, a generated file is the line of now), and
  that the file is not changed for the first time without a copy beside it; as long as
  nvidia's argument is not in the line, no step replaces that copy (`Pristine`). The
  clones' says what may have been cut short by a kill, and that a build of either flavour
  is of the commit at HEAD unless a checkout left it behind (`AtPin`). `PamTypes` and
  `SplicesAreSafe`, for any number of module runs and of edits by others: a stack
  that is spliced, or backed up by a module, has no fingerprint yet (`Bare`), what a
  module holds in memory to install is as harmless as what it read, and
  system-auth has not changed under it as long as the installer is answerable
  (`Answerable`); that B2 sees every stack that locks the account needs that no stack
  has two fingerprints, or a pam_unix of its own beside an include (`Tidy`).
  The parts together: `HostRunsItsParts`, since a step of one part stutters in
  the others, and from it and the types of each part `HostTypesHold`. With it every
  theorem about a part of `host` holds of the instance that is run.
* `MonitorProofs`: `MonitorTypes`, `ReconcilesSettle`, `PrimaryIsSticky`, for any outputs, modes,
  wallpapers and number of runs. A run is calm while no other run and no fault or
  change has been beside it; a calm run is alone (`Alone`). `Stage` says what it
  can rely on at each step: that its layout is the live one and keeps the primary
  on record, that the temporary file is its own when it renames it, that every
  picture wanted is either on its list or there and fresh (`Covered`), and that
  it is shown or will be. Of the others it is enough that no variant claims to be
  newer than its artwork (`Versions`) and that only a writing run holds the
  stream open, so that nobody writes to a calm run's file.

Only model-checked: the five liveness properties (`EveryRunEnds`,
`EveryCallReturns`, `EveryPickReturns`, `HeardIsHandled`, `MonitorsCatchUp`).
They need fairness, and with it ENABLED, which the prover does not
reach; what they rest on besides it is proved (`RunsAreBounded`,
`NoCallIsDropped`, `NoPickIsForgotten` with `AnswersWake`, `NoEventFallsThrough`,
`MonitorsStayCovered`). Every invariant and every other action property of a
passing run is the statement of a theorem, two of them under an assumption
(`RunsSettle`, `RerunsAreExact`) and two for the start rule of the
unit (`AlwaysReachable`, `KeepsThePromise`). No operator is
declared RECURSIVE; facts about natural numbers that would take an induction are
proved from a least counterexample (`Smallest`), since the library's induction
theorems have an operator as a parameter.

## 5. Divergences met but not given a run

Installer:

* A module that reported errors is not stamped so that "the next run should do
  this module again" (fox-install.cpp:577), but the next clean module writes a
  larger index, and `--resume` skips it.
* A module that reported errors keeps the manifest entry of an earlier clean run.
* `--full --only X` is documented as a force-reapply of exactly X
  (args.cpp:258 and help), but `parsed.full` stays set: detect adds hardware
  modules, and `operator_demand` is off, so that an up-to-date X is skipped.
* post_install truncates `.active-theme` before it writes the name; a kill in
  between loses the theme on record.

Render and deploy:

* With render up to date no drift check runs, while symlinks deploys the current
  tree over edited template files (a backup is kept); conflict_resolve.hpp:32.
* The sentinel is hashed when render returns, before symlinks deploys it: after
  a run that changed it, the next run renders once more (wizard.hpp:110). The
  run after that is quiet: `Converges`.
* A render that fails leaves `rendered/` half replaced under the earlier stamp,
  which then calls the mixture current (render.cpp:141).
* A run for another theme whose render was skipped as a conflict deploys no
  template file and still records the new theme (post_install.cpp:78).
* A backup whose copy breaks off half way (backup.cpp:47-53) leaves a part of the file
  in the run's directory. The caller does not replace the file then; but specials, which
  deploys some files a second time (specials.cpp:233-243), finds that part, takes it for
  the run's first snapshot (backup.cpp:39) and replaces the file, of which no whole
  backup exists. `OverwrittenIsSaved` excepts this case (`torn`).
* A render that was never deployed is taken for the user's edit by the next
  unattended run, which exits 2 (README.md:67 of the repository).
* Capturing does not lift that exit 2: after `./update.sh` the live files still
  differ from the old `rendered/`, which is what `detect_drift` compares
  (render.cpp:64-79), although render.cpp:97 and swap.sh:91 say "capture them
  into templates first: ./update.sh". Only `--full` and `--reapply` get through.
  A refused `swap.sh` has by then run papirus_icons with the new theme.
* `update.sh` and `render.sh` are not the inverses tests/roundtrip.sh:6 calls
  them: two keys of a palette with one value become the first of the two, so
  that the template is right for this theme and wrong for the next.
* `update.sh` defines `_confirm_update` (update.sh:112), the review of dangerous lines
  and of every difference, and never calls it; `./update.sh
  --force` takes `--force` for the theme's name (update.sh:20).

Boot line, clones, system modules:

* Killed between the sed and grub-mkconfig, iommu and lockdown_heal find their
  work in the file at the next run, say it is done already and never generate;
  a sed that failed is reported as success.
* iommu gates lockdown on "would it block a module on THIS host?" (iommu.cpp:87) by
  `has_nvidia`, which is what this run was told: false without detect, and where the
  user declines the prompt (detect.cpp:96-99). On a machine with the prebuilt nvidia
  package, which DKMS does not list, a run that declines the card adds lockdown
  to a line that an earlier run has healed. `HealedStaysHealed` speaks of runs that know.
* Reverting from a create-once `.foxml-bak` (mkinitcpio in nvidia.cpp, fstab in
  noexec_tmp) takes the user's later edits with it.
* A clone killed while git checks out its files is "already present" to the next
  run; a folder the user makes between two tries is moved aside as the
  installer's own leftovers. llama_turbo killed between the checkout and the
  removal of the old build takes that build for one of the new pin, and so does one whose
  `remove_all` failed.
* llama_turbo removes the old build of its own flavour only (llama_turbo.cpp:148): after a
  run of the other flavour has checked out a new pin, the next run finds HEAD at the
  pin and the old server in its folder, and says "already at the pinned commit"
  (llama_turbo.cpp:152). No kill is needed. `BuiltIsPinned` excepts builds left behind so.
* ssh_harden with a custom port deletes `allow 22` before `sshd -t` has accepted
  the configuration, and does not put it back when it is refused
  (ssh_harden.cpp:264-277). The rule ufw.cpp:80 made is `limit ssh`, which that
  deletion does not name.
* greetd_fingerprint lacks the `try_first_pass` check of its siblings, and says
  "pam_fprintd.so →" also when its sed failed; so does sudo_fingerprint.
* The modules refuse "a stack with try_first_pass" (hw_autoenable.hpp:28), but look
  for it in system-auth only, not in the stack they splice: one with a pam_unix
  line of its own would lock the account. `SplicesAreSafeOrSeen` promises nothing of
  such a stack but that fox-health's B2 reports it when it locks the account.
* fprint_pam.cpp:187 calls `sudo install` an atomic replacement. install(1) removes
  the file before it writes the new one: killed in between, there is no login stack,
  or an empty one; the next run skips the first as "missing" and puts the
  fingerprint alone into the second. Without a kill the same comes of a full disk, and
  then the module says "original config still in place" (fprint_pam.cpp:218,
  hyprlock_pam.cpp:153). B1 and B2 report neither; the property excepts both.
* splice_pam falls back to "before the first auth line" (fprint_pam.cpp:82), but
  when that is the file's first line the fingerprint goes to the bottom.
* A backup that failed goes unnoticed, and "backup at" is printed all the same.

Daemons and tools:

* fox-pulse: an event handled before its class's expired timer in one epoll
  batch re-arms the timer, and the handler runs both at once and after the
  delay (debouncer.hpp:10-12). A watched directory that does not exist at the
  start is never watched; the compositor's socket is that of the session the
  daemon was started in (hypr_socket.cpp:16).
* fox-monitor writes the recipe stamp also after a variant failed
  (variants.cpp:482); artwork changed while a variant is rendered from it is
  published as current until it changes again; the removal of variants no
  longer wanted takes a picture the user named `<name>_<W>x<H>` with it.
* fox-drawer: removing the ribbon of a project that has vanished may add it
  again, since the path is judged before the lock; a pick whose drawer crashed
  waits for its 15 minutes.
* fox-vault: a value over the cap is refused by its header, and its bytes are
  then read as the next commands (fox-vault.cpp:216).
* findex: with an overlap of a whole chunk or more (`-s 10` alone) chunks do not
  overlap at all and all are recorded as starting at line 1, although
  findex.cpp:6 says a function that straddles a boundary appears whole; a chunk
  whose embedding failed is missing from an index that is reported done; a file
  rewritten within a second of its last version keeps that version's vectors
  (`RerunIsExact` excepts it).

## 6. Not modelled, and why

The system modules (systemd, pacman) are sequences of external commands;
their outcomes are in `InstallRun`, their effects are not modelled, except for
the boot line, the clones and the PAM stacks. Parsing (palette, templates, drawer, key bindings),
the other read-only checks (fox-health), front ends to model servers (fox-ai-*, fask) and
dispatch tables keep no state between runs. Directory mappings, icon aliases and
the files specials generates are left out of `RenderDeploy`, and so are two runs
within one second, which would share a backup directory; encryption in memory
and framing of oversized values out of `Vault`; failing forks out of `Pulse`
(handlers that overlap are `Monitor`'s subject); the geometry of crops and the
choice of a renderer out of `Monitor`; the order of the worker pool and the
choice of files out of `Findex`.

Some failures of single calls have no path in the models: a sidecar that cannot be
written, or whose rename fails, in `Monitor`; errors of `accept4` other than EINTR, which
end fox-vault's loop; a queue that cannot be opened for reading, which `AgentNotes` would
see as empty; the silent early returns of `pick` when its directory cannot be made; a
write of the resume file that fails after the truncation (fox-install.cpp:583); the exit
code of `mv` of the new grub.cfg (iommu.cpp:241) and a copy to `.foxml-preedit` or
`.foxml-bak` that fails, in `BootLine`; a write of the new stack that stops half way, in
`PamStack`. The properties say nothing of what follows them.

Half of the repository's lines of C++ are the vendored `json.hpp`.

## 7. What could come next

1. The pid stamp of the install lock between acquire and write, with a pid reused.
2. `RenderDeploy` extended: `Plan` split into check, wizard and backup, with an
   edit in between; directory mappings; two runs in one second.
3. swap.sh and update.sh over `RenderDeploy`, with capture and rollback; an
   abstract specification of one theme on record and live.
4. The marked-block splice with the modules that call it: idempotence, user text
   between the sentinels.
5. The modules github, specials and personalize; fox-gen-keybinds; fox-ai-swap.
6. Proofs: that `InstallSelect`'s result is a selection `InstallRun` allows;
   a measure, like that of `RunsAreBounded`, for the calls of the vault.

New questions would be added to the present instances, as another part of
`MCHost` or `MCLive`.
