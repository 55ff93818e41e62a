------------------------------ MODULE BootLine ------------------------------
(***************************************************************************)
(* The modules that edit the kernel command line: apparmor, lockdown_heal, *)
(* iommu and nvidia, on a machine that boots with systemd-boot (the file   *)
(* itself is what boots) or with GRUB (grub.cfg is what boots and has to   *)
(* be generated from the file).  A run is a sequence of shell commands,    *)
(* any of which may be the last one; most of their exit codes are ignored  *)
(* (a sed that fails is modelled, a backup that cannot be written is not). *)
(* Runs exclude each other, and the user edits the file between them.      *)
(*                                                                         *)
(* A command line is the set of the arguments that matter; "rw" stands for *)
(* the root= and rw a bootable entry must have, "user" for the user's own. *)
(***************************************************************************)
EXTENDS Naturals, FiniteSets

CONSTANTS NoCopy, Garbled,         \* no such file; the output of a failed grub-mkconfig
          MaxTurns, MaxUserEdits   \* bounds: module runs, edits by the user

Arg == {"rw", "user", "iommu", "lockdown", "apparmor", "modeset"}
Cmdline == SUBSET Arg

ASSUME BootAssumption ==
    /\ MaxTurns \in Nat /\ MaxUserEdits \in Nat
    /\ NoCopy # Garbled /\ \A line \in Cmdline : line \notin {NoCopy, Garbled}

VARIABLES
    grub,        \* the loader is GRUB
    gpu,         \* an NVIDIA card, whose driver lockdown would refuse
    dkms,        \* DKMS has built modules, which lockdown would refuse
    conf,        \* arch.conf's options, or GRUB_CMDLINE_LINUX_DEFAULT
    bak, preedit,\* its .foxml-bak and .foxml-preedit
    cfg, new,    \* grub.cfg and grub.cfg.foxml-new
    mod,         \* the running module: name, pc, and what it has decided
    turns, edits,
    touched,     \* history: a module has changed the file
    pristine,    \* history: the lines it held before that
    found,       \* history: the line the running module has found
    unbuilt,     \* history: who left the file ahead of grub.cfg
    healed       \* history: a heal has succeeded, and since then neither the user nor a run
                 \* that knew of no unsigned driver has put lockdown back

bootVars == <<grub, gpu, dkms, conf, bak, preedit, cfg, new, mod, turns, edits, touched, pristine, found,
              unbuilt, healed>>
machine == <<grub, gpu, dkms>>
first == <<touched, pristine>>
grubFiles == <<cfg, new>>
bounds == <<turns, edits>>

NoModule == [name |-> "none", pc |-> "idle", prepend |-> {}, strip |-> FALSE]

BootTypeOK ==
    /\ grub \in BOOLEAN /\ gpu \in BOOLEAN /\ dkms \in BOOLEAN /\ healed \in BOOLEAN
    /\ conf \in Cmdline /\ {bak, preedit} \subseteq Cmdline \cup {NoCopy}
    /\ touched \in BOOLEAN /\ pristine \subseteq Cmdline
    /\ cfg # Garbled /\ cfg \in Cmdline /\ new \in Cmdline \cup {NoCopy, Garbled}
    /\ mod \in [name : {"none", "heal", "iommu"}, pc : {"idle", "backup", "edit", "check", "generate", "swap"},
                prepend : SUBSET {"iommu", "lockdown"}, strip : BOOLEAN]
    /\ turns \in 0..MaxTurns /\ edits \in 0..MaxUserEdits
    /\ found \in Cmdline /\ unbuilt \subseteq {"user", "apparmor", "kill"}
    /\ mod.pc \in {"check", "generate", "swap"} => preedit = found

BootInit ==
    /\ grub \in BOOLEAN /\ gpu \in BOOLEAN /\ dkms \in BOOLEAN
    /\ conf \in {{"rw"}, {"user"}, {"rw", "lockdown"}}
    /\ cfg = conf /\ bak = NoCopy /\ preedit = NoCopy /\ new = NoCopy
    /\ mod = NoModule /\ turns = 0 /\ edits = 0
    /\ touched = FALSE /\ pristine = {conf} /\ found = conf /\ unbuilt = {} /\ healed = FALSE

-----------------------------------------------------------------------------
BootIdle == mod.pc = "idle"
Onto(next) == mod' = [mod EXCEPT !.pc = next]
TakesTurn == BootIdle /\ turns < MaxTurns /\ turns' = turns + 1 /\ UNCHANGED edits
(* A backup is made where there is none.                                   *)
Once(copy) == IF copy = NoCopy THEN conf ELSE copy
May(line) == conf' \in {conf, line}        \* a sed whose failure nobody looks at
(* What has_nvidia may say in a run: nothing of the card where detect is   *)
(* off or the user declines.  DKMS is asked each time.                     *)
Detected == {FALSE, gpu}
Unsigned(nvidia) == nvidia \/ dkms
(* A module's edit, and its place in history.                              *)
Changes == touched' = (touched \/ conf' # conf) /\ UNCHANGED pristine

(* Between the runs: the user edits the file, DKMS packages come and go.   *)
UserEdits(line) ==
    /\ BootIdle /\ edits < MaxUserEdits /\ line # conf
    /\ conf' = line /\ edits' = edits + 1
    /\ pristine' = IF touched THEN pristine ELSE pristine \cup {line}
    /\ unbuilt' = unbuilt \cup {"user"} /\ healed' = FALSE
    /\ UNCHANGED <<machine, bak, preedit, grubFiles, mod, turns, touched, found>>

DriversChange ==
    /\ dkms' = ~dkms
    /\ UNCHANGED <<grub, gpu, conf, bak, preedit, grubFiles, mod, bounds, first, found, unbuilt, healed>>

(* lsm=...,apparmor; grub.cfg is left for the user to regenerate.          *)
AppArmor ==
    /\ TakesTurn /\ "apparmor" \notin conf
    /\ bak' = Once(bak) /\ May(conf \cup {"apparmor"}) /\ Changes
    /\ unbuilt' = unbuilt \cup {"apparmor"}
    /\ UNCHANGED <<machine, preedit, grubFiles, mod, found, healed>>

(* nvidia_drm.modeset=1, by a sed that makes its own copy.                 *)
Modeset ==
    /\ TakesTurn /\ gpu /\ ~grub /\ "modeset" \notin conf
    /\ bak' = conf /\ conf' = conf \cup {"modeset"} /\ Changes
    /\ UNCHANGED <<machine, preedit, grubFiles, mod, found, unbuilt, healed>>

-----------------------------------------------------------------------------
(* Fault: lockdown is enabled whatever the drivers.                        *)
StartIommuLocked ==
    /\ TakesTurn
    /\ \E nvidia \in Detected :
         LET prepend == IF "iommu" \in conf THEN {} ELSE {"iommu", "lockdown"}
         IN  /\ IF prepend = {}
                  THEN UNCHANGED <<mod, found>>
                  ELSE /\ mod' = [name |-> "iommu", pc |-> "backup", prepend |-> prepend, strip |-> FALSE]
                       /\ found' = conf
             /\ healed' = (healed /\ ("lockdown" \in prepend => Unsigned(nvidia)))
    /\ UNCHANGED <<machine, conf, bak, preedit, grubFiles, first, unbuilt>>

(* iommu: the IOMMU arguments, with lockdown where the run knows of no     *)
(* unsigned driver; elsewhere a lockdown that is there goes.               *)
StartIommu ==
    /\ TakesTurn
    /\ \E nvidia \in Detected :
         LET lockdown == IF Unsigned(nvidia) THEN {} ELSE {"lockdown"}
             prepend == IF "iommu" \in conf THEN {} ELSE {"iommu"} \cup lockdown
             strip == Unsigned(nvidia) /\ "lockdown" \in conf
         IN  /\ IF prepend = {} /\ ~strip
                  THEN UNCHANGED <<mod, found>>
                  ELSE /\ mod' = [name |-> "iommu", pc |-> "backup", prepend |-> prepend, strip |-> strip]
                       /\ found' = conf
             /\ healed' = (healed /\ ("lockdown" \in prepend => Unsigned(nvidia)))
    /\ UNCHANGED <<machine, conf, bak, preedit, grubFiles, first, unbuilt>>

(* lockdown_heal: only the stripping half.                                 *)
StartHeal ==
    /\ TakesTurn /\ \E nvidia \in Detected : Unsigned(nvidia)
    /\ IF "lockdown" \notin conf
         THEN healed' = TRUE /\ UNCHANGED <<mod, found>>
         ELSE /\ mod' = [name |-> "heal", pc |-> "backup", prepend |-> {}, strip |-> TRUE]
              /\ found' = conf
              /\ UNCHANGED healed
    /\ UNCHANGED <<machine, conf, bak, preedit, grubFiles, first, unbuilt>>

(* Fault: every run renews the backup.                                     *)
BackupRenewed ==
    /\ mod.pc = "backup" /\ Onto("edit")
    /\ bak' = conf /\ preedit' = conf
    /\ UNCHANGED <<machine, conf, grubFiles, bounds, first, found, unbuilt, healed>>

Backup ==
    /\ mod.pc = "backup" /\ Onto("edit")
    /\ bak' = Once(bak) /\ preedit' = conf
    /\ UNCHANGED <<machine, conf, grubFiles, bounds, first, found, unbuilt, healed>>

(* Each of the two seds may fail unnoticed.                                *)
Edit ==
    /\ mod.pc = "edit" /\ Onto("check")
    /\ \E line \in {conf, conf \cup mod.prepend} :
         conf' \in {line, IF mod.strip THEN line \ {"lockdown"} ELSE line}
    /\ Changes
    /\ UNCHANGED <<machine, bak, preedit, grubFiles, bounds, found, unbuilt, healed>>

Heals == healed' = (healed \/ (mod.name = "heal" /\ "lockdown" \notin conf))

Revert ==
    /\ conf' = preedit /\ preedit' = NoCopy /\ mod' = NoModule
    /\ UNCHANGED healed

(* The self-check of the edited line; systemd-boot is then done.           *)
Check ==
    /\ mod.pc = "check"
    /\ IF ~grub /\ "rw" \notin conf THEN Revert
       ELSE IF grub THEN Onto("generate") /\ UNCHANGED <<conf, preedit, healed>>
       ELSE mod' = NoModule /\ preedit' = NoCopy /\ Heals /\ UNCHANGED conf
    /\ UNCHANGED <<machine, bak, grubFiles, bounds, first, found, unbuilt>>

(* Fault: grub-mkconfig writes grub.cfg itself.                            *)
GenerateInPlace ==
    /\ mod.pc = "generate" /\ Onto("swap")
    /\ cfg' \in {conf, Garbled} /\ new' = cfg'
    /\ UNCHANGED <<machine, conf, bak, preedit, bounds, first, found, unbuilt, healed>>

Generate ==
    /\ mod.pc = "generate" /\ Onto("swap")
    /\ new' \in {conf, Garbled}
    /\ UNCHANGED <<machine, conf, bak, preedit, cfg, bounds, first, found, unbuilt, healed>>

(* Fault: a failed regeneration leaves the edited line.                    *)
SwapOrLeave ==
    /\ mod.pc = "swap" /\ new' = NoCopy /\ mod' = NoModule /\ preedit' = NoCopy
    /\ cfg' = IF new = Garbled THEN cfg ELSE new
    /\ unbuilt' = IF new = Garbled THEN unbuilt ELSE {}
    /\ UNCHANGED <<machine, conf, bak, bounds, first, found, healed>>

Swap ==
    /\ mod.pc = "swap" /\ new' = NoCopy
    /\ IF new = Garbled
         THEN Revert /\ UNCHANGED <<cfg, unbuilt>>
         ELSE /\ cfg' = new /\ unbuilt' = {} /\ preedit' = NoCopy /\ mod' = NoModule /\ Heals
              /\ UNCHANGED conf
    /\ UNCHANGED <<machine, bak, bounds, first, found>>

(* Ctrl-C or a power cut.                                                  *)
KillModule ==
    /\ ~BootIdle /\ mod' = NoModule
    /\ unbuilt' = unbuilt \cup {"kill"}
    /\ UNCHANGED <<machine, conf, bak, preedit, grubFiles, bounds, first, found, healed>>

BootNext ==
    \/ \E line \in {conf \cup {"user"}, conf \ {"user"}, conf \cup {"lockdown"}} : UserEdits(line)
    \/ DriversChange \/ AppArmor \/ Modeset \/ StartIommu \/ StartHeal
    \/ Backup \/ Edit \/ Check \/ Generate \/ Swap \/ KillModule

BootSpec == BootInit /\ [][BootNext]_bootVars

-----------------------------------------------------------------------------
(* All or nothing: with GRUB, what the file says is what boots, unless the *)
(* user or apparmor edited it since, or a module was killed.               *)
AllOrNothing == grub /\ BootIdle /\ unbuilt = {} => conf = cfg

(* A module that takes its edit back restores the line it found, with what *)
(* the user and the other modules had put there since FoxML first came.    *)
RevertIsThisRuns ==
    [][mod.pc \in {"check", "swap"} /\ conf' # conf => conf' = found]_bootVars

(* After a heal no run that knows of an unsigned driver, no revert and no  *)
(* leftover of a killed one brings lockdown back to the file or, when it   *)
(* is regenerated, to grub.cfg.  The user may, and so does iommu in a run  *)
(* that knows of none: has_nvidia is false on a machine with the card      *)
(* where detect is off or the user declines.                               *)
HealedStaysHealed ==
    healed => "lockdown" \notin conf /\ (grub /\ unbuilt = {} /\ BootIdle => "lockdown" \notin cfg)

(* Until nvidia's sed, which makes a copy of its own, has edited the line, *)
(* the .foxml-bak is a line the file held before any module changed it,    *)
(* however often apparmor, iommu and lockdown_heal ran, failed, reverted   *)
(* or were killed, between whatever edits of the user.                     *)
FirstBackupStays == "modeset" \notin conf /\ bak # NoCopy => bak \in pristine

-----------------------------------------------------------------------------
(***************************************************************************)
(* What comments say.                                                      *)
(***************************************************************************)
(* iommu.cpp:178: .foxml-bak is the pre-FoxML original, created once.      *)
BackupIsPristine == bak # NoCopy => bak \in pristine
=============================================================================
