--------------------------- MODULE InstallSelect ---------------------------
(***************************************************************************)
(* Which modules a run of fox-install executes: the command line, read one *)
(* argument after the other, the hardware found by detect, the answers of  *)
(* the state checks, the wizard and the decisions on conflicts.  What      *)
(* becomes of the selection is module InstallRun.                          *)
(*                                                                         *)
(* A list given to --only, or the lines of a preset, do what as many       *)
(* arguments with one slug each do, so every argument names one slug.      *)
(***************************************************************************)
EXTENDS Integers, Sequences

CONSTANTS
    Registry,      \* MODULES, in order
    Default,       \* modules with default_on
    Required,      \* REQ: what every explicit selection needs
    Themed,        \* what a palette reaches (apply_theme_modules)
    Slow,          \* what --quick leaves out
    Render, Detect, Summary,
    Gated,         \* hw_gated_slugs
    AutoOn,        \* those of them that auto_enabled turns on
    Part,          \* the hardware a gated module is for
    Checked,       \* modules with a state_check
    Answers,       \* what the checks may answer together: functions from Checked to Status
    Sentinel,      \* modules with a conflict_sentinel
    MaxArgs,       \* bound: arguments of a command line
    MaxToggles     \* bound: SPACE pressed in the wizard

Slug == {Registry[i] : i \in 1..Len(Registry)}
Status == {"fresh", "noop", "update", "conflict", "blocked"}
Hardware == {Part[m] : m \in Gated}

ASSUME RegistryAssumption == Registry \in Seq(Slug)
ASSUME RoleAssumption ==
    /\ Default \cup Required \cup Themed \cup Slow \cup Gated \cup Checked \subseteq Slug
    /\ {Render, Detect, Summary} \subseteq Slug
    /\ Answers \subseteq [Checked -> Status]
    /\ \A s \in Answers : \A m \in Checked : s[m] = "conflict" => m \in Sentinel
    /\ AutoOn \subseteq Gated /\ Detect \notin Gated /\ Sentinel \subseteq Checked
ASSUME BoundAssumption == MaxArgs \in Nat /\ MaxToggles \in Nat

Action == {"skip", "run", "conflict"}
Decision == {"keep", "take", "backup"}

VARIABLES
    pc,            \* "args", "detect", "plan", "wizard", "preview", "resolve", "run", "stopped"
    args,          \* arguments read so far
    enabled,       \* module_enabled
    disabled,      \* explicitly_disabled
    only, full,    \* Parsed
    listed, chosen,             \* only_list_mode, provided_explicit_module
    reapply, yes, dry,          \* Context
    tty,           \* a terminal is attached
    hw, detected,  \* what detect found; it ran
    status, action, decision,   \* the plan
    cursor, presses,
    backed,        \* modules whose file was copied to a .foxml-bak
    gone,          \* sentinels that are not on disk
    named,         \* history: slugs asked for since the selection was last reset
    themed,        \* history: among them was render or --render-only
    refused,       \* history: slugs last mentioned by --no-<slug>, --quick or an off line
    toggled        \* history: modules the user toggled in the wizard

parsed == <<enabled, disabled, only, full, listed, chosen, reapply, yes, dry>>
plan == <<status, action, decision>>
asked == <<named, themed, refused>>
vars == <<pc, args, enabled, disabled, only, full, listed, chosen, reapply, yes, dry, tty,
          hw, detected, status, action, decision, cursor, presses, backed, gone,
          named, themed, refused, toggled>>

TypeOK ==
    /\ pc \in {"args", "detect", "plan", "wizard", "preview", "resolve", "run", "stopped"}
    /\ args \in 0..MaxArgs /\ presses \in 0..MaxToggles
    /\ enabled \subseteq Slug /\ disabled \subseteq Slug
    /\ {only, full, listed, chosen, reapply, yes, dry, tty, detected, themed} \subseteq BOOLEAN
    /\ hw \subseteq Hardware
    /\ status \in [Slug -> Status] /\ action \in [Slug -> Action]
    /\ decision \in [Slug -> Decision]
    /\ cursor \in 1..(Len(Registry) + 1)
    /\ pc = "args" => refused \subseteq disabled
    /\ backed \subseteq Sentinel /\ gone \subseteq Sentinel
    /\ named \subseteq Slug /\ refused \subseteq Slug /\ toggled \subseteq Slug

Init ==
    /\ pc = "args" /\ args = 0
    /\ enabled = Default /\ disabled = {}
    /\ only = FALSE /\ full = FALSE /\ listed = FALSE /\ chosen = FALSE
    /\ reapply = FALSE /\ yes = FALSE /\ dry = FALSE /\ tty \in BOOLEAN
    /\ hw = {} /\ detected = FALSE
    /\ status = [m \in Slug |-> "fresh"] /\ action = [m \in Slug |-> "skip"]
    /\ decision = [m \in Slug |-> "keep"]
    /\ cursor = 1 /\ presses = 0 /\ backed = {} /\ gone = {}
    /\ named = {} /\ themed = FALSE /\ refused = {} /\ toggled = {}

-----------------------------------------------------------------------------
(***************************************************************************)
(* The command line.                                                       *)
(***************************************************************************)
Arg ==
    /\ pc = "args" /\ args < MaxArgs /\ args' = args + 1
    /\ UNCHANGED <<pc, tty, hw, detected, plan, cursor, presses, backed, gone, toggled>>

(* switch_to_exclusive: the first explicit selection starts from nothing.  *)
SwitchToExclusive ==
    /\ only' = TRUE
    /\ chosen' = (chosen \/ ~only)

(* The selection an argument adds to.                                      *)
Kept == IF only THEN enabled ELSE {}
KeptNames == IF only THEN named ELSE {}
KeptTheme == only /\ themed

(* --<flag>, a bare slug, --cpp-pro, --monitor: render brings what a       *)
(* palette reaches.                                                        *)
Name(x) ==
    /\ Arg
    /\ SwitchToExclusive
    /\ enabled' = Kept \cup {x} \cup (IF x = Render THEN Themed \ disabled ELSE {})
    /\ named' = KeptNames \cup {x}
    /\ themed' = (KeptTheme \/ x = Render)
    /\ refused' = refused \ {x}
    /\ UNCHANGED <<disabled, full, listed, reapply, yes, dry>>

RenderOnly ==
    /\ Arg
    /\ SwitchToExclusive
    /\ enabled' = Kept \cup ((Themed \cup {Summary}) \ disabled)
    /\ named' = KeptNames
    /\ themed' = TRUE
    /\ UNCHANGED <<disabled, full, listed, reapply, yes, dry, refused>>

(* --only: the first one resets the selection, even --full's.              *)
Only(x) ==
    /\ Arg
    /\ only' = TRUE /\ listed' = TRUE
    /\ chosen' = (chosen \/ ~listed)
    /\ enabled' = (IF listed THEN enabled ELSE {}) \cup {x}
    /\ named' = (IF listed THEN named ELSE {}) \cup {x}
    /\ themed' = (listed /\ themed)
    /\ refused' = refused \ {x}
    /\ UNCHANGED <<disabled, full, reapply, yes, dry>>

(* --no-<slug>, and a preset's off line.                                   *)
No(x) ==
    /\ Arg
    /\ enabled' = enabled \ {x}
    /\ disabled' = disabled \cup {x} /\ refused' = refused \cup {x}
    /\ UNCHANGED <<only, full, listed, chosen, reapply, yes, dry, named, themed>>

Quick ==
    /\ Arg
    /\ enabled' = enabled \ Slow
    /\ disabled' = disabled \cup Slow /\ refused' = refused \cup Slow
    /\ UNCHANGED <<only, full, listed, chosen, reapply, yes, dry, named, themed>>

(* A preset's on line.                                                     *)
PresetOn(x) ==
    /\ Arg
    /\ enabled' = enabled \cup {x}
    /\ named' = named \cup {x} /\ refused' = refused \ {x}
    /\ UNCHANGED <<disabled, only, full, listed, chosen, reapply, yes, dry, themed>>

(* Fault: --full forgets what was disabled before it.                      *)
FullEverything ==
    /\ Arg
    /\ full' = TRUE /\ only' = TRUE /\ reapply' = TRUE
    /\ enabled' = Slug
    /\ UNCHANGED <<disabled, listed, chosen, yes, dry, asked>>

Full ==
    /\ Arg
    /\ full' = TRUE /\ only' = TRUE /\ reapply' = TRUE
    /\ enabled' = enabled \cup (Slug \ disabled)
    /\ UNCHANGED <<disabled, listed, chosen, yes, dry, asked>>

Switch ==
    /\ Arg
    /\ \/ reapply' = TRUE /\ UNCHANGED <<yes, dry>>
       \/ yes' = TRUE /\ UNCHANGED <<reapply, dry>>
       \/ dry' = TRUE /\ UNCHANGED <<reapply, yes>>
    /\ UNCHANGED <<enabled, disabled, only, full, listed, chosen, asked>>

(* An unknown argument or slug, a preset that is not there, --help.        *)
BadArg ==
    /\ pc = "args" /\ pc' = "stopped"
    /\ UNCHANGED <<args, parsed, tty, hw, detected, plan, cursor, presses, backed, gone,
                   asked, toggled>>

(* The end of parse(), whose locals are gone.                              *)
EndArgs ==
    /\ pc = "args" /\ pc' = "detect"
    /\ enabled' = enabled \cup (IF chosen THEN Required \ disabled ELSE {})
    /\ disabled' = {} /\ listed' = FALSE /\ chosen' = FALSE
    /\ UNCHANGED <<args, only, full, reapply, yes, dry, tty, hw,
                   detected, plan, cursor, presses, backed, gone, asked, toggled>>

-----------------------------------------------------------------------------
(***************************************************************************)
(* detect runs at once, if it is selected; hw is what it found and the     *)
(* user did not decline.  An explicit selection only loses modules by it;  *)
(* else the gated modules follow the hardware.                             *)
(***************************************************************************)
Missing(found) == {m \in Gated : Part[m] \notin found}

(* Fault: modules are only ever added.                                     *)
GatedAdded(found) == (enabled \ {Detect}) \cup (AutoOn \ Missing(found))

AfterDetect(found) ==
    IF only /\ ~full
      THEN enabled \ (Missing(found) \cup {Detect})
      ELSE (enabled \ (Gated \cup {Detect})) \cup (AutoOn \ Missing(found))

RunDetect(found) ==
    /\ pc = "detect" /\ pc' = "plan"
    /\ IF Detect \in enabled
         THEN hw' = found /\ detected' = TRUE /\ enabled' = AfterDetect(found)
         ELSE UNCHANGED <<hw, detected, enabled>>
    /\ UNCHANGED <<args, disabled, only, full, listed, chosen, reapply, yes, dry, tty, plan,
                   cursor, presses, backed, gone, asked, toggled>>

(* default_plan, apply_cli_layer, and --full's decision on conflicts.      *)
DefaultAction(s) == CASE s \in {"fresh", "update"} -> "run"
                      [] s = "conflict" -> "conflict"
                      [] OTHER -> "skip"

Demanded == (only \/ reapply) /\ ~full

(* Fault: an up-to-date module is skipped although it was asked for.       *)
CliActionTimid(s, m) == IF m \notin enabled THEN "skip" ELSE DefaultAction(s)

CliAction(s, m) ==
    IF m \notin enabled THEN "skip"
    ELSE IF Demanded /\ s = "noop" THEN "run" ELSE DefaultAction(s)

MakePlan ==
    /\ pc = "plan"
    /\ \E s \in Answers :
          status' = [m \in Slug |-> IF m \in Checked THEN s[m] ELSE "fresh"]
    /\ action' = [m \in Slug |-> CliAction(status'[m], m)]
    /\ decision' = [m \in Slug |-> IF full /\ action'[m] = "conflict" THEN "backup" ELSE "keep"]
    /\ yes' = (yes \/ full)
    /\ pc' = IF yes' \/ ~tty THEN "preview" ELSE "wizard"
    /\ UNCHANGED <<args, enabled, disabled, only, full, listed, chosen, reapply, dry, tty, hw,
                   detected, cursor, presses, backed, gone, asked, toggled>>

-----------------------------------------------------------------------------
(***************************************************************************)
(* The wizard: one screen per module.                                      *)
(***************************************************************************)
Here == Registry[cursor]
Key == pc = "wizard" /\ cursor <= Len(Registry)

Previous ==
    /\ Key /\ cursor > 1
    /\ cursor' = cursor - 1
    /\ UNCHANGED <<pc, args, parsed, tty, hw, detected, plan, presses, backed, gone, asked, toggled>>

NextScreen ==
    /\ Key
    /\ cursor' = cursor + 1
    /\ UNCHANGED <<pc, args, parsed, tty, hw, detected, plan, presses, backed, gone, asked, toggled>>

Press == Key /\ presses < MaxToggles /\ presses' = presses + 1

(* SPACE on a module in conflict; its action is not looked at.             *)
Cycle ==
    /\ Press /\ status[Here] = "conflict"
    /\ decision' = [decision EXCEPT ![Here] =
          CASE @ = "keep" -> "take" [] @ = "take" -> "backup" [] OTHER -> "keep"]
    /\ UNCHANGED <<pc, args, parsed, tty, hw, detected, status, action, cursor, backed, gone,
                   asked, toggled>>

Toggle ==
    /\ Press /\ status[Here] \notin {"conflict", "blocked"}
    /\ action' = [action EXCEPT ![Here] = IF @ = "run" THEN "skip" ELSE "run"]
    /\ toggled' = toggled \cup {Here}
    /\ cursor' = cursor + 1
    /\ UNCHANGED <<pc, args, parsed, tty, hw, detected, status, decision, backed, gone, asked>>

(* After the last screen, or at end of input; q and Ctrl-C give up.        *)
EndWizard ==
    /\ pc = "wizard" /\ pc' \in {"preview", "stopped"}
    /\ cursor > Len(Registry) => pc' = "preview"
    /\ UNCHANGED <<args, parsed, tty, hw, detected, plan, cursor, presses, backed, gone, asked, toggled>>

Preview ==
    /\ pc = "preview"
    /\ pc' \in {"resolve"} \cup (IF yes \/ ~tty THEN {} ELSE {"stopped"})
    /\ UNCHANGED <<args, parsed, tty, hw, detected, plan, cursor, presses, backed, gone, asked, toggled>>

-----------------------------------------------------------------------------
(***************************************************************************)
(* apply_conflict_decisions: missing are the sentinels that are not on     *)
(* disk, copied those whose copy lands (both names may be taken, sudo may  *)
(* be refused).  Then module_enabled is what the plan says.                *)
(***************************************************************************)
InConflict(m) == action[m] = "conflict" /\ m \in Sentinel
NeedsCopy(m, missing) == InConflict(m) /\ decision[m] = "backup" /\ m \notin missing /\ ~dry

(* Fault: a copy that fails is only warned about.                          *)
GivenUpOnlyKept(m, missing, copied) == InConflict(m) /\ decision[m] = "keep"

GivenUp(m, missing, copied) ==
    \/ InConflict(m) /\ decision[m] = "keep"
    \/ NeedsCopy(m, missing) /\ m \notin copied

Resolve(missing, copied) ==
    /\ pc = "resolve" /\ pc' = "run"
    /\ action' = [m \in Slug |-> IF GivenUp(m, missing, copied) THEN "skip" ELSE action[m]]
    /\ backed' = {m \in copied : NeedsCopy(m, missing)} /\ gone' = missing
    /\ enabled' = {m \in Slug : action'[m] # "skip"}
    /\ UNCHANGED <<args, disabled, only, full, listed, chosen, reapply, yes, dry, tty, hw,
                   detected, status, decision, cursor, presses, asked, toggled>>

Over == pc \in {"run", "stopped"} /\ UNCHANGED vars

Arguments ==
    \/ RenderOnly \/ Quick \/ Full \/ Switch \/ BadArg \/ EndArgs
    \/ \E x \in Slug : Name(x) \/ Only(x) \/ No(x) \/ PresetOn(x)

Wizard == Previous \/ NextScreen \/ Cycle \/ Toggle \/ EndWizard

Next ==
    \/ Arguments
    \/ \E found \in SUBSET Hardware : RunDetect(found)
    \/ MakePlan \/ Wizard \/ Preview
    \/ \E missing, copied \in SUBSET Sentinel : Resolve(missing, copied)
    \/ Over

Spec == Init /\ [][Next]_vars

-----------------------------------------------------------------------------
(***************************************************************************)
(* What must hold of the modules the run goes on to execute.               *)
(***************************************************************************)
(* A module last mentioned to be left out is not executed, in whatever     *)
(* order the arguments came and whatever --full, render and REQ add, until *)
(* the user turns it on in the wizard.  The hardware modules that detect   *)
(* turns on again are another matter: see RefusalsAreKept.                 *)
RefusalsHold ==
    pc = "run" => \A m \in enabled \cap refused : m \in toggled \/ (m \in AutoOn /\ detected)

(* An explicit selection without --full executes what was named, what      *)
(* render implies and what REQ adds, and nothing else ([I-08]: detect      *)
(* never adds hardware modules to it).                                     *)
NothingUnasked ==
    pc = "run" /\ only /\ ~full =>
       enabled \subseteq named \cup Required \cup (IF themed THEN Themed \cup {Summary} ELSE {})
                       \cup toggled

(* A module named and not refused since is executed, up to date or not,    *)
(* unless the hardware or a prerequisite is missing, it is in conflict, or *)
(* --full or the user in the wizard decided otherwise ([I-08]: a flag the  *)
(* parser accepted must take effect).                                      *)
DemandIsMet ==
    pc = "run" /\ Demanded =>
       \A m \in (named \ refused) \ (toggled \cup {Detect}) :
          \/ m \in enabled
          \/ m \in Gated /\ detected /\ (Part[m] \notin hw \/ ~only)
          \/ status[m] \in {"blocked", "conflict"}

(* Once detect has looked, a module for hardware that is not there is only *)
(* executed if the user turned it on in the wizard; --full and --only make *)
(* no difference.                                                          *)
HardwareIsThere ==
    pc = "run" /\ detected =>
       \A m \in enabled \cap Gated : Part[m] \in hw \/ m \in toggled

(* Neither a flag nor the wizard gets a module past its missing            *)
(* prerequisite.                                                           *)
BlockedNeverRuns == pc = "run" => \A m \in enabled : status[m] # "blocked"

(* A module whose file holds the user's changes is executed only if --full *)
(* or the user in the wizard said so, and where the decision was to back   *)
(* the file up, only with the copy made.                                   *)
OverwriteHasConsent ==
    pc = "run" => \A m \in enabled :
       status[m] = "conflict" =>
          /\ full \/ (tty /\ ~yes)
          /\ decision[m] # "keep"
          /\ decision[m] = "backup" => m \in backed \cup gone \/ dry

-----------------------------------------------------------------------------
(* args.cpp:178: an explicit --no-<slug> survives --full.  detect, which  *)
(* runs after the arguments, does not know what was refused.               *)
RefusalsAreKept == pc = "run" /\ full => enabled \cap refused = {}
=============================================================================
