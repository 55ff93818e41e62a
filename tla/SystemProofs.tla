---------------------------- MODULE SystemProofs ----------------------------
(***************************************************************************)
(* Theorems about what the installer's modules do to the boot line, to the *)
(* places where it clones, and to the PAM stacks; and, at the end, about   *)
(* the parts of the machine together.                                      *)
(***************************************************************************)
EXTENDS MCHost, InstallRunProofs, MonitorProofs, DesktopProofs

-----------------------------------------------------------------------------
(* The boot line.  While a module works, the line it found is what it can  *)
(* go back to; a finished heal leaves no way for lockdown to come back.    *)
Working ==
    /\ mod.pc = "backup" => found = conf
    /\ mod.pc = "edit" => preedit = found
    /\ mod.pc = "swap" => new \in {conf, Garbled}
    /\ ~BootIdle => ("modeset" \in conf <=> "modeset" \in found)
Built == grub /\ unbuilt = {} => cfg = IF BootIdle THEN conf ELSE found
Healthy == healed =>
    /\ "lockdown" \notin conf
    /\ ~BootIdle => "lockdown" \notin found \cup mod.prepend
Pristine ==
    /\ "modeset" \notin conf => (bak # NoCopy => bak \in pristine) /\ (touched => bak # NoCopy)
    /\ ~touched => conf \in pristine /\ (~BootIdle => conf = found)
    /\ mod.pc \notin {"idle", "backup"} => bak # NoCopy
BootInv == BootTypeOK /\ Working /\ Built /\ Healthy /\ Pristine

(* The type invariant in parts: the lines, and the module at work.         *)
BootLines ==
    /\ conf \in Cmdline /\ cfg \in Cmdline /\ found \in Cmdline
    /\ bak \in Cmdline \cup {NoCopy} /\ preedit \in Cmdline \cup {NoCopy}
    /\ new \in Cmdline \cup {NoCopy, Garbled}
ModuleStep == {"idle", "backup", "edit", "check", "generate", "swap"}
ModuleRun == [name : {"none", "heal", "iommu"}, pc : ModuleStep, prepend : SUBSET {"iommu", "lockdown"}, strip : BOOLEAN]
BootMod ==
    /\ mod \in ModuleRun
    /\ mod.pc \in {"check", "generate", "swap"} => preedit = found

BootCounts == turns \in 0..MaxTurns /\ edits \in 0..MaxUserEdits
BootFlags ==
    /\ grub \in BOOLEAN /\ gpu \in BOOLEAN /\ dkms \in BOOLEAN /\ healed \in BOOLEAN
    /\ touched \in BOOLEAN /\ pristine \subseteq Cmdline
    /\ unbuilt \subseteq {"user", "apparmor", "kill"}

LEMMA BootBounds == MaxTurns \in Nat /\ MaxUserEdits \in Nat
  BY BootAssumption

LEMMA LineIsNoMark == \A line \in Cmdline : line # NoCopy /\ line # Garbled
  BY BootAssumption

LEMMA BootTypeInParts == BootTypeOK <=> BootLines /\ BootMod /\ BootCounts /\ BootFlags
<1>1. ModuleRun = [name : {"none", "heal", "iommu"}, pc : {"idle", "backup", "edit", "check", "generate", "swap"},
                   prepend : SUBSET {"iommu", "lockdown"}, strip : BOOLEAN]
  BY DEF ModuleRun, ModuleStep
<1> QED
  BY <1>1, LineIsNoMark DEF BootTypeOK, BootLines, BootMod, BootCounts, BootFlags

LEMMA OntoNext ==
    ASSUME mod \in ModuleRun, NEW next \in ModuleStep, Onto(next)
    PROVE  mod' \in ModuleRun /\ mod'.pc = next /\ mod'.name = mod.name
  BY DEF Onto, ModuleRun

LEMMA NoModuleIsOne == NoModule \in ModuleRun /\ NoModule.pc = "idle" /\ NoModule.name = "none"
  BY DEF NoModule, ModuleRun, ModuleStep

LEMMA FreshModule ==
    ASSUME NEW name \in {"heal", "iommu"}, NEW prepend \in SUBSET {"iommu", "lockdown"}, NEW strip \in BOOLEAN
    PROVE  LET m == [name |-> name, pc |-> "backup", prepend |-> prepend, strip |-> strip]
           IN  m \in ModuleRun /\ m.pc = "backup"
  BY DEF ModuleRun, ModuleStep

LEMMA BootInvInit == BootInit => BootInv
<1> SUFFICES ASSUME BootInit PROVE BootInv
  OBVIOUS
<1> USE DEF BootInit
<1>1. BootTypeOK
  <2>1. conf \in Cmdline
    BY DEF Cmdline, Arg
  <2>2. mod \in ModuleRun /\ mod.pc = "idle"
    BY NoModuleIsOne
  <2>3. BootMod /\ BootLines
    BY <2>1, <2>2 DEF BootMod, BootLines
  <2>4. BootCounts
    BY BootBounds DEF BootCounts, BootInit
  <2>5. BootFlags
    BY <2>1 DEF BootFlags
  <2> QED
    BY <2>3, <2>4, <2>5, BootTypeInParts
<1>2. Working /\ Built /\ Healthy /\ Pristine
  BY NoModuleIsOne DEF Working, Built, Healthy, Pristine, BootIdle
<1> QED
  BY <1>1, <1>2 DEF BootInv

(* Arguments put in or taken out of a line leave a line.                   *)
LEMMA LinesClosed ==
    \A line \in Cmdline : \A args \in SUBSET Arg : line \cup args \in Cmdline /\ line \ args \in Cmdline
  BY DEF Cmdline

LEMMA BootLinesStep == BootInv /\ [BootNext]_bootVars => BootLines'
<1> SUFFICES ASSUME BootInv, [BootNext]_bootVars PROVE BootLines'
  OBVIOUS
<1> USE DEF BootLines, machine, first, grubFiles, bounds
<1>0. BootLines /\ mod.prepend \subseteq Arg
  BY DEF BootInv, BootTypeOK, Arg
<1>a. {"user"} \subseteq Arg /\ {"lockdown"} \subseteq Arg /\ {"apparmor"} \subseteq Arg /\ {"modeset"} \subseteq Arg
  BY DEF Arg
<1>1. ASSUME NEW line \in {conf \cup {"user"}, conf \ {"user"}, conf \cup {"lockdown"}}, UserEdits(line) PROVE BootLines'
  <2>1. line \in Cmdline
    BY <1>0, <1>a, LinesClosed
  <2> QED
    BY <1>0, <1>1, <2>1 DEF UserEdits
<1>2. CASE DriversChange
  BY <1>0, <1>2 DEF DriversChange
<1>3. CASE AppArmor
  BY <1>0, <1>3, <1>a, LinesClosed DEF AppArmor, Once, May
<1>4. CASE Modeset
  BY <1>0, <1>4, <1>a, LinesClosed DEF Modeset, Once
<1>5. CASE StartIommu \/ StartHeal
  BY <1>0, <1>5 DEF StartIommu, StartHeal
<1>6. CASE Backup
  BY <1>0, <1>6 DEF Backup, Once
<1>7. CASE Edit
  <2>1. PICK line \in {conf, conf \cup mod.prepend} :
            conf' \in {line, IF mod.strip THEN line \ {"lockdown"} ELSE line}
    BY <1>7 DEF Edit
  <2>2. line \in Cmdline
    BY <1>0, <2>1, LinesClosed
  <2>3. line \ {"lockdown"} \in Cmdline
    BY <2>2, <1>a, LinesClosed
  <2>4. conf' \in Cmdline
    BY <2>1, <2>2, <2>3
  <2> QED
    BY <1>0, <1>7, <2>4 DEF Edit
<1>8. CASE Check
  <2>1. preedit = found
    BY <1>8 DEF Check, BootInv, BootTypeOK
  <2> QED
    BY <1>0, <1>8, <2>1 DEF Check, Revert
<1>9. CASE Generate
  BY <1>0, <1>9 DEF Generate
<1>10. CASE Swap
  <2>1. preedit = found /\ new \in {conf, Garbled}
    BY <1>10 DEF Swap, BootInv, BootTypeOK, Working
  <2> QED
    BY <1>0, <1>10, <2>1 DEF Swap, Revert
<1>11. CASE KillModule \/ UNCHANGED bootVars
  BY <1>0, <1>11 DEF KillModule, bootVars
<1> QED
  BY <1>1, <1>2, <1>3, <1>4, <1>5, <1>6, <1>7, <1>8, <1>9, <1>10, <1>11 DEF BootNext

LEMMA BootModStep == BootInv /\ [BootNext]_bootVars => BootMod'
<1> SUFFICES ASSUME BootInv, [BootNext]_bootVars PROVE BootMod'
  OBVIOUS
<1> USE NoModuleIsOne DEF BootMod, machine, grubFiles, bounds, BootIdle
<1>0. BootMod
  BY DEF BootInv, BootTypeOK, ModuleRun, ModuleStep
<1>1. CASE \/ \E line \in {conf \cup {"user"}, conf \ {"user"}, conf \cup {"lockdown"}} : UserEdits(line)
           \/ DriversChange \/ AppArmor \/ Modeset \/ UNCHANGED bootVars
  BY <1>0, <1>1 DEF UserEdits, DriversChange, AppArmor, Modeset, bootVars
<1>2. CASE StartIommu
  <2>0. PICK nvidia \in Detected :
            mod' \in {mod, [name |-> "iommu", pc |-> "backup",
                            prepend |-> IF "iommu" \in conf THEN {}
                                        ELSE {"iommu"} \cup (IF Unsigned(nvidia) THEN {} ELSE {"lockdown"}),
                            strip |-> Unsigned(nvidia) /\ "lockdown" \in conf]}
    BY <1>2 DEF StartIommu
  <2> DEFINE prepend == IF "iommu" \in conf THEN {} ELSE {"iommu"} \cup (IF Unsigned(nvidia) THEN {} ELSE {"lockdown"})
             strip == Unsigned(nvidia) /\ "lockdown" \in conf
  <2>1. mod' = mod \/ mod' = [name |-> "iommu", pc |-> "backup", prepend |-> prepend, strip |-> strip]
    BY <2>0
  <2>2. prepend \in SUBSET {"iommu", "lockdown"} /\ strip \in BOOLEAN
    OBVIOUS
  <2>3. preedit' = preedit /\ mod.pc = "idle"
    BY <1>2 DEF StartIommu, TakesTurn
  <2> QED
    BY <1>0, <2>1, <2>2, <2>3, FreshModule
<1>3. CASE StartHeal
  <2>1. mod' = mod \/ mod' = [name |-> "heal", pc |-> "backup", prepend |-> {}, strip |-> TRUE]
    BY <1>3 DEF StartHeal
  <2>2. preedit' = preedit /\ mod.pc = "idle"
    BY <1>3 DEF StartHeal, TakesTurn
  <2> QED
    BY <1>0, <2>1, <2>2, FreshModule
<1>4. CASE Backup
  BY <1>0, <1>4, OntoNext DEF ModuleStep, Backup, Working, BootInv
<1>5. CASE Edit
  BY <1>0, <1>5, OntoNext DEF ModuleStep, Edit, Working, BootInv
<1>6. CASE Check
  BY <1>0, <1>6, OntoNext DEF ModuleStep, Check, Revert
<1>7. CASE Generate
  BY <1>0, <1>7, OntoNext DEF ModuleStep, Generate
<1>8. CASE Swap
  BY <1>0, <1>8 DEF Swap, Revert
<1>9. CASE KillModule
  BY <1>0, <1>9 DEF KillModule
<1> QED
  BY <1>1, <1>2, <1>3, <1>4, <1>5, <1>6, <1>7, <1>8, <1>9 DEF BootNext

LEMMA BootCountsStep == BootInv /\ [BootNext]_bootVars => BootCounts'
<1> SUFFICES ASSUME BootCounts, [BootNext]_bootVars PROVE BootCounts'
  BY BootTypeInParts DEF BootInv
<1> USE BootBounds DEF BootCounts, machine, grubFiles, bounds, TakesTurn
<1>1. CASE UNCHANGED bounds
  BY <1>1
<1>2. ASSUME turns < MaxTurns, turns' = turns + 1, edits' = edits PROVE BootCounts'
  BY <1>2
<1>3. ASSUME edits < MaxUserEdits, edits' = edits + 1, turns' = turns PROVE BootCounts'
  BY <1>3
<1>4. CASE \E line \in {conf \cup {"user"}, conf \ {"user"}, conf \cup {"lockdown"}} : UserEdits(line)
  BY <1>3, <1>4 DEF UserEdits
<1>5. CASE AppArmor \/ Modeset \/ StartIommu \/ StartHeal
  BY <1>2, <1>5 DEF AppArmor, Modeset, StartIommu, StartHeal
<1>6. CASE DriversChange \/ Backup \/ Edit \/ Check \/ Generate \/ Swap \/ KillModule \/ UNCHANGED bootVars
  BY <1>1, <1>6 DEF DriversChange, Backup, Edit, Check, Generate, Swap, KillModule, bootVars
<1> QED
  BY <1>4, <1>5, <1>6 DEF BootNext

LEMMA BootFlagsStep == BootInv /\ [BootNext]_bootVars => BootFlags'
<1> SUFFICES ASSUME BootFlags, BootLines, [BootNext]_bootVars PROVE BootFlags'
  BY BootTypeInParts DEF BootInv
<1> USE DEF BootFlags, machine, first
<1>1. CASE \E line \in {conf \cup {"user"}, conf \ {"user"}, conf \cup {"lockdown"}} : UserEdits(line)
  <2>1. PICK line \in {conf \cup {"user"}, conf \ {"user"}, conf \cup {"lockdown"}} : UserEdits(line)
    BY <1>1
  <2>2. line \in Cmdline
    BY LinesClosed DEF BootLines, Arg
  <2> QED
    BY <2>1, <2>2 DEF UserEdits
<1>2. CASE DriversChange
  BY <1>2 DEF DriversChange
<1>3. CASE AppArmor \/ Modeset
  BY <1>3 DEF AppArmor, Modeset, Changes
<1>a. CASE StartIommu
  BY <1>a DEF StartIommu
<1>b. CASE StartHeal
  BY <1>b DEF StartHeal
<1>4. CASE Backup \/ Edit \/ Generate \/ KillModule \/ UNCHANGED bootVars
  BY <1>4 DEF Backup, Edit, Changes, Generate, KillModule, bootVars
<1>5. CASE Check
  BY <1>5 DEF Check, Revert, Heals
<1>6. CASE Swap
  BY <1>6 DEF Swap, Revert, Heals
<1> QED
  BY <1>1, <1>2, <1>3, <1>a, <1>b, <1>4, <1>5, <1>6 DEF BootNext

(* What iommu and lockdown_heal edit leaves the driver's argument alone.   *)
LEMMA ModesetSurvives ==
    ASSUME mod \in ModuleRun, Edit
    PROVE  "modeset" \in conf' <=> "modeset" \in conf
<1>1. PICK line \in {conf, conf \cup mod.prepend} :
          conf' \in {line, IF mod.strip THEN line \ {"lockdown"} ELSE line}
  BY DEF Edit
<1>2. "modeset" \notin mod.prepend
  BY DEF ModuleRun
<1> QED
  BY <1>1, <1>2

LEMMA WorkingStep == BootInv /\ [BootNext]_bootVars => Working'
<1> SUFFICES ASSUME BootInv, [BootNext]_bootVars PROVE Working'
  OBVIOUS
<1> USE NoModuleIsOne DEF Working, machine, grubFiles, bounds, BootIdle, TakesTurn
<1>0. BootMod /\ Working
  BY BootTypeInParts DEF BootInv
<1>1. CASE \E line \in {conf \cup {"user"}, conf \ {"user"}, conf \cup {"lockdown"}} : UserEdits(line)
  BY <1>0, <1>1 DEF UserEdits
<1>2. CASE DriversChange \/ AppArmor \/ Modeset
  BY <1>0, <1>2 DEF DriversChange, AppArmor, Modeset
<1>3. CASE StartIommu
  BY <1>0, <1>3 DEF StartIommu
<1>4. CASE StartHeal
  BY <1>0, <1>4 DEF StartHeal, Unsigned
<1>5. CASE Backup
  BY <1>0, <1>5, OntoNext DEF Backup, BootMod, ModuleStep
<1>6. CASE Edit
  BY <1>0, <1>6, OntoNext, ModesetSurvives DEF Edit, BootMod, ModuleStep
<1>7. CASE Check
  BY <1>0, <1>7, OntoNext DEF Check, Revert, BootMod, ModuleStep
<1>8. CASE Generate
  BY <1>0, <1>8, OntoNext DEF Generate, BootMod, ModuleStep
<1>9. CASE Swap \/ KillModule
  BY <1>0, <1>9 DEF Swap, Revert, KillModule
<1>10. CASE UNCHANGED bootVars
  BY <1>0, <1>10 DEF bootVars
<1> QED
  BY <1>1, <1>2, <1>3, <1>4, <1>5, <1>6, <1>7, <1>8, <1>9, <1>10 DEF BootNext

(* GRUB's file and what boots stay in step.                                *)
LEMMA BuiltStep == BootInv /\ [BootNext]_bootVars => Built'
<1> SUFFICES ASSUME BootInv, [BootNext]_bootVars PROVE Built'
  OBVIOUS
<1> USE NoModuleIsOne DEF Built, machine, grubFiles, bounds, BootIdle, TakesTurn
<1>0. BootMod /\ Working /\ Built
  BY BootTypeInParts DEF BootInv
<1>1. CASE \E line \in {conf \cup {"user"}, conf \ {"user"}, conf \cup {"lockdown"}} : UserEdits(line) \/ KillModule
  BY <1>1 DEF UserEdits, KillModule
<1>2. CASE DriversChange \/ AppArmor
  BY <1>0, <1>2 DEF DriversChange, AppArmor
<1>3. CASE Modeset
  BY <1>3 DEF Modeset
<1>4. CASE StartIommu
  BY <1>0, <1>4 DEF StartIommu
<1>5. CASE StartHeal
  BY <1>0, <1>5 DEF StartHeal
<1>6. CASE Backup
  BY <1>0, <1>6, OntoNext DEF Backup, BootMod, ModuleStep
<1>7. CASE Edit
  BY <1>0, <1>7, OntoNext DEF Edit, BootMod, ModuleStep
<1>8. CASE Check
  BY <1>0, <1>8, OntoNext DEF Check, Revert, BootMod, ModuleStep
<1>9. CASE Generate
  BY <1>0, <1>9, OntoNext DEF Generate, BootMod, ModuleStep
<1>10. CASE Swap
  <2>1. CASE new = Garbled
    BY <1>0, <1>10, <2>1 DEF Swap, Revert, BootMod
  <2>2. CASE new # Garbled
    BY <1>0, <1>10, <2>2 DEF Swap, Working
  <2> QED
    BY <2>1, <2>2
<1>11. CASE UNCHANGED bootVars
  BY <1>0, <1>11 DEF bootVars
<1> QED
  BY <1>1, <1>2, <1>3, <1>4, <1>5, <1>6, <1>7, <1>8, <1>9, <1>10, <1>11 DEF BootNext

(* Nothing a module may still do brings lockdown back after a heal.        *)
LEMMA HealthyStep == BootInv /\ [BootNext]_bootVars => Healthy'
<1> SUFFICES ASSUME BootInv, [BootNext]_bootVars PROVE Healthy'
  OBVIOUS
<1> USE NoModuleIsOne DEF Healthy, machine, grubFiles, bounds, BootIdle, TakesTurn
<1>0. BootMod /\ Working /\ Healthy
  BY BootTypeInParts DEF BootInv
<1>1. CASE \E line \in {conf \cup {"user"}, conf \ {"user"}, conf \cup {"lockdown"}} : UserEdits(line)
  BY <1>1 DEF UserEdits
<1>2. CASE DriversChange
  BY <1>0, <1>2 DEF DriversChange
<1>3. CASE AppArmor
  BY <1>0, <1>3 DEF AppArmor, May
<1>4. CASE Modeset
  BY <1>0, <1>4 DEF Modeset
<1>5. CASE StartIommu
  <2>1. ASSUME healed' PROVE healed /\ "lockdown" \notin conf
    BY <1>0, <1>5, <2>1 DEF StartIommu
  <2>2. conf' = conf /\ mod.pc = "idle"
    BY <1>5 DEF StartIommu
  <2>3. healed' => mod' = mod \/ ("lockdown" \notin mod'.prepend /\ found' = conf)
    <3>1. PICK nvidia \in Detected :
              /\ mod' \in {mod, [name |-> "iommu", pc |-> "backup",
                                 prepend |-> IF "iommu" \in conf THEN {}
                                             ELSE {"iommu"} \cup (IF Unsigned(nvidia) THEN {} ELSE {"lockdown"}),
                                 strip |-> Unsigned(nvidia) /\ "lockdown" \in conf]}
              /\ mod' = mod \/ found' = conf
              /\ healed' = (healed /\ ("lockdown" \in (IF "iommu" \in conf THEN {}
                                   ELSE {"iommu"} \cup (IF Unsigned(nvidia) THEN {} ELSE {"lockdown"})) => Unsigned(nvidia)))
      BY <1>5, Zenon DEF StartIommu
    <3>2. CASE mod' = mod
      BY <3>2
    <3>3. CASE mod' # mod
      <4>1. mod'.prepend = (IF "iommu" \in conf THEN {}
                            ELSE {"iommu"} \cup (IF Unsigned(nvidia) THEN {} ELSE {"lockdown"}))
        BY <3>1, <3>3
      <4>2. CASE Unsigned(nvidia)
        BY <3>1, <3>3, <4>1, <4>2
      <4>3. CASE ~Unsigned(nvidia)
        <5>1. healed' => "lockdown" \notin mod'.prepend
          BY <3>1, <4>1, <4>3
        <5> QED
          BY <3>1, <3>3, <5>1
      <4> QED
        BY <4>2, <4>3
    <3> QED
      BY <3>2, <3>3
  <2> QED
    BY <2>1, <2>2, <2>3
<1>6. CASE StartHeal
  BY <1>0, <1>6 DEF StartHeal
<1>7. CASE Backup
  BY <1>0, <1>7 DEF Backup, Onto, BootMod, ModuleRun
<1>8. CASE Edit
  BY <1>0, <1>8 DEF Edit, Onto, BootMod, ModuleRun
<1>9. CASE Check
  <2>1. CASE Revert
    BY <1>0, <1>9, <2>1 DEF Check, Revert, BootMod
  <2>2. CASE Onto("generate") /\ UNCHANGED <<conf, preedit, healed>>
    BY <1>0, <1>9, <2>2 DEF Check, Onto, BootMod, ModuleRun
  <2>3. CASE mod' = NoModule /\ Heals /\ UNCHANGED conf
    <3>1. conf' = conf /\ mod' = NoModule
      BY <1>9, <2>3 DEF Check
    <3>2. healed' => healed \/ (mod.name = "heal" /\ "lockdown" \notin conf)
      BY <2>3 DEF Heals
    <3>3. healed' => "lockdown" \notin conf
      BY <1>0, <3>2
    <3> QED
      BY <3>1, <3>3
  <2> QED
    BY <1>9, <2>1, <2>2, <2>3 DEF Check
<1>10. CASE Generate
  BY <1>0, <1>10 DEF Generate, Onto, BootMod, ModuleRun
<1>11. CASE Swap
  <2>1. CASE Revert
    BY <1>0, <1>11, <2>1 DEF Swap, Revert, BootMod
  <2>2. CASE mod' = NoModule /\ Heals /\ UNCHANGED conf
    <3>1. conf' = conf /\ mod' = NoModule
      BY <1>11, <2>2 DEF Swap
    <3>2. healed' => healed \/ (mod.name = "heal" /\ "lockdown" \notin conf)
      BY <2>2 DEF Heals
    <3>3. healed' => "lockdown" \notin conf
      BY <1>0, <3>2
    <3> QED
      BY <3>1, <3>3
  <2> QED
    BY <1>11, <2>1, <2>2 DEF Swap
<1>12. CASE KillModule \/ UNCHANGED bootVars
  BY <1>0, <1>12 DEF KillModule, bootVars
<1> QED
  BY <1>1, <1>2, <1>3, <1>4, <1>5, <1>6, <1>7, <1>8, <1>9, <1>10, <1>11, <1>12 DEF BootNext

(* The file is first changed with a copy of it beside it, and no step but  *)
(* nvidia's makes another.                                                 *)
LEMMA PristineStep == BootInv /\ [BootNext]_bootVars => Pristine'
<1> SUFFICES ASSUME BootInv, [BootNext]_bootVars PROVE Pristine'
  OBVIOUS
<1> USE NoModuleIsOne DEF Pristine, machine, first, grubFiles, bounds, BootIdle, TakesTurn
<1>0. BootMod /\ Working /\ Pristine /\ conf \in Cmdline /\ conf # NoCopy
  BY BootTypeInParts, LineIsNoMark DEF BootInv, BootLines
<1>1. ASSUME NEW line \in {conf \cup {"user"}, conf \ {"user"}, conf \cup {"lockdown"}}, UserEdits(line) PROVE Pristine'
  BY <1>0, <1>1 DEF UserEdits
<1>2. CASE DriversChange
  BY <1>0, <1>2 DEF DriversChange
<1>3. CASE AppArmor
  BY <1>0, <1>3 DEF AppArmor, Once, May, Changes
<1>4. CASE Modeset
  BY <1>0, <1>4 DEF Modeset, Changes
<1>5. CASE StartIommu
  BY <1>0, <1>5 DEF StartIommu
<1>6. CASE StartHeal
  BY <1>0, <1>6 DEF StartHeal
<1>7. CASE Backup
  BY <1>0, <1>7, OntoNext DEF Backup, Once, BootMod, ModuleStep, Working
<1>8. CASE Edit
  BY <1>0, <1>8, OntoNext, ModesetSurvives DEF Edit, Changes, BootMod, ModuleStep
<1>9. CASE Check
  BY <1>0, <1>9, OntoNext DEF Check, Revert, BootMod, ModuleStep, Working
<1>10. CASE Generate
  BY <1>0, <1>10, OntoNext DEF Generate, BootMod, ModuleStep
<1>11. CASE Swap
  BY <1>0, <1>11 DEF Swap, Revert, BootMod, Working
<1>12. CASE KillModule \/ UNCHANGED bootVars
  BY <1>0, <1>12 DEF KillModule, bootVars
<1> QED
  BY <1>1, <1>2, <1>3, <1>4, <1>5, <1>6, <1>7, <1>8, <1>9, <1>10, <1>11, <1>12 DEF BootNext

LEMMA BootInductive == BootSpec => []BootInv
<1>0. (BootLines /\ BootMod /\ BootCounts /\ BootFlags => BootTypeOK)'
  BY BootTypeInParts, PTL
<1>1. BootInv /\ [BootNext]_bootVars => BootInv'
  BY <1>0, BootLinesStep, BootModStep, BootCountsStep, BootFlagsStep, WorkingStep, BuiltStep, HealthyStep, PristineStep
     DEF BootInv
<1> QED
  BY BootInvInit, <1>1, PTL DEF BootSpec

(* Types: what boots is always a command line, never a garbled file, and   *)
(* once the line is edited the run's own copy of what it found is there.   *)
THEOREM BootTypes == BootSpec => []BootTypeOK
<1>1. BootInv => BootTypeOK
  BY DEF BootInv
<1> QED
  BY <1>1, BootInductive, PTL

(* With GRUB the edited file and grub.cfg change together or not at all.   *)
THEOREM EditsAreAllOrNothing == BootSpec => []AllOrNothing
<1>1. BootInv => AllOrNothing
  BY DEF BootInv, Built, AllOrNothing
<1> QED
  BY <1>1, BootInductive, PTL

(* No module and no revert brings lockdown back after a heal.              *)
THEOREM HealsLast == BootSpec => []HealedStaysHealed
<1>1. BootInv => HealedStaysHealed
  BY DEF BootInv, Built, Healthy, HealedStaysHealed
<1> QED
  BY <1>1, BootInductive, PTL

(* The create-once backup is the line from before the first edit, where    *)
(* nvidia does not edit the entry.                                         *)
THEOREM FirstBackupIsKept == BootSpec => []FirstBackupStays
<1>1. BootInv => FirstBackupStays
  BY DEF BootInv, Pristine, FirstBackupStays
<1> QED
  BY <1>1, BootInductive, PTL

(* An edit that is taken back leaves the line this run found.              *)
THEOREM RevertsToWhatItFound == BootSpec => RevertIsThisRuns
<1>1. BootInv /\ [BootNext]_bootVars => [mod.pc \in {"check", "swap"} /\ conf' # conf => conf' = found]_bootVars
  <2> SUFFICES ASSUME BootInv, BootNext, mod.pc \in {"check", "swap"}, conf' # conf PROVE conf' = found
    OBVIOUS
  <2>1. preedit = found
    BY BootTypeInParts DEF BootInv, BootMod
  <2>2. Check \/ Swap
    BY DEF BootNext, UserEdits, DriversChange, AppArmor, Modeset, StartIommu, StartHeal, Backup, Edit, Generate,
           KillModule, TakesTurn, BootIdle
  <2> QED
    BY <2>1, <2>2 DEF Check, Swap, Revert
<1> QED
  BY <1>1, BootInductive, PTL DEF BootSpec, RevertIsThisRuns

-----------------------------------------------------------------------------
(* Clones.  The type invariant in parts: the run, what is there, counters. *)
JobPc == {"none", "look", "aside", "attempt", "cloning", "leftover", "sync", "clear", "make", "built", "over"}
Outcome == {"none", "Present", "Cloned", "Repaired", "NotARepo", "Failed"}
Job == [pc : JobPc, attempt : 0..Tries, outcome : Outcome, pin : Rev \cup {NoRev}, flavour : Flavour]
JobOK == job \in Job /\ (job.pc \in {"look", "aside", "attempt"} => job.attempt < Tries)
SiteOK ==
    /\ site \in Site /\ head \in Rev \cup {NoRev} /\ asides \subseteq Site \ {"absent"}
    /\ build \in [Flavour -> Rev \cup {NoRev}] /\ pin \in Rev
    /\ build # NoBuild => site \in {"checkout", "edited"}
CloneCounts == jobs \in 0..MaxJobs /\ meddling \in 0..MaxMeddling /\ pins \in 0..MaxPins
CloneFlags == settled \in BOOLEAN /\ cutShort \in BOOLEAN /\ leftBehind \subseteq Flavour

(* While git clones nobody else touches the place; what a run has seen     *)
(* there is there until the user meddles; a build is of the commit at HEAD *)
(* unless a checkout left it behind, or is about to remove it.             *)
Unmeddled ==
    /\ job.pc = "cloning" => site \in {"partial", "torn"}
    /\ settled /\ job.pc = "aside" => site = "partial"
    /\ settled /\ job.pc = "attempt" => site = "absent"
    /\ settled /\ job.pc = "leftover" => site \in {"absent", "partial", "torn"}
AtPin ==
    /\ job.pc \in {"clear", "make", "built"} /\ site \in {"checkout", "edited"} => head = job.pin
    /\ \A v \in Flavour \ leftBehind :
          build[v] # NoRev /\ ~(job.pc = "clear" /\ v = job.flavour) => build[v] = head
    /\ job.pc = "built" /\ site \in {"checkout", "edited"} /\ job.flavour \notin leftBehind => build[job.flavour] = head
    /\ \A v \in leftBehind : build[v] # NoRev
CloneInv == JobOK /\ SiteOK /\ CloneCounts /\ CloneFlags /\ Unmeddled /\ AtPin /\ HalfClonesGo

LEMMA CloneTypesInParts == JobOK /\ SiteOK /\ CloneCounts /\ CloneFlags => CloneTypeOK
<1>1. Job = [pc : {"none", "look", "aside", "attempt", "cloning", "leftover", "sync", "clear", "make", "built", "over"},
             attempt : 0..Tries, outcome : {"none", "Present", "Cloned", "Repaired", "NotARepo", "Failed"},
             pin : Rev \cup {NoRev}, flavour : Flavour]
  BY DEF Job, JobPc, Outcome
<1> QED
  BY <1>1 DEF CloneTypeOK, JobOK, SiteOK, CloneCounts, CloneFlags, Valid

LEMMA Proceeds ==
    ASSUME job \in Job, NEW p \in JobPc, Proceed(p)
    PROVE  job' \in Job /\ job' = [job EXCEPT !.pc = p] /\ job'.pc = p /\ job'.pin = job.pin /\ job'.flavour = job.flavour
           /\ job'.attempt = job.attempt
  BY DEF Proceed, Job

LEMMA Answers ==
    ASSUME job \in Job, NEW outcome \in Outcome, Answer(outcome)
    PROVE  job' \in Job /\ job'.pc = "over"
  BY DEF Answer, Job, JobPc

LEMMA Goes ==
    ASSUME job \in Job, NEW p \in JobPc, NEW outcome \in Outcome, job' = [job EXCEPT !.pc = p, !.outcome = outcome]
    PROVE  job' \in Job /\ job'.pc = p /\ job'.pin = job.pin /\ job'.flavour = job.flavour
           /\ job'.attempt = job.attempt
  BY DEF Job

LEMMA NoJobIsOne == NoJob \in Job /\ NoJob.pc = "none"
  BY CloneAssumption DEF NoJob, Job, JobPc, Outcome, Flavour

LEMMA CloneBounds == Tries \in Nat \ {0} /\ MaxJobs \in Nat /\ MaxMeddling \in Nat /\ MaxPins \in Nat
  BY CloneAssumption

LEMMA CloneInvInit == CloneInit => CloneInv
<1> SUFFICES ASSUME CloneInit PROVE CloneInv
  OBVIOUS
<1> USE NoJobIsOne DEF CloneInit
<1>1. JobOK
  BY DEF JobOK
<1>2. SiteOK
  BY CloneAssumption DEF SiteOK, Site, NoBuild
<1>3. CloneCounts
  BY CloneBounds DEF CloneCounts
<1>4. CloneFlags /\ Unmeddled /\ AtPin /\ HalfClonesGo
  BY DEF CloneFlags, Unmeddled, AtPin, HalfClonesGo, NoBuild
<1> QED
  BY <1>1, <1>2, <1>3, <1>4 DEF CloneInv

(* A step of the user or of the repository leaves the run alone.           *)
LEMMA AroundTheJob ==
    (\E s \in Own : UserCreates(s)) \/ UserRemoves \/ UserWorks \/ UserEditsClone \/ (\E c \in Rev : NewPin(c))
        => job' = job
  BY DEF UserCreates, UserRemoves, UserWorks, UserEditsClone, Meddle, NewPin

LEMMA JobStep == CloneInv /\ [CloneNext]_cloneVars => JobOK'
<1> SUFFICES ASSUME JobOK, SiteOK, [CloneNext]_cloneVars PROVE JobOK'
  BY DEF CloneInv
<1> USE DEF JobOK, InJob, JobPc, Outcome
<1>1. CASE job' = job
  BY <1>1
<1>2. CASE StartJob
  <2>1. PICK v \in Flavour : job' = [pc |-> "look", attempt |-> 0, outcome |-> "none", pin |-> pin, flavour |-> v]
    BY <1>2 DEF StartJob
  <2> QED
    BY <2>1, CloneBounds DEF Job, SiteOK
<1>3. CASE Look
  <2>1. CASE job' = [job EXCEPT !.pc = "attempt", !.outcome = "Cloned"]
    BY <1>3, <2>1, Goes DEF Look
  <2>2. CASE job' = [job EXCEPT !.pc = "sync", !.outcome = "Present"]
    BY <2>2, Goes
  <2>3. CASE Proceed("aside")
    BY <1>3, <2>3, Proceeds DEF Look
  <2>4. CASE Answer("NotARepo")
    BY <2>4, Answers
  <2> QED
    BY <1>3, <2>1, <2>2, <2>3, <2>4 DEF Look
<1>4. CASE MoveAside
  <2>1. CASE Answer("Failed")
    BY <2>1, Answers
  <2>2. CASE job' = [job EXCEPT !.pc = "attempt", !.outcome = "Repaired"]
    BY <1>4, <2>2, Goes DEF MoveAside
  <2> QED
    BY <1>4, <2>1, <2>2 DEF MoveAside
<1>5. CASE Attempt
  <2>1. job.attempt \in 0..Tries /\ job.attempt < Tries
    BY <1>5 DEF Attempt, Job
  <2>2. job.attempt + 1 \in 0..Tries
    BY <2>1, CloneBounds
  <2>3. job' = [job EXCEPT !.pc = IF site = "absent" THEN "cloning" ELSE "leftover", !.attempt = @ + 1]
    BY <1>5 DEF Attempt
  <2>4. job' \in Job /\ job'.pc \in {"cloning", "leftover"}
    BY <2>2, <2>3 DEF Job
  <2> QED
    BY <2>4
<1>6. CASE GitFinishes
  BY <1>6, Proceeds DEF GitFinishes
<1>7. CASE GitFails
  BY <1>7, Proceeds DEF GitFails
<1>8. CASE Leftover
  <2>1. CASE Answer("Failed")
    BY <2>1, Answers
  <2>2. CASE Proceed("attempt") /\ job.attempt < Tries
    BY <2>2, Proceeds
  <2> QED
    BY <1>8, <2>1, <2>2 DEF Leftover, NextTry
<1>9. CASE Sync
  <2>1. CASE Proceed("make")
    BY <2>1, Proceeds
  <2>2. CASE Proceed("clear")
    BY <2>2, Proceeds
  <2>3. CASE Answer(job.outcome)
    BY <2>3, Answers DEF Job
  <2> QED
    BY <1>9, <2>1, <2>2, <2>3 DEF Sync
<1>10. CASE Clear
  BY <1>10, Proceeds DEF Clear
<1>11. CASE Make
  <2>1. CASE Proceed("built")
    BY <2>1, Proceeds
  <2>2. CASE Answer(job.outcome)
    BY <2>2, Answers DEF Job
  <2> QED
    BY <1>11, <2>1, <2>2 DEF Make
<1>12. CASE KillJob
  BY <1>12, NoJobIsOne DEF KillJob
<1>13. CASE GitFetches \/ UNCHANGED cloneVars
  BY <1>13 DEF GitFetches, cloneVars
<1> QED
  BY <1>1, <1>2, <1>3, <1>4, <1>5, <1>6, <1>7, <1>8, <1>9, <1>10, <1>11, <1>12, <1>13, AroundTheJob DEF CloneNext

LEMMA SiteStep == CloneInv /\ [CloneNext]_cloneVars => SiteOK'
<1> SUFFICES ASSUME JobOK, SiteOK, AtPin, Unmeddled, [CloneNext]_cloneVars PROVE SiteOK'
  BY DEF CloneInv
<1> USE CloneAssumption DEF SiteOK, Site, Own, Valid, InJob, cloneBounds, Becomes, NoBuild
<1>1. CASE \E s \in Own : UserCreates(s)
  BY <1>1 DEF UserCreates, Meddle
<1>2. CASE UserRemoves
  BY <1>2 DEF UserRemoves, Meddle
<1>3. CASE UserWorks
  BY <1>3 DEF UserWorks, Meddle
<1>4. CASE UserEditsClone
  BY <1>4 DEF UserEditsClone, Meddle
<1>5. CASE \E c \in Rev : NewPin(c)
  BY <1>5 DEF NewPin
<1>6. CASE StartJob \/ Look
  BY <1>6 DEF StartJob, Look
<1>7. CASE MoveAside
  BY <1>7 DEF MoveAside, MovedAside
<1>8. CASE Attempt
  BY <1>8 DEF Attempt
<1>9. CASE GitFetches
  BY <1>9 DEF GitFetches
<1>10. CASE GitFinishes
  BY <1>10 DEF GitFinishes
<1>11. CASE GitFails
  BY <1>11 DEF GitFails
<1>12. CASE Leftover
  BY <1>12 DEF Leftover, MovedAside
<1>13. CASE Sync
  BY <1>13 DEF Sync, JobOK, Job
<1>14. CASE Clear
  BY <1>14 DEF Clear
<1>15. CASE Make
  <2>1. UNCHANGED build \/ (site \in {"checkout", "edited"} /\ Makes(head)) \/ Makes(NoRev)
    BY <1>15 DEF Make
  <2>2. build' \in [Flavour -> Rev \cup {NoRev}]
    BY <2>1 DEF Makes
  <2>3. build' # NoBuild => site \in {"checkout", "edited"}
    BY <2>1 DEF Makes
  <2> QED
    BY <1>15, <2>2, <2>3 DEF Make
<1>16. CASE KillJob \/ UNCHANGED cloneVars
  BY <1>16 DEF KillJob, cloneVars
<1> QED
  BY <1>1, <1>2, <1>3, <1>4, <1>5, <1>6, <1>7, <1>8, <1>9, <1>10, <1>11, <1>12, <1>13, <1>14, <1>15, <1>16 DEF CloneNext

LEMMA CloneCountsStep == CloneInv /\ [CloneNext]_cloneVars => CloneCounts'
<1> SUFFICES ASSUME CloneCounts, [CloneNext]_cloneVars PROVE CloneCounts'
  BY DEF CloneInv
<1> USE CloneBounds DEF CloneCounts, cloneBounds
<1>1. CASE (\E s \in Own : UserCreates(s)) \/ UserRemoves \/ UserWorks \/ UserEditsClone
  BY <1>1 DEF UserCreates, UserRemoves, UserWorks, UserEditsClone, Meddle
<1>2. CASE \E c \in Rev : NewPin(c)
  BY <1>2 DEF NewPin
<1>3. CASE StartJob
  BY <1>3 DEF StartJob
<1>4. CASE UNCHANGED cloneBounds
  BY <1>4
<1> QED
  BY <1>1, <1>2, <1>3, <1>4 DEF CloneNext, Look, MoveAside, Attempt, GitFetches, GitFinishes, GitFails, Leftover,
     Sync, Clear, Make, KillJob, cloneVars

LEMMA CloneFlagsStep == CloneInv /\ [CloneNext]_cloneVars => CloneFlags'
<1> SUFFICES ASSUME CloneFlags, [CloneNext]_cloneVars PROVE CloneFlags'
  BY DEF CloneInv
<1> USE DEF CloneFlags, Becomes, Old
<1>1. CASE (\E s \in Own : UserCreates(s)) \/ UserRemoves \/ UserWorks \/ UserEditsClone \/ (\E c \in Rev : NewPin(c))
  BY <1>1 DEF UserCreates, UserRemoves, UserWorks, UserEditsClone, Meddle, NewPin
<1>2. CASE StartJob \/ Look \/ MoveAside \/ Attempt
  BY <1>2 DEF StartJob, Look, MoveAside, MovedAside, Attempt
<1>3. CASE GitFetches \/ GitFinishes \/ GitFails \/ Leftover
  BY <1>3 DEF GitFetches, GitFinishes, GitFails, Leftover, MovedAside
<1>4. CASE Sync \/ Clear \/ Make \/ KillJob \/ UNCHANGED cloneVars
  BY <1>4 DEF Sync, Clear, Make, KillJob, cloneVars
<1> QED
  BY <1>1, <1>2, <1>3, <1>4 DEF CloneNext

LEMMA UnmeddledStep == CloneInv /\ [CloneNext]_cloneVars => Unmeddled'
<1> SUFFICES ASSUME JobOK, SiteOK, Unmeddled, [CloneNext]_cloneVars PROVE Unmeddled'
  BY DEF CloneInv
<1> USE DEF Unmeddled, InJob, JobOK, JobPc, Outcome
<1>1. CASE (\E s \in Own : UserCreates(s)) \/ UserRemoves \/ UserWorks \/ UserEditsClone
  BY <1>1, AroundTheJob DEF UserCreates, UserRemoves, UserWorks, UserEditsClone, Meddle, InJob
<1>2. CASE (\E c \in Rev : NewPin(c)) \/ UNCHANGED cloneVars
  BY <1>2 DEF NewPin, cloneVars
<1>3. CASE StartJob
  BY <1>3 DEF StartJob
<1>4. CASE Look
  <2>1. CASE site = "absent" /\ job' = [job EXCEPT !.pc = "attempt", !.outcome = "Cloned"]
    BY <1>4, <2>1, Goes DEF Look
  <2>2. CASE job' = [job EXCEPT !.pc = "sync", !.outcome = "Present"]
    BY <2>2, Goes
  <2>3. CASE Dropped /\ Proceed("aside")
    BY <1>4, <2>3, Proceeds DEF Look, Dropped
  <2>4. CASE Answer("NotARepo")
    BY <2>4, Answers
  <2> QED
    BY <1>4, <2>1, <2>2, <2>3, <2>4 DEF Look
<1>5. CASE MoveAside
  <2>1. CASE Answer("Failed")
    BY <2>1, Answers
  <2>2. CASE job' = [job EXCEPT !.pc = "attempt", !.outcome = "Repaired"] /\ MovedAside
    BY <2>2, Goes DEF MovedAside, Becomes
  <2> QED
    BY <1>5, <2>1, <2>2 DEF MoveAside
<1>6. CASE Attempt
  <2>1. job' = [job EXCEPT !.pc = IF site = "absent" THEN "cloning" ELSE "leftover", !.attempt = @ + 1]
    BY <1>6 DEF Attempt
  <2>2. job'.pc = IF site = "absent" THEN "cloning" ELSE "leftover"
    BY <2>1 DEF Job
  <2> QED
    BY <1>6, <2>2 DEF Attempt, Becomes
<1>7. CASE GitFetches
  BY <1>7 DEF GitFetches, Becomes
<1>8. CASE GitFinishes
  BY <1>8, Proceeds DEF GitFinishes
<1>9. CASE GitFails
  BY <1>9, Proceeds DEF GitFails, Becomes
<1>10. CASE Leftover
  <2>1. site' = "absent"
    BY <1>10 DEF Leftover, MovedAside, Becomes
  <2>2. job'.pc \in {"attempt", "over"}
    BY <1>10, Proceeds, Answers DEF Leftover, NextTry
  <2> QED
    BY <2>1, <2>2
<1>11. CASE Sync
  <2>1. job'.pc \in {"make", "clear", "over"}
    BY <1>11, Proceeds, Answers DEF Sync, Job
  <2> QED
    BY <2>1
<1>12. CASE Clear
  BY <1>12, Proceeds DEF Clear
<1>13. CASE Make
  <2>1. job'.pc \in {"built", "over"}
    BY <1>13, Proceeds, Answers DEF Make, Job
  <2> QED
    BY <2>1
<1>14. CASE KillJob
  BY <1>14, NoJobIsOne DEF KillJob
<1> QED
  BY <1>1, <1>2, <1>3, <1>4, <1>5, <1>6, <1>7, <1>8, <1>9, <1>10, <1>11, <1>12, <1>13, <1>14 DEF CloneNext

(* A clone whose files are not all there is under way, or was cut short.   *)
LEMMA HalfClonesStep == CloneInv /\ [CloneNext]_cloneVars => HalfClonesGo'
<1> SUFFICES ASSUME JobOK, SiteOK, Unmeddled, HalfClonesGo, [CloneNext]_cloneVars PROVE HalfClonesGo'
  BY DEF CloneInv
<1> USE DEF HalfClonesGo, InJob, JobOK, JobPc, Outcome, Becomes
<1>1. CASE (\E s \in Own : UserCreates(s)) \/ UserRemoves \/ UserWorks \/ UserEditsClone
  BY <1>1 DEF UserCreates, UserRemoves, UserWorks, UserEditsClone, Own
<1>2. CASE (\E c \in Rev : NewPin(c)) \/ UNCHANGED cloneVars
  BY <1>2 DEF NewPin, cloneVars
<1>3. CASE StartJob
  BY <1>3 DEF StartJob, Quiet
<1>4. CASE Look
  BY <1>4 DEF Look
<1>5. CASE MoveAside \/ Leftover
  BY <1>5 DEF MoveAside, Leftover, MovedAside
<1>6. CASE Attempt
  <2>1. CASE site = "absent"
    BY <1>6, <2>1 DEF Attempt
  <2>2. CASE site # "absent"
    BY <1>6, <2>2 DEF Attempt
  <2> QED
    BY <2>1, <2>2
<1>7. CASE GitFetches
  BY <1>7 DEF GitFetches
<1>8. CASE GitFinishes
  BY <1>8 DEF GitFinishes
<1>9. CASE GitFails
  BY <1>9, Proceeds DEF GitFails
<1>10. CASE Sync \/ Clear \/ Make
  BY <1>10 DEF Sync, Clear, Make
<1>11. CASE KillJob
  BY <1>11 DEF KillJob
<1> QED
  BY <1>1, <1>2, <1>3, <1>4, <1>5, <1>6, <1>7, <1>8, <1>9, <1>10, <1>11 DEF CloneNext

(* The build follows HEAD, and HEAD the pin.                               *)
LEMMA AtPinStep == CloneInv /\ [CloneNext]_cloneVars => AtPin'
<1> SUFFICES ASSUME JobOK, SiteOK, CloneFlags, Unmeddled, AtPin, [CloneNext]_cloneVars PROVE AtPin'
  BY DEF CloneInv
<1> USE DEF AtPin, InJob, JobOK, SiteOK, JobPc, Outcome, NoBuild
<1>1. CASE \E s \in Own : UserCreates(s)
  BY <1>1, AroundTheJob DEF UserCreates, Becomes, Own
<1>2. CASE UserRemoves
  BY <1>2, AroundTheJob DEF UserRemoves, Becomes
<1>3. CASE UserWorks
  BY <1>3, AroundTheJob DEF UserWorks, Becomes
<1>4. CASE UserEditsClone
  <2>1. site = "checkout" /\ build' = build /\ head' = head /\ job' = job
    BY <1>4, AroundTheJob DEF UserEditsClone, Becomes
  <2>2. leftBehind' = leftBehind
    BY <1>4, <2>1 DEF UserEditsClone, Becomes, CloneFlags
  <2> QED
    BY <2>1, <2>2
<1>5. CASE (\E c \in Rev : NewPin(c)) \/ UNCHANGED cloneVars
  BY <1>5 DEF NewPin, cloneVars
<1>6. CASE StartJob
  <2>1. job'.pc = "look" /\ job.pc # "clear"
    BY <1>6 DEF StartJob, Quiet
  <2> QED
    BY <1>6, <2>1 DEF StartJob
<1>7. CASE Look
  <2>1. job'.pc \in {"attempt", "sync", "aside", "over"}
    BY <1>7, Goes, Proceeds, Answers DEF Look
  <2> QED
    BY <1>7, <2>1 DEF Look
<1>8. CASE MoveAside
  <2>1. job'.pc \in {"attempt", "over"}
    BY <1>8, Goes, Answers DEF MoveAside
  <2> QED
    BY <1>8, <2>1 DEF MoveAside, MovedAside, Becomes
<1>9. CASE Attempt
  <2>1. job' = [job EXCEPT !.pc = IF site = "absent" THEN "cloning" ELSE "leftover", !.attempt = @ + 1]
    BY <1>9 DEF Attempt
  <2>2. job'.pc \in {"cloning", "leftover"}
    BY <2>1 DEF Job
  <2> QED
    BY <1>9, <2>2 DEF Attempt, Becomes
<1>10. CASE GitFetches
  BY <1>10 DEF GitFetches, Becomes
<1>11. CASE GitFinishes
  BY <1>11, Proceeds DEF GitFinishes, Becomes
<1>12. CASE GitFails
  BY <1>12, Proceeds DEF GitFails, Becomes
<1>13. CASE Leftover
  <2>1. job'.pc \in {"attempt", "over"}
    BY <1>13, Proceeds, Answers DEF Leftover, NextTry
  <2> QED
    BY <1>13, <2>1 DEF Leftover, MovedAside, Becomes
<1>14. CASE Sync
  <2>1. CASE Proceed("make") /\ head = job.pin /\ UNCHANGED <<head, leftBehind>>
    BY <1>14, <2>1, Proceeds DEF Sync
  <2>2. CASE Answer(job.outcome) /\ UNCHANGED <<head, leftBehind>>
    <3>1. job'.pc = "over"
      BY <2>2, Answers DEF Job
    <3> QED
      BY <1>14, <2>2, <3>1 DEF Sync
  <2>3. CASE Proceed("clear") /\ head' = job.pin /\ leftBehind' = leftBehind \cup (Old \ {job.flavour})
    <3>1. job'.pc = "clear" /\ job'.flavour = job.flavour /\ job'.pin = job.pin
      BY <2>3, Proceeds
    <3>2. \A v \in Flavour \ leftBehind' : build[v] = NoRev \/ v = job.flavour
      BY <2>3 DEF Old
    <3> QED
      BY <1>14, <2>3, <3>1, <3>2 DEF Sync, Old
  <2> QED
    BY <1>14, <2>1, <2>2, <2>3 DEF Sync
<1>15. CASE Clear
  <2>1. /\ job'.pc = "make" /\ job'.flavour = job.flavour /\ job'.pin = job.pin
        /\ head' = head /\ site' = site /\ job.pc = "clear"
    BY <1>15, Proceeds DEF Clear
  <2>2. CASE build' = [build EXCEPT ![job.flavour] = NoRev] /\ leftBehind' = leftBehind \ {job.flavour}
    BY <2>1, <2>2
  <2>3. CASE leftBehind' = leftBehind \cup (Old \cap {job.flavour}) /\ UNCHANGED build
    BY <2>1, <2>3 DEF Old
  <2> QED
    BY <1>15, <2>2, <2>3 DEF Clear
<1>16. CASE Make
  <2>0. job.pc = "make" /\ job.flavour \in Flavour /\ leftBehind' = leftBehind /\ head' = head /\ site' = site
    BY <1>16 DEF Make, Job
  <2>1. CASE Proceed("built") /\ build[job.flavour] # NoRev /\ UNCHANGED build
    BY <2>0, <2>1, Proceeds
  <2>2. CASE Proceed("built") /\ build[job.flavour] = NoRev /\ site \in {"checkout", "edited"} /\ Makes(head)
    <3>1. build' = [build EXCEPT ![job.flavour] = head] /\ job.flavour \notin leftBehind
      BY <2>2 DEF Makes
    <3>2. job'.pc = "built" /\ job'.flavour = job.flavour /\ job'.pin = job.pin
      BY <2>2, Proceeds
    <3> QED
      BY <2>0, <2>2, <3>1, <3>2
  <2>3. CASE /\ Answer(job.outcome) /\ build[job.flavour] = NoRev
             /\ \E c \in {NoRev} \cup {x \in {head} : site \in {"checkout", "edited"}} : Makes(c)
    <3>1. job'.pc = "over"
      BY <2>3, Answers DEF Job
    <3>2. build' = [build EXCEPT ![job.flavour] = NoRev] \/ build' = [build EXCEPT ![job.flavour] = head]
      BY <2>3 DEF Makes
    <3>3. \A v \in leftBehind : v # job.flavour /\ v \in Flavour
      BY <2>3 DEF CloneFlags
    <3>4. \A v \in Flavour : build'[v] # NoRev => build'[v] = head \/ (v # job.flavour /\ build'[v] = build[v])
      BY <2>0, <3>2
    <3>5. \A v \in leftBehind : build'[v] # NoRev
      BY <2>0, <3>2, <3>3
    <3> QED
      BY <2>0, <3>1, <3>4, <3>5
  <2> QED
    BY <1>16, <2>1, <2>2, <2>3 DEF Make
<1>17. CASE KillJob
  BY <1>17, NoJobIsOne DEF KillJob, Old
<1> QED
  BY <1>1, <1>2, <1>3, <1>4, <1>5, <1>6, <1>7, <1>8, <1>9, <1>10, <1>11, <1>12, <1>13, <1>14, <1>15, <1>16, <1>17
     DEF CloneNext

LEMMA CloneInductive == CloneSpec => []CloneInv
<1>1. CloneInv /\ [CloneNext]_cloneVars => CloneInv'
  BY JobStep, SiteStep, CloneCountsStep, CloneFlagsStep, UnmeddledStep, AtPinStep, HalfClonesStep DEF CloneInv
<1> QED
  BY CloneInvInit, <1>1, PTL DEF CloneSpec

(* Types: no run makes more attempts than it may, and a build is never     *)
(* anywhere but in a checkout.                                             *)
THEOREM CloneTypes == CloneSpec => []CloneTypeOK
<1>1. CloneInv => CloneTypeOK
  BY CloneTypesInParts DEF CloneInv
<1> QED
  BY <1>1, CloneInductive, PTL

(* No clone without its files outlives its attempt, but for a kill.        *)
THEOREM HalfClonesAreMoved == CloneSpec => []HalfClonesGo
<1>1. CloneInv => HalfClonesGo
  BY DEF CloneInv
<1> QED
  BY <1>1, CloneInductive, PTL

(* A server that is called built is of the pinned commit, unless a         *)
(* checkout of another one had left that build where it was.               *)
THEOREM BuildsArePinned == CloneSpec => []BuiltIsPinned
<1>1. CloneInv => BuiltIsPinned
  BY DEF CloneInv, AtPin, BuiltIsPinned, InJob
<1> QED
  BY <1>1, CloneInductive, PTL

(* What the user had at the target when the run looked stays where it is.  *)
THEOREM OwnFilesAreLeftAlone == CloneSpec => OwnFilesStay
<1>1. CloneInv /\ [CloneNext]_cloneVars
        => [job' # job /\ site' # site /\ site \in Own => ~settled /\ site \in asides']_cloneVars
  <2> SUFFICES ASSUME CloneInv, CloneNext, job' # job, site' # site, site \in Own
               PROVE  ~settled /\ site \in asides'
    OBVIOUS
  <2>1. MoveAside \/ Attempt \/ GitFinishes \/ GitFails \/ Leftover
    BY AroundTheJob DEF CloneNext, StartJob, Look, GitFetches, Sync, Clear, Make, KillJob
  <2> QED
    BY <2>1 DEF CloneInv, Unmeddled, InJob, MoveAside, MovedAside, Attempt, GitFinishes, GitFails, Leftover, Own
<1> QED
  BY <1>1, CloneInductive, PTL DEF CloneSpec, OwnFilesStay

-----------------------------------------------------------------------------
(* PAM stacks.  No stack has a second fingerprint, pam_unix with           *)
(* try_first_pass or include, nor the last two together.                   *)
Distinct == {"fprintd", "tfp", "include"}
Tidy(s) == \A i, j \in DOMAIN s :
    /\ s[i] = s[j] /\ s[i] \in Distinct => i = j
    /\ ~(s[i] = "tfp" /\ s[j] = "include")
Bare(s) == ~Holds(s, "fprintd")

LEMMA ShapesAreBare == \A s \in Shape : s \in Stack /\ Tidy(s) /\ Bare(s) /\ s # NoStack
<1> SUFFICES ASSUME NEW s \in Shape PROVE s \in Stack /\ Tidy(s) /\ Bare(s)
  BY PamAssumption
<1>1. CASE s = <<"header", "include", "other">>
  BY <1>1 DEF Stack, Entry, Tidy, Bare, Holds, Distinct
<1>2. CASE s = <<"include", "other">>
  BY <1>2 DEF Stack, Entry, Tidy, Bare, Holds, Distinct
<1>3. CASE s = <<"header", "anchor", "include", "other">>
  BY <1>3 DEF Stack, Entry, Tidy, Bare, Holds, Distinct
<1>4. CASE s = <<"header", "unix", "other">>
  BY <1>4 DEF Stack, Entry, Tidy, Bare, Holds, Distinct
<1>5. CASE s = <<"header", "tfp", "other">>
  BY <1>5 DEF Stack, Entry, Tidy, Bare, Holds, Distinct
<1> QED
  BY <1>1, <1>2, <1>3, <1>4, <1>5 DEF Shape

LEMMA LockIsBare == HyprlockStack \in Stack /\ Tidy(HyprlockStack) /\ Bare(HyprlockStack) /\ ~Holds(HyprlockStack, "tfp") /\ Holds(HyprlockStack, "include")
<1>1. HyprlockStack \in Stack
  BY DEF HyprlockStack, Stack, Entry
<1> QED
  BY <1>1 DEF HyprlockStack, Tidy, Bare, Holds, Distinct

LEMMA EmptyIsBare == <<>> \in Stack /\ Tidy(<<>>) /\ Bare(<<>>)
  BY DEF Stack, Tidy, Bare, Holds, Distinct

LEMMA SplicedLines ==
    ASSUME NEW s \in Stack, NEW k \in 1..(Len(s) + 1), NEW line \in Entry
    PROVE  /\ Spliced(s, k, line) \in Stack /\ Len(Spliced(s, k, line)) = Len(s) + 1
           /\ Spliced(s, k, line)[k] = line
           /\ \A i \in DOMAIN s : IF i < k THEN Spliced(s, k, line)[i] = s[i] ELSE Spliced(s, k, line)[i + 1] = s[i]
           /\ \A i \in DOMAIN Spliced(s, k, line) : \/ i < k /\ i \in DOMAIN s /\ Spliced(s, k, line)[i] = s[i]
                                                    \/ i = k
                                                    \/ i > k /\ i - 1 \in DOMAIN s /\ Spliced(s, k, line)[i] = s[i - 1]
<1>1. Len(s) \in Nat /\ DOMAIN s = 1..Len(s) /\ \A i \in 1..Len(s) : s[i] \in Entry
  BY DEF Stack
<1>2. Spliced(s, k, line) \in [1..(Len(s) + 1) -> Entry]
  BY <1>1 DEF Spliced
<1>3. Spliced(s, k, line) \in Seq(Entry) /\ Len(Spliced(s, k, line)) = Len(s) + 1
  BY <1>1, <1>2, SeqDef, LenProperties
<1> QED
  BY <1>1, <1>2, <1>3 DEF Spliced, Stack

LEMMA SplicedIsTidy ==
    ASSUME NEW s \in Stack, Tidy(s), Bare(s), NEW k \in 1..(Len(s) + 1)
    PROVE  /\ Tidy(Spliced(s, k, "fprintd"))
           /\ \A line \in Entry \ {"fprintd"} : Holds(Spliced(s, k, "fprintd"), line) <=> Holds(s, line)
           /\ k # 1 => s # <<>> /\ Spliced(s, k, "fprintd") # <<>> /\ Spliced(s, k, "fprintd")[1] = s[1]
<1> DEFINE t == Spliced(s, k, "fprintd")
<1>0. "fprintd" \in Entry
  BY DEF Entry
<1>1. Len(s) \in Nat /\ DOMAIN s = 1..Len(s) /\ t \in Stack /\ DOMAIN t = 1..(Len(s) + 1)
  BY <1>0, SplicedLines, LenProperties DEF Stack
<1>2. t[k] = "fprintd" /\ k \in DOMAIN t
  BY <1>0, <1>1, SplicedLines
<1>3. \A i \in DOMAIN s : IF i < k THEN i \in DOMAIN t /\ t[i] = s[i] ELSE i + 1 \in DOMAIN t /\ t[i + 1] = s[i]
  BY <1>0, <1>1, SplicedLines
<1>4. \A i \in DOMAIN t : \/ i < k /\ i \in DOMAIN s /\ t[i] = s[i]
                          \/ i = k /\ t[i] = "fprintd"
                          \/ i > k /\ i - 1 \in DOMAIN s /\ t[i] = s[i - 1]
  BY <1>0, <1>1, <1>2, SplicedLines
<1>5. \A i \in DOMAIN s : s[i] # "fprintd"
  BY DEF Bare, Holds
<1> HIDE DEF t
<1>6. ASSUME NEW i \in DOMAIN t, NEW j \in DOMAIN t
      PROVE  /\ t[i] = t[j] /\ t[i] \in Distinct => i = j
             /\ ~(t[i] = "tfp" /\ t[j] = "include")
  BY <1>1, <1>4, <1>5, <1>6 DEF Tidy
<1>7. \A line \in Entry \ {"fprintd"} : Holds(t, line) <=> Holds(s, line)
  BY <1>3, <1>4 DEF Holds
<1>8. k # 1 => s # <<>> /\ t # <<>> /\ t[1] = s[1]
  BY <1>1, <1>3
<1> QED
  BY <1>6, <1>7, <1>8 DEF Tidy, t

LEMMA PlaceIsInside == ASSUME NEW s \in Stack PROVE SplicePlace(s) \in 1..(Len(s) + 1)
<1> DEFINE anchors == {i \in DOMAIN s : s[i] = "anchor"}
           auth == {i \in DOMAIN s : IsAuth(s[i])}
           Spot(i) == IF anchors # {} THEN i - 1 \in anchors /\ \A k \in anchors : k < i
                      ELSE IF auth # {} /\ 1 \notin auth THEN i \in auth /\ \A k \in auth : i <= k
                      ELSE i = Len(s) + 1
<1>1. Len(s) \in Nat /\ anchors \subseteq 1..Len(s) /\ auth \subseteq 1..Len(s)
  <2>1. Len(s) \in Nat /\ DOMAIN s = 1..Len(s)
    BY LenProperties DEF Stack
  <2> QED
    BY <2>1
<1> HIDE DEF anchors, auth
<1>2. ASSUME anchors # {} PROVE \E i \in 1..(Len(s) + 1) : Spot(i)
  <2> DEFINE T == {Len(s) - i : i \in anchors}
  <2>1. T \in SUBSET Nat /\ T # {}
    <3>1. \A i \in anchors : Len(s) - i \in Nat
      BY <1>1
    <3> QED
      BY <1>2, <3>1
  <2>2. PICK x \in T : \A y \in T : x <= y
    BY <2>1, Smallest
  <2>3. PICK i \in anchors : x = Len(s) - i
    BY <2>2
  <2>4. \A k \in anchors : Len(s) - i <= Len(s) - k
    BY <2>2, <2>3
  <2>5. i + 1 \in 1..(Len(s) + 1) /\ Spot(i + 1)
    BY <1>1, <1>2, <2>3, <2>4
  <2> QED
    BY <2>5
<1>3. ASSUME anchors = {}, auth # {}, 1 \notin auth PROVE \E i \in 1..(Len(s) + 1) : Spot(i)
  <2>1. auth \in SUBSET Nat
    BY <1>1
  <2>2. PICK i \in auth : \A k \in auth : i <= k
    BY <1>3, <2>1, Smallest
  <2> QED
    BY <1>1, <1>3, <2>2
<1>4. ASSUME anchors = {}, ~(auth # {} /\ 1 \notin auth) PROVE Spot(Len(s) + 1) /\ Len(s) + 1 \in 1..(Len(s) + 1)
  BY <1>1, <1>4
<1>5. \E i \in 1..(Len(s) + 1) : Spot(i)
  BY <1>2, <1>3, <1>4
<1>6. SplicePlace(s) = CHOOSE i \in 1..(Len(s) + 1) : Spot(i)
  BY DEF SplicePlace, anchors, auth
<1> HIDE DEF Spot
<1> QED
  BY <1>5, <1>6

(* A fingerprint spliced into a stack without try_first_pass costs nobody  *)
(* anything.                                                               *)
LEMMA SpliceOpens ==
    ASSUME NEW f \in {"sudo", "login", "greetd"}, NEW s \in Stack, Tidy(s), Bare(s), NEW k \in 1..(Len(s) + 1),
           NEW tail, Opens(f, s, tail), ~Holds(s, "tfp"), f # "greetd" => tail # "tfp", f = "sudo" => k # 1
    PROVE  Opens(f, Spliced(s, k, "fprintd"), tail) /\ ~Holds(Spliced(s, k, "fprintd"), "tfp")
<1> DEFINE t == Spliced(s, k, "fprintd")
<1>1. \A line \in Entry \ {"fprintd"} : Holds(t, line) <=> Holds(s, line)
  BY SplicedIsTidy
<1>2. k # 1 => s # <<>> /\ t # <<>> /\ t[1] = s[1]
  BY SplicedIsTidy
<1>3. t \in Stack
  BY SplicedLines DEF Entry
<1> HIDE DEF t
<1>4. ~Holds(t, "tfp")
  BY <1>1 DEF Entry
<1>5. t # NoStack
  BY <1>3, PamAssumption
<1>6. \E line \in {"unix", "tfp", "include"} : Holds(t, line)
  BY <1>1 DEF Opens, Entry
<1>7. tail # "tfp" => ~Cascades(t, tail)
  BY <1>4 DEF Cascades, Holds
<1>8. f = "sudo" => ~B1Fails(t)
  BY <1>2 DEF Opens, B1Fails
<1> QED
  BY <1>4, <1>5, <1>6, <1>7, <1>8 DEF Opens, t

(* fox-health sees every stack that locks the account, as long as a stack  *)
(* has one fingerprint, and one pam_unix or an include.                    *)
LEMMA CascadesAreSeen ==
    ASSUME NEW s \in Stack, Tidy(s), NEW tail \in {"unix", "tfp"}, Cascades(s, tail)
    PROVE  B2Fails(s, tail)
<1> DEFINE r == Resolved(s, tail)
<1>1. Len(s) \in Nat /\ DOMAIN s = 1..Len(s)
  BY LenProperties DEF Stack
<1>2. PICK i \in DOMAIN s, j \in DOMAIN s :
         i < j /\ s[i] = "fprintd" /\ s[j] \in IF tail = "tfp" THEN {"tfp", "include"} ELSE {"tfp"}
  BY DEF Cascades
<1>3. CASE s[j] = "tfp"
  <2>1. ~Holds(s, "include")
    BY <1>3 DEF Holds, Tidy
  <2>2. r = s
    BY <2>1 DEF Resolved
  <2>3. FirstAt(s, "fprintd", i) /\ FirstAt(s, "tfp", j)
    BY <1>1, <1>2, <1>3 DEF FirstAt, Tidy, Distinct
  <2> QED
    BY <1>2, <2>2, <2>3 DEF B2Fails
<1>4. CASE s[j] = "include" /\ tail = "tfp"
  <2>1. r = s \o <<"anchor", "tfp">>
    BY <1>4 DEF Resolved, Holds
  <2>2. /\ DOMAIN r = 1..(Len(s) + 2) /\ r[Len(s) + 1] = "anchor" /\ r[Len(s) + 2] = "tfp"
        /\ \A k \in 1..Len(s) : r[k] = s[k]
    BY <2>1, <1>1 DEF Stack
  <2>3. \A k \in 1..Len(s) : s[k] # "tfp"
    BY <1>1, <1>4 DEF Tidy
  <2> HIDE DEF r
  <2>4. FirstAt(r, "fprintd", i)
    BY <1>1, <1>2, <2>2 DEF FirstAt, Tidy, Distinct
  <2>5. \A k \in 1..(Len(s) + 1) : r[k] # "tfp"
    BY <1>1, <2>2, <2>3
  <2>6. FirstAt(r, "tfp", Len(s) + 2)
    BY <1>1, <2>2, <2>5 DEF FirstAt
  <2>7. i \in DOMAIN r /\ Len(s) + 2 \in DOMAIN r /\ i < Len(s) + 2
    BY <1>1, <1>2, <2>2
  <2> QED
    BY <2>4, <2>6, <2>7 DEF B2Fails, r
<1> QED
  BY <1>2, <1>3, <1>4

-----------------------------------------------------------------------------
(* The stacks, the module at work, and what the installer answers for.     *)
PamFiles ==
    /\ pam \in [Service -> Stack \cup {NoStack}] /\ pamBak \in [Service -> Stack \cup {NoStack}]
    /\ \A f \in Service : /\ pam[f] # NoStack => Tidy(pam[f])
                          /\ pamBak[f] # NoStack => Tidy(pamBak[f]) /\ Bare(pamBak[f])
    /\ pam["lock"] # NoStack => Bare(pam["lock"])
PamStep == {"idle", "backup", "sed", "install", "write"}
PamWork ==
    /\ pamMod \in [name : Service \cup {"none"}, pc : PamStep, text : Stack]
    /\ pamMod.name = "none" <=> PamIdle
    /\ pamMod.pc \in {"backup", "sed"} => pam[pamMod.name] # NoStack /\ Bare(pam[pamMod.name])
    /\ pamMod.pc = "sed" => pamMod.name \in {"sudo", "greetd"}
    /\ pamMod.pc \in {"install", "write"} =>
          /\ pamMod.name \in {"login", "lock"} /\ Tidy(pamMod.text)
          /\ pamMod.name = "lock" => pamMod.text = HyprlockStack
PamWorld ==
    /\ sysauth \in {"unix", "tfp"} /\ finger \in {"some", "none", "unknown"}
    /\ splices \in 0..MaxSplices /\ hands \in 0..MaxHands
    /\ intact \in [Service -> BOOLEAN]
Harmless(f, s) == Opens(f, s, sysauth) /\ ~Holds(s, "tfp")
Answerable == \A f \in Service : intact[f] =>
    /\ ~(pamMod.name = f /\ pamMod.pc = "write") => Harmless(f, pam[f])
    /\ pamMod.name = f /\ f \in {"sudo", "login"} => sysauth # "tfp"
    /\ pamMod.name = f /\ pamMod.pc \in {"install", "write"} => Harmless(f, pamMod.text)
PamInv == PamFiles /\ PamWork /\ PamWorld /\ Answerable

LEMMA PamInvInit == PamInit => PamInv
<1> SUFFICES ASSUME PamInit PROVE PamInv
  OBVIOUS
<1>1. PamFiles
  <2>1. \A f \in Service : pam[f] \in Shape \cup {NoStack} /\ pamBak[f] = NoStack
    BY DEF PamInit
  <2>2. pam \in [Service -> Stack \cup {NoStack}] /\ pamBak \in [Service -> Stack \cup {NoStack}]
    BY ShapesAreBare DEF PamInit
  <2> QED
    BY <2>1, <2>2, ShapesAreBare DEF PamFiles, Service
<1>2. PamWork
  BY EmptyIsBare DEF PamInit, PamWork, NoPamModule, PamIdle, PamStep
<1>3. PamWorld
  BY PamAssumption DEF PamInit, PamWorld
<1>4. Answerable
  BY DEF PamInit, Answerable, Harmless, NoPamModule, Service
<1> QED
  BY <1>1, <1>2, <1>3, <1>4 DEF PamInv

(* What a splice or a replacement leaves behind.                           *)
LEMMA SplicesFit ==
    ASSUME PamInv, NEW f \in Service, NEW k \in 1..(Len(pam[f]) + 1), pamMod.name = f, pamMod.pc \in {"backup", "sed"}
    PROVE  /\ pam[f] \in Stack /\ pam[f] # NoStack /\ Tidy(pam[f]) /\ Bare(pam[f])
           /\ Spliced(pam[f], k, "fprintd") \in Stack /\ Tidy(Spliced(pam[f], k, "fprintd"))
<1>1. pam[f] \in Stack /\ pam[f] # NoStack /\ Tidy(pam[f]) /\ Bare(pam[f])
  BY DEF PamInv, PamFiles, PamWork
<1>2. Spliced(pam[f], k, "fprintd") \in Stack
  BY <1>1, SplicedLines DEF Entry
<1> QED
  BY <1>1, <1>2, SplicedIsTidy

LEMMA HeadersAreInside ==
    ASSUME NEW s \in Stack
    PROVE  \A i \in AfterHeader(s) : i \in 1..(Len(s) + 1) /\ i # 1
<1>1. Len(s) \in Nat /\ DOMAIN s = 1..Len(s)
  BY LenProperties DEF Stack
<1> QED
  BY <1>1 DEF AfterHeader

LEMMA PamFilesStep == PamInv /\ [PamNext]_pamVars => PamFiles'
<1> SUFFICES ASSUME PamInv, [PamNext]_pamVars PROVE PamFiles'
  OBVIOUS
<1> USE DEF PamInv
<1>1. ASSUME NEW f \in Service, NEW s \in Stack, Tidy(s), f = "lock" => Bare(s), pam' = [pam EXCEPT ![f] = s], pamBak' = pamBak
      PROVE  PamFiles'
  BY <1>1 DEF PamFiles
<1>2. ASSUME NEW f \in Service, StartSplice(f) PROVE PamFiles'
  BY <1>2 DEF StartSplice, PamFiles
<1>3. ASSUME NEW f \in Service, BackUpStack(f) PROVE PamFiles'
  BY <1>3 DEF BackUpStack, PamFiles, PamWork
<1>4. ASSUME NEW f \in Service, SedStack(f) PROVE PamFiles'
  <2>1. CASE UNCHANGED pam
    BY <1>4, <2>1 DEF SedStack, PamFiles
  <2>2. CASE \E i \in AfterHeader(pam[f]) \cup {1} : pam' = [pam EXCEPT ![f] = Spliced(@, i, "fprintd")]
    <3>1. PICK i \in AfterHeader(pam[f]) \cup {1} : pam' = [pam EXCEPT ![f] = Spliced(pam[f], i, "fprintd")]
      BY <2>2
    <3>2. pam[f] \in Stack /\ f # "lock" /\ pamMod.name = f /\ pamMod.pc = "sed"
      BY <1>4 DEF SedStack, PamWork, PamFiles
    <3>3. i \in 1..(Len(pam[f]) + 1)
      BY <3>2, HeadersAreInside, LenProperties DEF Stack
    <3> QED
      BY <1>1, <1>4, <3>1, <3>2, <3>3, SplicesFit DEF SedStack
  <2> QED
    BY <1>4, <2>1, <2>2 DEF SedStack
<1>5. ASSUME NEW f \in Service, InstallStarts(f) PROVE PamFiles'
  <2>1. CASE UNCHANGED pam
    BY <1>5, <2>1 DEF InstallStarts, PamFiles
  <2>2. CASE pam' = [pam EXCEPT ![f] = NoStack]
    BY <1>5, <2>2 DEF InstallStarts, PamFiles
  <2>3. CASE pam' = [pam EXCEPT ![f] = <<>>]
    BY <1>1, <1>5, <2>3, EmptyIsBare DEF InstallStarts
  <2> QED
    BY <1>5, <2>1, <2>2, <2>3 DEF InstallStarts
<1>6. ASSUME NEW f \in Service, InstallEnds(f) PROVE PamFiles'
  <2>1. CASE UNCHANGED <<pam, pamBak>>
    BY <2>1 DEF PamFiles
  <2>2. CASE pam' = [pam EXCEPT ![f] = pamMod.text] /\ UNCHANGED pamBak
    BY <1>1, <1>6, <2>2, LockIsBare DEF InstallEnds, PamWork
  <2> QED
    BY <1>6, <2>1, <2>2 DEF InstallEnds
<1>7. CASE EditSystemAuth
  BY <1>7 DEF EditSystemAuth, Judged, PamFiles
<1>8. CASE KillSplice
  BY <1>8 DEF KillSplice, PamFiles
<1>9. ASSUME NEW f \in Service, RestoreStack(f) PROVE PamFiles'
  BY <1>9 DEF RestoreStack, Judged, PamFiles
<1>10. ASSUME NEW f \in Service, NEW s \in Shape, EditStack(f, s) PROVE PamFiles'
  BY <1>1, <1>10, ShapesAreBare DEF EditStack, Judged
<1>11. ASSUME NEW state \in {"some", "none", "unknown"}, EnrollFinger(state) PROVE PamFiles'
  BY <1>11 DEF EnrollFinger, PamFiles
<1>12. CASE UNCHANGED pamVars
  BY <1>12 DEF pamVars, PamFiles
<1> QED
  BY <1>2, <1>3, <1>4, <1>5, <1>6, <1>7, <1>8, <1>9, <1>10, <1>11, <1>12 DEF PamNext

LEMMA PamWorkStep == PamInv /\ [PamNext]_pamVars => PamWork'
<1> SUFFICES ASSUME PamInv, [PamNext]_pamVars PROVE PamWork'
  OBVIOUS
<1> USE DEF PamInv
<1>0. NoPamModule \in [name : Service \cup {"none"}, pc : PamStep, text : Stack] /\ NoPamModule.name = "none" /\ NoPamModule.pc = "idle"
  BY EmptyIsBare DEF NoPamModule, PamStep
<1>1. ASSUME pamMod' = NoPamModule PROVE PamWork'
  BY <1>0, <1>1 DEF PamWork, PamIdle, Service
<1>2. ASSUME NEW f \in Service, StartSplice(f) PROVE PamWork'
  <2>1. pamMod' = [name |-> f, pc |-> "backup", text |-> <<>>] /\ pam' = pam /\ pam[f] # NoStack
    BY <1>2 DEF StartSplice
  <2>2. Bare(pam[f])
    BY <1>2 DEF StartSplice, SudoGate, LoginGate, GreetdGate, PamFiles, Bare, Service
  <2> QED
    BY <2>1, <2>2, EmptyIsBare DEF PamWork, PamIdle, PamStep, Service
<1>3. ASSUME NEW f \in Service, BackUpStack(f) PROVE PamWork'
  <2>1. pamMod.name = f /\ pamMod.pc = "backup" /\ pam' = pam /\ pam[f] # NoStack /\ Bare(pam[f]) /\ pam[f] \in Stack
    BY <1>3 DEF BackUpStack, PamWork, PamFiles
  <2>2. CASE f \in {"sudo", "greetd"}
    <3>1. pamMod' = [name |-> f, pc |-> "sed", text |-> <<>>]
      BY <1>3, <2>1, <2>2 DEF BackUpStack, PamWork
    <3> QED
      BY <2>1, <2>2, <3>1, EmptyIsBare DEF PamWork, PamIdle, PamStep, Service
  <2>3. CASE f = "login"
    <3> DEFINE t == Spliced(pam[f], SplicePlace(pam[f]), "fprintd")
    <3>1. pamMod' = [name |-> f, pc |-> "install", text |-> t]
      BY <1>3, <2>1, <2>3 DEF BackUpStack, PamWork
    <3>2. t \in Stack /\ Tidy(t)
      BY <2>1, PlaceIsInside, SplicesFit
    <3> HIDE DEF t
    <3> QED
      BY <2>3, <3>1, <3>2 DEF PamWork, PamIdle, PamStep, Service
  <2>4. CASE f = "lock"
    <3>1. pamMod' = [name |-> f, pc |-> "install", text |-> HyprlockStack]
      BY <1>3, <2>1, <2>4 DEF BackUpStack, PamWork
    <3> QED
      BY <2>4, <3>1, LockIsBare DEF PamWork, PamIdle, PamStep, Service
  <2> QED
    BY <2>2, <2>3, <2>4 DEF Service
<1>4. ASSUME NEW f \in Service, SedStack(f) PROVE PamWork'
  BY <1>1, <1>4 DEF SedStack
<1>5. ASSUME NEW f \in Service, InstallStarts(f) PROVE PamWork'
  <2>1. CASE pamMod' = [pamMod EXCEPT !.pc = "write"]
    BY <1>5, <2>1 DEF InstallStarts, PamWork, PamIdle, PamStep
  <2> QED
    BY <1>1, <1>5, <2>1 DEF InstallStarts
<1>6. ASSUME NEW f \in Service, InstallEnds(f) PROVE PamWork'
  BY <1>1, <1>6 DEF InstallEnds
<1>7. CASE EditSystemAuth
  BY <1>7 DEF EditSystemAuth, ByOthers, Judged, PamWork, PamIdle
<1>8. CASE KillSplice
  BY <1>1, <1>8 DEF KillSplice
<1>9. ASSUME NEW f \in Service, RestoreStack(f) PROVE PamWork'
  <2>1. pam' = [pam EXCEPT ![f] = pamBak[f]] /\ pamBak[f] # NoStack /\ Bare(pamBak[f]) /\ pamMod' = pamMod
    BY <1>9 DEF RestoreStack, ByOthers, Judged, PamFiles
  <2>2. \A g \in Service : pam'[g] = IF g = f THEN pamBak[f] ELSE pam[g]
    BY <2>1 DEF PamFiles
  <2>3. pamMod.pc \in {"backup", "sed"} => pamMod.name \in Service
    BY DEF PamWork, PamIdle
  <2> QED
    BY <2>1, <2>2, <2>3 DEF PamWork, PamIdle
<1>10. ASSUME NEW f \in Service, NEW s \in Shape, EditStack(f, s) PROVE PamWork'
  <2>1. pam' = [pam EXCEPT ![f] = s] /\ s # NoStack /\ Bare(s) /\ pamMod' = pamMod
    BY <1>10, ShapesAreBare DEF EditStack, ByOthers, Judged
  <2>2. \A g \in Service : pam'[g] = IF g = f THEN s ELSE pam[g]
    BY <2>1 DEF PamFiles
  <2>3. pamMod.pc \in {"backup", "sed"} => pamMod.name \in Service
    BY DEF PamWork, PamIdle
  <2> QED
    BY <2>1, <2>2, <2>3 DEF PamWork, PamIdle
<1>11. ASSUME NEW state \in {"some", "none", "unknown"}, EnrollFinger(state) PROVE PamWork'
  BY <1>11 DEF EnrollFinger, ByOthers, PamWork, PamIdle
<1>12. CASE UNCHANGED pamVars
  BY <1>12 DEF pamVars, PamWork, PamIdle
<1> QED
  BY <1>2, <1>3, <1>4, <1>5, <1>6, <1>7, <1>8, <1>9, <1>10, <1>11, <1>12 DEF PamNext

LEMMA PamWorldStep == PamInv /\ [PamNext]_pamVars => PamWorld'
<1> SUFFICES ASSUME PamInv, [PamNext]_pamVars PROVE PamWorld'
  OBVIOUS
<1> USE PamAssumption DEF PamInv, PamWorld
<1>2. ASSUME NEW stacks, NEW tail, Judged(stacks, tail) PROVE intact' \in [Service -> BOOLEAN]
  BY <1>2 DEF Judged
<1>3. ASSUME NEW f \in Service, StartSplice(f) PROVE PamWorld'
  BY <1>3 DEF StartSplice
<1>4. ASSUME NEW f \in Service, BackUpStack(f) \/ SedStack(f) \/ InstallStarts(f) \/ InstallEnds(f) PROVE PamWorld'
  BY <1>4 DEF BackUpStack, SedStack, InstallStarts, InstallEnds
<1>5. CASE EditSystemAuth
  BY <1>2, <1>5 DEF EditSystemAuth, ByOthers, Judged
<1>6. CASE KillSplice
  BY <1>6 DEF KillSplice
<1>7. ASSUME NEW f \in Service, RestoreStack(f) PROVE PamWorld'
  BY <1>2, <1>7 DEF RestoreStack, ByOthers, Judged
<1>8. ASSUME NEW f \in Service, NEW s \in Shape, EditStack(f, s) PROVE PamWorld'
  BY <1>2, <1>8 DEF EditStack, ByOthers, Judged
<1>9. ASSUME NEW state \in {"some", "none", "unknown"}, EnrollFinger(state) PROVE PamWorld'
  BY <1>9 DEF EnrollFinger, ByOthers
<1>10. CASE UNCHANGED pamVars
  BY <1>10 DEF pamVars
<1> QED
  BY <1>3, <1>4, <1>5, <1>6, <1>7, <1>8, <1>9, <1>10 DEF PamNext

LEMMA AnswerableStep == PamInv /\ [PamNext]_pamVars => Answerable'
<1> SUFFICES ASSUME PamInv, [PamNext]_pamVars, NEW f \in Service, intact'[f]
             PROVE  /\ ~(pamMod'.name = f /\ pamMod'.pc = "write") => Harmless(f, pam[f])'
                    /\ pamMod'.name = f /\ f \in {"sudo", "login"} => sysauth' # "tfp"
                    /\ pamMod'.name = f /\ pamMod'.pc \in {"install", "write"} => Harmless(f, pamMod.text)'
  BY DEF Answerable
<1> DEFINE Goal == /\ ~(pamMod'.name = f /\ pamMod'.pc = "write") => Harmless(f, pam[f])'
                   /\ pamMod'.name = f /\ f \in {"sudo", "login"} => sysauth' # "tfp"
                   /\ pamMod'.name = f /\ pamMod'.pc \in {"install", "write"} => Harmless(f, pamMod.text)'
<1> USE DEF PamInv, Harmless
<1>0. NoPamModule.name # f
  BY DEF NoPamModule, Service
<1>1. ASSUME NEW stacks, NEW tail, Judged(stacks, tail), pamMod' = pamMod PROVE Goal
  <2>1. pamMod.name # f /\ Opens(f, stacks[f], tail) /\ ~Holds(stacks[f], "tfp")
    BY <1>1 DEF Judged
  <2> QED
    BY <1>1, <2>1 DEF Judged
<1>2. ASSUME NEW g \in Service, StartSplice(g) PROVE Goal
  <2>1. /\ pam' = pam /\ sysauth' = sysauth /\ intact' = intact /\ PamIdle
        /\ pamMod' = [name |-> g, pc |-> "backup", text |-> <<>>]
        /\ g \in {"sudo", "login"} => sysauth # "tfp"
    BY <1>2 DEF StartSplice, SudoGate, LoginGate
  <2> QED
    BY <2>1 DEF Answerable, PamIdle
<1>3. ASSUME NEW g \in Service, BackUpStack(g) PROVE Goal
  <2>1. pam' = pam /\ sysauth' = sysauth /\ intact' = intact /\ pamMod.name = g /\ pamMod.pc = "backup" /\ Harmless(f, pam[f])
    BY <1>3 DEF BackUpStack, Answerable
  <2>2. pamMod'.name = g /\ pamMod'.pc = IF g \in {"sudo", "greetd"} THEN "sed" ELSE "install"
    BY <1>3, <2>1 DEF BackUpStack, PamWork
  <2>3. CASE g = f /\ f = "login"
    <3>1. pamMod'.text = Spliced(pam[f], SplicePlace(pam[f]), "fprintd") /\ sysauth # "tfp"
      BY <1>3, <2>1, <2>3 DEF BackUpStack, PamWork, Answerable
    <3>2. /\ pam[f] \in Stack /\ Tidy(pam[f]) /\ Bare(pam[f])
          /\ SplicePlace(pam[f]) \in 1..(Len(pam[f]) + 1)
      BY <2>1, <2>3, PlaceIsInside DEF PamFiles, PamWork, Opens
    <3>3. Harmless(f, Spliced(pam[f], SplicePlace(pam[f]), "fprintd"))
      BY <2>1, <2>3, <3>1, <3>2, SpliceOpens
    <3> QED
      BY <2>1, <2>2, <2>3, <3>1, <3>3
  <2>4. CASE g = f /\ f = "lock"
    <3>1. pamMod'.text = HyprlockStack
      BY <1>3, <2>1, <2>4 DEF BackUpStack, PamWork
    <3>2. Harmless(f, HyprlockStack)
      BY <2>4, LockIsBare, PamAssumption DEF Opens, Cascades, Bare, Holds
    <3> QED
      BY <2>1, <2>2, <2>4, <3>1, <3>2
  <2>5. CASE g # f \/ f \in {"sudo", "greetd"}
    BY <2>1, <2>2, <2>5 DEF Answerable
  <2> QED
    BY <2>3, <2>4, <2>5 DEF Service
<1>4. ASSUME NEW g \in Service, SedStack(g) PROVE Goal
  <2>1. sysauth' = sysauth /\ intact' = intact /\ pamMod.name = g /\ pamMod.pc = "sed" /\ pamMod' = NoPamModule /\ Harmless(f, pam[f])
    BY <1>4 DEF SedStack, Answerable
  <2>2. CASE g # f \/ UNCHANGED pam
    BY <1>0, <1>4, <2>1, <2>2 DEF SedStack, PamFiles
  <2>3. CASE g = f /\ pam' # pam
    <3>1. f \in {"sudo", "greetd"} /\ (f = "sudo" => sysauth # "tfp")
      BY <2>1, <2>3 DEF PamWork, Answerable
    <3>2. pam[f] \in Stack /\ Tidy(pam[f]) /\ Bare(pam[f])
      BY <2>1, <2>3 DEF PamFiles, PamWork
    <3>3. PICK i \in AfterHeader(pam[f]) \cup {1} :
             (f = "sudo" => i \in AfterHeader(pam[f])) /\ pam' = [pam EXCEPT ![f] = Spliced(pam[f], i, "fprintd")]
      BY <1>4, <2>3 DEF SedStack
    <3>4. i \in 1..(Len(pam[f]) + 1) /\ (f = "sudo" => i # 1)
      BY <3>2, <3>3, HeadersAreInside, LenProperties DEF Stack
    <3>5. Harmless(f, Spliced(pam[f], i, "fprintd"))
      BY <2>1, <3>1, <3>2, <3>4, SpliceOpens
    <3>6. pam'[f] = Spliced(pam[f], i, "fprintd")
      BY <3>3 DEF PamFiles
    <3> QED
      BY <1>0, <2>1, <3>5, <3>6
  <2> QED
    BY <2>2, <2>3
<1>5. ASSUME NEW g \in Service, InstallStarts(g) PROVE Goal
  <2>1. sysauth' = sysauth /\ intact' = intact /\ pamMod.name = g /\ pamMod.pc = "install" /\ Harmless(f, pam[f])
    BY <1>5 DEF InstallStarts, Answerable
  <2>2. CASE pamMod' = NoPamModule /\ pam' = pam
    BY <1>0, <2>1, <2>2
  <2>3. CASE /\ \E gap \in {NoStack, <<>>} : pam' = [pam EXCEPT ![g] = gap]
             /\ pamMod' = [pamMod EXCEPT !.pc = "write"]
    <3>1. pamMod'.name = g /\ pamMod'.pc = "write" /\ pamMod'.text = pamMod.text /\ (g # f => pam'[f] = pam[f])
      BY <2>1, <2>3 DEF PamWork, PamFiles
    <3> QED
      BY <2>1, <3>1 DEF Answerable
  <2> QED
    BY <1>5, <2>2, <2>3 DEF InstallStarts
<1>6. ASSUME NEW g \in Service, InstallEnds(g) PROVE Goal
  <2>1. sysauth' = sysauth /\ pamMod.name = g /\ pamMod.pc = "write" /\ pamMod' = NoPamModule
    BY <1>6 DEF InstallEnds
  <2>2. CASE pam' = [pam EXCEPT ![g] = pamMod.text] /\ UNCHANGED intact
    <3>1. Harmless(f, IF g = f THEN pamMod.text ELSE pam[f])
      BY <2>1, <2>2 DEF Answerable
    <3>2. pam'[f] = IF g = f THEN pamMod.text ELSE pam[f]
      BY <2>2 DEF PamFiles
    <3> QED
      BY <1>0, <2>1, <3>1, <3>2
  <2>3. CASE intact' = [intact EXCEPT ![g] = FALSE] /\ UNCHANGED pam
    <3>1. g # f /\ intact[f]
      BY <2>3 DEF PamWorld
    <3>2. Harmless(f, pam[f])
      BY <2>1, <3>1 DEF Answerable
    <3> QED
      BY <1>0, <2>1, <2>3, <3>2
  <2> QED
    BY <1>6, <2>2, <2>3 DEF InstallEnds
<1>7. CASE EditSystemAuth
  BY <1>1, <1>7 DEF EditSystemAuth, ByOthers
<1>8. CASE KillSplice
  <2>1. pam' = pam /\ sysauth' = sysauth /\ pamMod' = NoPamModule /\ intact[f] /\ ~(pamMod.name = f /\ pamMod.pc = "write")
    BY <1>8 DEF KillSplice
  <2> QED
    BY <1>0, <2>1 DEF Answerable
<1>9. ASSUME NEW g \in Service, RestoreStack(g) PROVE Goal
  BY <1>1, <1>9 DEF RestoreStack, ByOthers
<1>10. ASSUME NEW g \in Service, NEW s \in Shape, EditStack(g, s) PROVE Goal
  BY <1>1, <1>10 DEF EditStack, ByOthers
<1>11. ASSUME NEW state \in {"some", "none", "unknown"}, EnrollFinger(state) PROVE Goal
  BY <1>11 DEF EnrollFinger, ByOthers, Answerable
<1>12. CASE UNCHANGED pamVars
  BY <1>12 DEF pamVars, Answerable
<1> QED
  BY <1>2, <1>3, <1>4, <1>5, <1>6, <1>7, <1>8, <1>9, <1>10, <1>11, <1>12 DEF PamNext

LEMMA PamInductive == PamSpec => []PamInv
<1>1. PamInv /\ [PamNext]_pamVars => PamInv'
  BY PamFilesStep, PamWorkStep, PamWorldStep, AnswerableStep DEF PamInv
<1> QED
  BY PamInvInit, <1>1, PTL DEF PamSpec

(* Types: no stack ever has the fingerprint twice.                         *)
THEOREM PamTypes == PamSpec => []PamTypeOK
<1>1. PamInv => PamTypeOK
  <2> SUFFICES ASSUME PamInv PROVE PamTypeOK
    OBVIOUS
  <2>1. \A f \in Service : /\ pam[f] \in Stack \cup {NoStack} /\ pamBak[f] \in Stack \cup {NoStack}
                           /\ intact[f] \in BOOLEAN
                           /\ pam[f] # NoStack => \A i, j \in DOMAIN pam[f] : pam[f][i] = "fprintd" /\ pam[f][j] = "fprintd" => i = j
    BY DEF PamInv, PamFiles, PamWorld, Tidy, Distinct
  <2>2. pamMod.name \in Service \cup {"none"} /\ pamMod.pc \in PamStep /\ pamMod.text \in Stack
    BY DEF PamInv, PamWork
  <2> QED
    BY <2>1, <2>2 DEF PamInv, PamWorld, PamTypeOK, PamStep
<1> QED
  BY <1>1, PamInductive, PTL

(* A splice that came to its end leaves sudo, login and the lock screen    *)
(* open to a password at no cost where they were and nobody else changed   *)
(* them, and fox-health reports every stack that locks the account.        *)
THEOREM SplicesAreSafe == PamSpec => []SplicesAreSafeOrSeen
<1>1. PamInv => SplicesAreSafeOrSeen
  BY CascadesAreSeen DEF PamInv, PamFiles, PamWorld, Answerable, Harmless, SplicesAreSafeOrSeen
<1> QED
  BY <1>1, PamInductive, PTL

-----------------------------------------------------------------------------
(* The parts together, as the host composes them.                          *)
PartsInit ==
    Init /\ BootInit /\ CloneInit /\ MonitorInit /\ NotesInit /\ MarksInit /\ FindexInit /\ PamInit
PartsNext ==
    /\ [Next]_vars /\ [BootNext]_bootVars /\ [CloneNext]_cloneVars /\ [MonitorNext]_monitorVars
    /\ [NotesNext]_notesVars /\ [MarksNext]_markVars /\ [FindexNext]_findexVars /\ [PamNext]_pamVars

LEMMA HostStartsParts == HostInit => PartsInit
  BY DEF HostInit, PartsInit

(* A step of one part is a stutter of every other.                         *)
LEMMA HostStepsParts == [HostNext]_hostVars => PartsNext
<1> SUFFICES ASSUME [HostNext]_hostVars PROVE PartsNext
  OBVIOUS
<1>1. CASE UNCHANGED hostVars
  BY <1>1 DEF hostVars, PartsNext
<1>2. CASE focus = "install" /\ Next /\ UNCHANGED <<focus, bootVars, cloneVars, monitorVars, notesVars, markVars, findexVars, pamVars>>
  BY <1>2 DEF PartsNext
<1>3. CASE focus = "boot" /\ BootNext /\ UNCHANGED <<focus, vars, cloneVars, monitorVars, notesVars, markVars, findexVars, pamVars>>
  BY <1>3 DEF PartsNext
<1>4. CASE focus = "clone" /\ CloneNext /\ UNCHANGED <<focus, vars, bootVars, monitorVars, notesVars, markVars, findexVars, pamVars>>
  BY <1>4 DEF PartsNext
<1>5. CASE focus = "monitor" /\ MonitorNext /\ UNCHANGED <<focus, vars, bootVars, cloneVars, notesVars, markVars, findexVars, pamVars>>
  BY <1>5 DEF PartsNext
<1>6. CASE focus = "notes" /\ NotesNext /\ UNCHANGED <<focus, vars, bootVars, cloneVars, monitorVars, markVars, findexVars, pamVars>>
  BY <1>6 DEF PartsNext
<1>7. CASE focus = "marks" /\ MarksNext /\ UNCHANGED <<focus, vars, bootVars, cloneVars, monitorVars, notesVars, findexVars, pamVars>>
  BY <1>7 DEF PartsNext
<1>8. CASE focus = "index" /\ FindexNext /\ UNCHANGED <<focus, vars, bootVars, cloneVars, monitorVars, notesVars, markVars, pamVars>>
  BY <1>8 DEF PartsNext
<1>9. CASE focus = "pam" /\ PamNext /\ UNCHANGED <<focus, vars, bootVars, cloneVars, monitorVars, notesVars, markVars, findexVars>>
  BY <1>9 DEF PartsNext
<1> QED
  BY <1>1, <1>2, <1>3, <1>4, <1>5, <1>6, <1>7, <1>8, <1>9 DEF HostNext

(* The host hides none of its parts: what it does is, for each part, a     *)
(* behaviour of that part's own specification.                             *)
THEOREM HostRunsItsParts ==
    HostSpec => /\ Spec /\ BootSpec /\ CloneSpec /\ MonitorSpec
                /\ NotesSpec /\ MarksSpec /\ FindexSpec /\ PamSpec
<1>1. HostInit => Init /\ BootInit /\ CloneInit /\ MonitorInit /\ NotesInit /\ MarksInit /\ FindexInit /\ PamInit
  BY HostStartsParts DEF PartsInit
<1>2. [HostNext]_hostVars =>
        /\ [Next]_vars /\ [BootNext]_bootVars /\ [CloneNext]_cloneVars /\ [MonitorNext]_monitorVars
        /\ [NotesNext]_notesVars /\ [MarksNext]_markVars /\ [FindexNext]_findexVars /\ [PamNext]_pamVars
  BY HostStepsParts DEF PartsNext
<1> QED
  BY <1>1, <1>2, PTL DEF HostSpec, Spec, BootSpec, CloneSpec, MonitorSpec, NotesSpec, MarksSpec, FindexSpec, PamSpec

(* Types of everything on the machine: every lock, record, marker, boot    *)
(* line, stack, clone, layout, queue, ribbon and index stays in its range, *)
(* whichever part is at work.                                              *)
THEOREM HostTypesHold == HostSpec => []HostTypes
<1>1. TypeOK /\ BootTypeOK /\ CloneTypeOK /\ MonitorTypeOK /\ NotesTypeOK /\ MarksTypeOK /\ FindexTypeOK /\ PamTypeOK
        => HostTypes
  BY DEF HostTypes
<1> QED
  BY <1>1, HostRunsItsParts, TypeCorrect, BootTypes, CloneTypes, MonitorTypes, NotesTypes, MarksTypes, FindexTypes,
     PamTypes, PTL
=============================================================================
