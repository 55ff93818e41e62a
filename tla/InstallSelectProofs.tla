------------------------ MODULE InstallSelectProofs ------------------------
(***************************************************************************)
(* What InstallSelect promises, for every registry, every assignment of    *)
(* roles and any number of arguments and keys.  The selection is enabled   *)
(* until the plan is made, then what the plan does not skip, then enabled  *)
(* again; the invariant follows it through the three.                      *)
(***************************************************************************)
EXTENDS InstallSelect, TLAPS

Late == {"wizard", "preview", "resolve"}

(* What the command line asked for.                                        *)
Universe == named \cup (IF themed THEN Themed \cup {Summary} ELSE {})

Selection == IF pc \in Late THEN {m \in Slug : action[m] # "skip"} ELSE enabled

(* While the arguments are read, and until detect has run.                 *)
ArgsInv ==
    pc \in {"args", "detect"} =>
       /\ ~detected
       /\ enabled \cap refused = {}
       /\ named \ refused \subseteq enabled
       /\ listed => only
       /\ only /\ ~full => enabled \subseteq Universe \cup (IF pc = "args" THEN {} ELSE Required)

(* From then on: where each selected module comes from, and why a module   *)
(* asked for is not selected.                                              *)
Justified(m) ==
    /\ m \in refused => m \in toggled \/ (m \in AutoOn /\ detected)
    /\ only /\ ~full => m \in Universe \cup Required \cup toggled
    /\ m \in Gated /\ detected => Part[m] \in hw \/ m \in toggled

Withheld(m) ==
    \/ m \in Gated /\ detected /\ (Part[m] \notin hw \/ ~only)
    \/ pc # "plan" /\ status[m] \in {"blocked", "conflict"}

SelectionInv ==
    pc \in {"plan", "run"} \cup Late =>
       /\ \A m \in Selection : Justified(m)
       /\ Demanded => \A m \in (named \ refused) \ (toggled \cup {Detect}) :
             m \in Selection \/ Withheld(m)

(* The plan: a module in conflict runs by consent only.                    *)
Consented == full \/ (tty /\ ~yes)

PlanInv ==
    /\ pc = "wizard" => tty /\ ~yes
    /\ pc \in Late \cup {"run"} => \A m \in Slug :
          /\ status[m] = "conflict" => m \in Sentinel /\ action[m] # "run"
          /\ status[m] = "blocked" => action[m] = "skip"
          /\ action[m] = "conflict" => status[m] = "conflict"
          /\ decision[m] # "keep" => Consented

RunInv ==
    pc = "run" => \A m \in enabled :
       /\ m \in Slug /\ action[m] # "skip"
       /\ status[m] = "conflict" =>
             /\ decision[m] # "keep"
             /\ decision[m] = "backup" => m \in backed \cup gone \/ dry

IInv == TypeOK /\ ArgsInv /\ SelectionInv /\ PlanInv /\ RunInv

-----------------------------------------------------------------------------
LEMMA Roles ==
  /\ Default \subseteq Slug /\ Required \subseteq Slug /\ Themed \subseteq Slug
  /\ Slow \subseteq Slug /\ Gated \subseteq Slug /\ Checked \subseteq Slug
  /\ AutoOn \subseteq Slug /\ AutoOn \subseteq Gated /\ Sentinel \subseteq Slug
  /\ Render \in Slug /\ Detect \in Slug /\ Summary \in Slug
  /\ Detect \notin Gated /\ Len(Registry) \in Nat
BY RoleAssumption, RegistryAssumption

LEMMA InitInv == Init => IInv
<1> SUFFICES ASSUME Init PROVE IInv
  OBVIOUS
<1> USE DEF Init
<1>1. TypeOK
  <2>1. 1 \in 1..(Len(Registry) + 1) /\ 0 \in 0..MaxArgs /\ 0 \in 0..MaxToggles
    BY Roles, BoundAssumption
  <2> QED
    BY <2>1, Roles DEF TypeOK, Status, Action, Decision
<1>2. ArgsInv
  BY DEF ArgsInv, Universe
<1>3. SelectionInv /\ PlanInv /\ RunInv
  BY DEF SelectionInv, PlanInv, RunInv, Late
<1> QED
  BY <1>1, <1>2, <1>3 DEF IInv

(***************************************************************************)
(* The command line.                                                       *)
(***************************************************************************)
(* In a state that is still reading arguments, only ArgsInv says anything. *)
LEMMA EarlyIsEnough ==
  ASSUME pc' \in {"args", "detect", "stopped"}
  PROVE  SelectionInv' /\ PlanInv' /\ RunInv'
BY DEF SelectionInv, PlanInv, RunInv, Late

(* What an argument has to leave behind.                                   *)
LEMMA ArgStep ==
  ASSUME TypeOK, ArgsInv, Arg,
         enabled' \subseteq Slug, disabled' \subseteq Slug, named' \subseteq Slug,
         refused' \subseteq disabled',
         {only', full', listed', chosen', reapply', yes', dry', themed'} \subseteq BOOLEAN,
         enabled' \cap refused' = {},
         named' \ refused' \subseteq enabled',
         listed' => only',
         only' /\ ~full' => enabled' \subseteq Universe'
  PROVE  IInv'
<1>1. args' \in 0..MaxArgs
  BY BoundAssumption DEF TypeOK, Arg
<1>2. TypeOK'
  BY <1>1 DEF TypeOK, Arg, plan
<1>3. ArgsInv'
  BY DEF ArgsInv, Arg
<1>4. pc' = "args"
  BY DEF Arg
<1> QED
  BY <1>2, <1>3, <1>4, EarlyIsEnough DEF IInv

LEMMA ArgumentsStep == ASSUME IInv, Arguments PROVE IInv'
<1>1. TypeOK /\ ArgsInv /\ PlanInv
  BY DEF IInv
<1>2. ASSUME Arg
      PROVE  /\ ~detected /\ pc = "args"
             /\ enabled \subseteq Slug /\ disabled \subseteq Slug /\ named \subseteq Slug
             /\ refused \subseteq disabled /\ enabled \cap refused = {}
             /\ named \ refused \subseteq enabled
             /\ listed => only
             /\ only /\ ~full => enabled \subseteq Universe
             /\ {only, full, listed, chosen, reapply, yes, dry, themed} \subseteq BOOLEAN
  BY <1>1, <1>2 DEF TypeOK, ArgsInv, Arg
<1>3. ASSUME NEW x \in Slug, Name(x) PROVE IInv'
  <2> USE DEF Name, SwitchToExclusive, Kept, KeptNames, KeptTheme
  <2>1. Arg
    BY <1>3
  <2>2. /\ enabled' \subseteq Slug /\ disabled' \subseteq Slug /\ named' \subseteq Slug
        /\ refused' \subseteq disabled' /\ enabled' \cap refused' = {}
        /\ named' \ refused' \subseteq enabled'
    BY <1>2, <1>3, <2>1, Roles
  <2>3. /\ {only', full', listed', chosen', reapply', yes', dry', themed'} \subseteq BOOLEAN
        /\ listed' => only'
    BY <1>2, <1>3, <2>1
  <2>4. only' /\ ~full' => enabled' \subseteq Universe'
    BY <1>2, <1>3, <2>1 DEF Universe
  <2> QED
    BY <1>1, <2>1, <2>2, <2>3, <2>4, ArgStep
<1>4. CASE RenderOnly
  <2> USE DEF RenderOnly, SwitchToExclusive, Kept, KeptNames, KeptTheme
  <2>1. Arg
    BY <1>4
  <2>2. /\ enabled' \subseteq Slug /\ disabled' \subseteq Slug /\ named' \subseteq Slug
        /\ refused' \subseteq disabled' /\ enabled' \cap refused' = {}
        /\ named' \ refused' \subseteq enabled'
    BY <1>2, <1>4, <2>1, Roles
  <2>3. /\ {only', full', listed', chosen', reapply', yes', dry', themed'} \subseteq BOOLEAN
        /\ listed' => only'
    BY <1>2, <1>4, <2>1
  <2>4. only' /\ ~full' => enabled' \subseteq Universe'
    BY <1>2, <1>4, <2>1 DEF Universe
  <2> QED
    BY <1>1, <2>1, <2>2, <2>3, <2>4, ArgStep
<1>5. ASSUME NEW x \in Slug, Only(x) PROVE IInv'
  <2> USE DEF Only
  <2>1. Arg
    BY <1>5
  <2>2. /\ enabled' \subseteq Slug /\ disabled' \subseteq Slug /\ named' \subseteq Slug
        /\ refused' \subseteq disabled' /\ enabled' \cap refused' = {}
        /\ named' \ refused' \subseteq enabled'
    BY <1>2, <1>5, <2>1
  <2>3. /\ {only', full', listed', chosen', reapply', yes', dry', themed'} \subseteq BOOLEAN
        /\ listed' => only'
    BY <1>2, <1>5, <2>1
  <2>4. only' /\ ~full' => enabled' \subseteq Universe'
    BY <1>2, <1>5, <2>1 DEF Universe
  <2> QED
    BY <1>1, <2>1, <2>2, <2>3, <2>4, ArgStep
<1>6. ASSUME NEW x \in Slug, No(x) \/ PresetOn(x) PROVE IInv'
  <2>1. Arg
    BY <1>6 DEF No, PresetOn
  <2>2. /\ enabled' \subseteq Slug /\ disabled' \subseteq Slug /\ named' \subseteq Slug
        /\ refused' \subseteq disabled' /\ enabled' \cap refused' = {}
        /\ named' \ refused' \subseteq enabled'
    BY <1>2, <1>6, <2>1 DEF No, PresetOn
  <2>3. /\ {only', full', listed', chosen', reapply', yes', dry', themed'} \subseteq BOOLEAN
        /\ listed' => only'
        /\ only' /\ ~full' => enabled' \subseteq Universe'
    BY <1>2, <1>6, <2>1 DEF No, PresetOn, Universe
  <2> QED
    BY <1>1, <2>1, <2>2, <2>3, ArgStep
<1>7. CASE Quick \/ Full \/ Switch
  <2>1. Arg
    BY <1>7 DEF Quick, Full, Switch
  <2>2. /\ enabled' \subseteq Slug /\ disabled' \subseteq Slug /\ named' \subseteq Slug
        /\ refused' \subseteq disabled' /\ enabled' \cap refused' = {}
        /\ named' \ refused' \subseteq enabled'
    BY <1>2, <1>7, <2>1, Roles DEF Quick, Full, Switch, asked
  <2>3. /\ {only', full', listed', chosen', reapply', yes', dry', themed'} \subseteq BOOLEAN
    BY <1>2, <1>7, <2>1 DEF Quick, Full, Switch, asked
  <2>4. /\ listed' => only'
        /\ only' /\ ~full' => enabled' \subseteq Universe'
    BY <1>2, <1>7, <2>1 DEF Quick, Full, Switch, asked, Universe
  <2> QED
    BY <1>1, <2>1, <2>2, <2>3, <2>4, ArgStep
<1>8. CASE BadArg
  <2>1. TypeOK'
    BY <1>1, <1>8 DEF BadArg, TypeOK, parsed, plan, asked
  <2>2. pc' = "stopped"
    BY <1>8 DEF BadArg
  <2>3. ArgsInv'
    BY <2>2 DEF ArgsInv
  <2> QED
    BY <2>1, <2>2, <2>3, EarlyIsEnough DEF IInv
<1>9. CASE EndArgs
  <2>1. pc = "args" /\ pc' = "detect"
    BY <1>9 DEF EndArgs
  <2>2. TypeOK'
    BY <1>1, <1>9, Roles DEF EndArgs, TypeOK, plan, asked
  <2>3. ArgsInv'
    BY <1>1, <1>9, <2>1 DEF EndArgs, ArgsInv, TypeOK, asked, Universe
  <2> QED
    BY <2>1, <2>2, <2>3, EarlyIsEnough DEF IInv
<1> QED
  BY <1>3, <1>4, <1>5, <1>6, <1>7, <1>8, <1>9 DEF Arguments

(***************************************************************************)
(* detect and the plan.                                                    *)
(***************************************************************************)
LEMMA DetectStep == ASSUME IInv, NEW found \in SUBSET Hardware, RunDetect(found) PROVE IInv'
<1> USE DEF RunDetect
<1>1. TypeOK /\ ArgsInv /\ pc = "detect" /\ pc' = "plan"
  BY DEF IInv
<1>2. /\ ~detected /\ enabled \cap refused = {} /\ named \ refused \subseteq enabled
      /\ only /\ ~full => enabled \subseteq Universe \cup Required
  BY <1>1 DEF ArgsInv
<1>3. TypeOK'
  BY <1>1, Roles DEF TypeOK, AfterDetect, Missing, plan, asked
<1>4. Universe' = Universe /\ Selection' = enabled'
  BY <1>1 DEF Universe, Selection, Late, asked
<1>5. ASSUME NEW m \in enabled' PROVE Justified(m)'
  <2>1. m \in refused' => m \in AutoOn /\ detected'
    BY <1>2, <1>5 DEF AfterDetect, asked
  <2>2. only' /\ ~full' => m \in Universe' \cup Required
    BY <1>2, <1>4, <1>5 DEF AfterDetect, asked
  <2>3. m \in Gated /\ detected' => Part[m] \in hw'
    BY <1>2, <1>5 DEF AfterDetect, Missing
  <2> QED
    BY <2>1, <2>2, <2>3 DEF Justified
<1>6. ASSUME Demanded', NEW m \in (named' \ refused') \ (toggled' \cup {Detect})
      PROVE  m \in enabled' \/ Withheld(m)'
  <2>1. m \in enabled /\ m # Detect /\ ~full
    BY <1>2, <1>6 DEF Demanded, asked
  <2> QED
    BY <1>6, <2>1 DEF AfterDetect, Missing, Withheld
<1>7. SelectionInv' /\ PlanInv' /\ RunInv' /\ ArgsInv'
  BY <1>1, <1>4, <1>5, <1>6 DEF SelectionInv, PlanInv, RunInv, ArgsInv, Late
<1> QED
  BY <1>3, <1>7 DEF IInv

LEMMA PlanStep == ASSUME IInv, MakePlan PROVE IInv'
<1> USE DEF MakePlan
<1>1. TypeOK /\ SelectionInv /\ pc = "plan" /\ pc' \in {"wizard", "preview"}
  BY DEF IInv
<1>2. /\ enabled \subseteq Slug /\ {only, full, yes, tty, reapply} \subseteq BOOLEAN
      /\ named \subseteq Slug
  BY <1>1 DEF TypeOK
<1>3. PICK s \in Answers : status' = [m \in Slug |-> IF m \in Checked THEN s[m] ELSE "fresh"]
  OBVIOUS
<1>4. s \in [Checked -> Status] /\ \A m \in Checked : s[m] = "conflict" => m \in Sentinel
  BY RoleAssumption
<1>5. /\ status' \in [Slug -> Status]
      /\ \A m \in Slug : status'[m] = "conflict" => m \in Sentinel
  BY <1>3, <1>4, Roles DEF Status
<1>6. \A m \in Slug :
         /\ action'[m] \in Action
         /\ action'[m] = (IF m \notin enabled THEN "skip"
                         ELSE IF Demanded /\ status'[m] = "noop" THEN "run"
                         ELSE DefaultAction(status'[m]))
  BY <1>5 DEF CliAction, DefaultAction, Action, Status
<1>7. \A m \in Slug :
         /\ decision'[m] \in Decision
         /\ decision'[m] # "keep" => full
  BY DEF Decision
<1>8. TypeOK'
  <2>1. action' \in [Slug -> Action] /\ decision' \in [Slug -> Decision]
    BY <1>6, <1>7
  <2>2. yes' \in BOOLEAN
    BY <1>2
  <2> QED
    BY <1>1, <1>5, <2>1, <2>2 DEF TypeOK, asked
<1>9. \A m \in Slug :
         /\ action'[m] # "skip" => m \in enabled
         /\ m \in enabled /\ action'[m] = "skip" /\ Demanded => status'[m] = "blocked"
         /\ status'[m] = "conflict" => action'[m] # "run"
         /\ status'[m] = "blocked" => action'[m] = "skip"
         /\ action'[m] = "conflict" => status'[m] = "conflict"
  BY <1>5, <1>6 DEF DefaultAction, Status
<1>10. SelectionInv'
  <2>1. Universe' = Universe /\ Selection = enabled
        /\ Selection' = {m \in Slug : action'[m] # "skip"} /\ (Demanded' <=> Demanded)
    BY <1>1 DEF Universe, Selection, Late, Demanded, asked
  <2>2. ASSUME NEW m \in Selection' PROVE Justified(m)'
    <3>1. m \in enabled
      BY <1>9, <2>1, <2>2
    <3>2. Justified(m)
      BY <1>1, <2>1, <3>1 DEF SelectionInv
    <3> QED
      BY <2>1, <3>2 DEF Justified, asked
  <2>3. ASSUME Demanded', NEW m \in (named' \ refused') \ (toggled' \cup {Detect})
        PROVE  m \in Selection' \/ Withheld(m)'
    <3>1. m \in Slug /\ m \in (named \ refused) \ (toggled \cup {Detect}) /\ Demanded
      BY <1>2, <2>1, <2>3 DEF asked
    <3>2. m \in enabled \/ Withheld(m)
      BY <1>1, <2>1, <3>1 DEF SelectionInv
    <3> QED
      BY <1>1, <1>9, <2>1, <3>1, <3>2 DEF Withheld
  <2> QED
    BY <2>2, <2>3 DEF SelectionInv
<1>11. PlanInv'
  BY <1>1, <1>2, <1>5, <1>7, <1>9 DEF PlanInv, Consented, Late
<1>12. ArgsInv' /\ RunInv'
  BY <1>1 DEF ArgsInv, RunInv
<1> QED
  BY <1>8, <1>10, <1>11, <1>12 DEF IInv

(***************************************************************************)
(* The wizard and the preview.                                             *)
(***************************************************************************)
(* The steps that only move on: the plan stays as it is.                   *)
LEMMA MovingStep ==
  ASSUME IInv, pc \in Late, pc' \in Late \cup {"stopped"},
         pc' = "wizard" => pc = "wizard",
         cursor' \in 1..(Len(Registry) + 1),
         UNCHANGED <<args, parsed, tty, hw, detected, plan, presses, backed, gone, asked, toggled>>
  PROVE  IInv'
<1> USE DEF parsed, plan, asked
<1>1. TypeOK'
  BY DEF IInv, TypeOK, Late
<1>2. ArgsInv' /\ RunInv'
  BY DEF ArgsInv, RunInv, Late
<1>3. PlanInv'
  BY DEF IInv, PlanInv, Consented, Late
<1>4. CASE pc' = "stopped"
  BY <1>1, <1>2, <1>3, <1>4 DEF IInv, SelectionInv, Late
<1>5. CASE pc' \in Late
  <2>1. Selection' = Selection /\ Universe' = Universe /\ (Demanded' <=> Demanded)
    BY <1>5 DEF Selection, Universe, Demanded
  <2>2. \A m : (Justified(m)' <=> Justified(m)) /\ (Withheld(m)' <=> Withheld(m))
    BY <1>5, <2>1 DEF Justified, Withheld, Late
  <2>3. SelectionInv'
    BY <1>5, <2>1, <2>2 DEF IInv, SelectionInv
  <2> QED
    BY <1>1, <1>2, <1>3, <2>3 DEF IInv
<1> QED
  BY <1>4, <1>5

LEMMA WizardStep == ASSUME IInv, Wizard PROVE IInv'
<1>1. TypeOK /\ SelectionInv /\ PlanInv /\ pc = "wizard"
  BY DEF IInv, Wizard, Previous, NextScreen, Cycle, Toggle, EndWizard, Press, Key
<1>2. cursor \in 1..(Len(Registry) + 1) /\ Len(Registry) \in Nat
  BY <1>1, Roles DEF TypeOK
<1>3. CASE Previous \/ NextScreen
  <2>1. cursor' \in 1..(Len(Registry) + 1) /\ pc' = pc
    BY <1>2, <1>3 DEF Previous, NextScreen, Key
  <2>2. UNCHANGED <<args, parsed, tty, hw, detected, plan, presses, backed, gone, asked, toggled>>
    BY <1>3 DEF Previous, NextScreen
  <2> QED
    BY <1>1, <2>1, <2>2, MovingStep DEF Late
<1>4. CASE EndWizard
  BY <1>1, <1>2, <1>4, MovingStep DEF EndWizard, Late
<1>5. ASSUME Press
      PROVE  presses' \in 0..MaxToggles /\ Here \in Slug /\ cursor + 1 \in 1..(Len(Registry) + 1)
  <2>1. cursor \in 1..Len(Registry)
    BY <1>2, <1>5 DEF Press, Key
  <2> QED
    BY <1>1, <1>2, <1>5, <2>1, BoundAssumption DEF TypeOK, Press, Here, Slug
<1>6. CASE Cycle
  <2> USE <1>6 DEF Cycle, Press
  <2>1. \A m \in Slug : decision'[m] \in Decision
    BY <1>1, <1>5 DEF TypeOK, Decision
  <2>2. TypeOK'
    BY <1>1, <1>5, <2>1 DEF TypeOK, parsed, asked
  <2>3. PlanInv'
    BY <1>1 DEF PlanInv, Consented, Late, parsed
  <2>4. Selection' = Selection /\ Universe' = Universe /\ (Demanded' <=> Demanded)
    BY <1>1 DEF Selection, Universe, Demanded, parsed, asked
  <2>5. \A m : (Justified(m)' <=> Justified(m)) /\ (Withheld(m)' <=> Withheld(m))
    BY <1>1, <2>4 DEF Justified, Withheld, parsed, asked
  <2>6. SelectionInv'
    BY <1>1, <2>4, <2>5 DEF SelectionInv, parsed, asked
  <2> QED
    BY <1>1, <2>2, <2>3, <2>6 DEF IInv, ArgsInv, RunInv
<1>7. CASE Toggle
  <2> USE <1>7 DEF Toggle, Press
  <2>1. action \in [Slug -> Action] /\ Here \in Slug /\ toggled \subseteq Slug
    BY <1>1, <1>5 DEF TypeOK
  <2>2. \A m \in Slug : action'[m] = IF m # Here THEN action[m]
                                     ELSE IF action[m] = "run" THEN "skip" ELSE "run"
    BY <2>1
  <2>3. action' \in [Slug -> Action]
    BY <2>1 DEF Action
  <2>4. TypeOK'
    BY <1>1, <1>5, <2>1, <2>3 DEF TypeOK, parsed, asked
  <2>5. PlanInv'
    BY <1>1, <2>1, <2>2 DEF PlanInv, Consented, Late, parsed
  <2>6. Universe' = Universe /\ (Demanded' <=> Demanded)
    BY DEF Universe, Demanded, parsed, asked
  <2>7. /\ Selection = {m \in Slug : action[m] # "skip"}
        /\ Selection' = {m \in Slug : action'[m] # "skip"}
    BY <1>1 DEF Selection, Late
  <2>8. ASSUME NEW m \in Selection' PROVE Justified(m)'
    <3>1. m \in Slug /\ (m = Here \/ m \in Selection)
      BY <2>2, <2>7, <2>8
    <3>2. m # Here => Justified(m)
      BY <1>1, <3>1 DEF SelectionInv, Late
    <3> QED
      BY <2>6, <3>1, <3>2 DEF Justified, parsed, asked
  <2>9. ASSUME Demanded', NEW m \in (named' \ refused') \ (toggled' \cup {Detect})
        PROVE  m \in Selection' \/ Withheld(m)'
    <3>1. m \in (named \ refused) \ (toggled \cup {Detect}) /\ m # Here /\ Demanded
      BY <2>6, <2>9 DEF asked
    <3>2. m \in Selection \/ Withheld(m)
      BY <1>1, <3>1 DEF SelectionInv, Late
    <3>3. m \in Selection => m \in Selection'
      BY <2>2, <2>7, <3>1
    <3> QED
      BY <1>1, <3>2, <3>3 DEF Withheld, parsed
  <2>10. SelectionInv'
    BY <2>8, <2>9 DEF SelectionInv
  <2> QED
    BY <1>1, <2>4, <2>5, <2>10 DEF IInv, ArgsInv, RunInv
<1> QED
  BY <1>3, <1>4, <1>6, <1>7 DEF Wizard

LEMMA PreviewStep == ASSUME IInv, Preview PROVE IInv'
<1>1. /\ pc = "preview" /\ pc' \in {"resolve", "stopped"} /\ cursor' = cursor
      /\ UNCHANGED <<args, parsed, tty, hw, detected, plan, presses, backed, gone, asked, toggled>>
  BY DEF Preview
<1>2. cursor' \in 1..(Len(Registry) + 1)
  BY <1>1 DEF IInv, TypeOK
<1> QED
  BY <1>1, <1>2, MovingStep DEF Late

(***************************************************************************)
(* Resolving the conflicts: the plan becomes the selection.                *)
(***************************************************************************)
LEMMA ResolveStep ==
  ASSUME IInv, NEW missing \in SUBSET Sentinel, NEW copied \in SUBSET Sentinel,
         Resolve(missing, copied)
  PROVE  IInv'
<1> USE DEF Resolve
<1>1. TypeOK /\ SelectionInv /\ PlanInv /\ pc = "resolve" /\ pc' = "run"
  BY DEF IInv
<1>2. \A m \in Slug :
         action'[m] = IF GivenUp(m, missing, copied) THEN "skip" ELSE action[m]
  OBVIOUS
<1>3. action' \in [Slug -> Action] /\ action \in [Slug -> Action] /\ named \subseteq Slug
      /\ status \in [Slug -> Status]
  BY <1>1 DEF TypeOK, Action
<1>4. backed' \subseteq Sentinel /\ gone' \subseteq Sentinel /\ enabled' \subseteq Slug
  OBVIOUS
<1>5. TypeOK'
  BY <1>1, <1>3, <1>4 DEF TypeOK, asked
<1>6. /\ Selection = {m \in Slug : action[m] # "skip"} /\ Selection' = enabled'
      /\ Universe' = Universe /\ (Demanded' <=> Demanded)
  BY <1>1 DEF Selection, Late, Universe, Demanded, asked
<1>7. \A m \in enabled' :
         m \in Selection /\ ~GivenUp(m, missing, copied) /\ action'[m] = action[m]
  BY <1>2, <1>6
<1>8. SelectionInv'
  <2>1. ASSUME NEW m \in Selection' PROVE Justified(m)'
    <3>1. Justified(m)
      BY <1>1, <1>6, <1>7 DEF SelectionInv, Late
    <3> QED
      BY <1>6, <3>1 DEF Justified, asked
  <2>2. ASSUME Demanded', NEW m \in (named' \ refused') \ (toggled' \cup {Detect})
        PROVE  m \in Selection' \/ Withheld(m)'
    <3>1. m \in (named \ refused) \ (toggled \cup {Detect}) /\ Demanded /\ m \in Slug
      BY <1>3, <1>6, <2>2 DEF asked
    <3>2. m \in Selection \/ Withheld(m)
      BY <1>1, <3>1 DEF SelectionInv, Late
    <3>3. m \in Selection /\ m \notin Selection' => status[m] = "conflict"
      <4>1. ASSUME action[m] = "conflict" PROVE status[m] = "conflict"
        BY <1>1, <3>1, <4>1 DEF PlanInv, Late
      <4> QED
        BY <1>2, <1>6, <3>1, <4>1 DEF GivenUp, NeedsCopy, InConflict
    <3> QED
      BY <1>1, <3>2, <3>3 DEF Withheld
  <2> QED
    BY <2>1, <2>2 DEF SelectionInv
<1>9. \A m \in Slug : status[m] = "conflict" => m \in Sentinel /\ action[m] # "run"
  BY <1>1 DEF PlanInv, Late
<1>10. PlanInv'
  BY <1>1, <1>2 DEF PlanInv, Consented, Late
<1>11. RunInv'
  <2> SUFFICES ASSUME NEW m \in enabled', status[m] = "conflict"
               PROVE  /\ decision[m] # "keep"
                      /\ decision[m] = "backup" => m \in backed' \cup gone' \/ dry
    BY <1>1 DEF RunInv
  <2>1. InConflict(m)
    BY <1>3, <1>6, <1>7, <1>9 DEF InConflict, Action
  <2> QED
    BY <1>7, <2>1 DEF GivenUp, NeedsCopy
<1> QED
  BY <1>1, <1>5, <1>8, <1>10, <1>11 DEF IInv, ArgsInv

-----------------------------------------------------------------------------
LEMMA Step == ASSUME IInv, [Next]_vars PROVE IInv'
<1>1. CASE Arguments
  BY <1>1, ArgumentsStep
<1>2. ASSUME NEW found \in SUBSET Hardware, RunDetect(found) PROVE IInv'
  BY <1>2, DetectStep
<1>3. CASE MakePlan
  BY <1>3, PlanStep
<1>4. CASE Wizard
  BY <1>4, WizardStep
<1>5. CASE Preview
  BY <1>5, PreviewStep
<1>6. ASSUME NEW missing \in SUBSET Sentinel, NEW copied \in SUBSET Sentinel,
             Resolve(missing, copied)
      PROVE  IInv'
  BY <1>6, ResolveStep
<1>7. CASE UNCHANGED vars
  <2> USE <1>7 DEF vars, parsed, plan, asked
  <2>1. TypeOK'
    BY DEF IInv, TypeOK
  <2>2. ArgsInv' /\ PlanInv' /\ RunInv'
    BY DEF IInv, ArgsInv, PlanInv, RunInv, Universe, Consented, Late
  <2>3. SelectionInv'
    BY DEF IInv, SelectionInv, Selection, Justified, Withheld, Universe, Demanded, Late
  <2> QED
    BY <2>1, <2>2, <2>3 DEF IInv
<1> QED
  BY <1>1, <1>2, <1>3, <1>4, <1>5, <1>6, <1>7 DEF Next, Over

THEOREM Inductive == Spec => []IInv
BY InitInv, Step, PTL DEF Spec

(* The selection, the plan and the history keep their types.               *)
THEOREM TypeCorrect == Spec => []TypeOK
<1>1. IInv => TypeOK
  BY DEF IInv
<1> QED
  BY <1>1, Inductive, PTL

(* A module last refused is not executed, in whatever order the arguments  *)
(* came, unless the user or detect turns it on again.                      *)
THEOREM Refusals == Spec => []RefusalsHold
<1>1. IInv => RefusalsHold
  BY DEF IInv, SelectionInv, Selection, Justified, RefusalsHold, Late
<1> QED
  BY <1>1, Inductive, PTL

(* An explicit selection executes nothing that was not asked for.          *)
THEOREM Unasked == Spec => []NothingUnasked
<1>1. IInv => NothingUnasked
  BY DEF IInv, SelectionInv, Selection, Justified, Universe, NothingUnasked, Late
<1> QED
  BY <1>1, Inductive, PTL

(* What was asked for is executed, or there is one of five reasons.        *)
THEOREM Demand == Spec => []DemandIsMet
<1>1. IInv => DemandIsMet
  BY DEF IInv, SelectionInv, Selection, Withheld, DemandIsMet, Late
<1> QED
  BY <1>1, Inductive, PTL

(* detect keeps modules for missing hardware out of every selection.       *)
THEOREM HardwareThere == Spec => []HardwareIsThere
<1>1. IInv => HardwareIsThere
  BY DEF IInv, SelectionInv, Selection, Justified, HardwareIsThere, Late
<1> QED
  BY <1>1, Inductive, PTL

(* A blocked module is never executed.                                     *)
THEOREM BlockedNever == Spec => []BlockedNeverRuns
<1>1. IInv => BlockedNeverRuns
  BY DEF IInv, PlanInv, RunInv, BlockedNeverRuns
<1> QED
  BY <1>1, Inductive, PTL

(* Changes of the user are overwritten by consent only, and backed up if   *)
(* that was the decision.                                                  *)
THEOREM Consent == Spec => []OverwriteHasConsent
<1>1. IInv => OverwriteHasConsent
  BY DEF IInv, PlanInv, RunInv, OverwriteHasConsent, Consented
<1> QED
  BY <1>1, Inductive, PTL
=============================================================================
