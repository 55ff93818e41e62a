------------------------- MODULE RenderDeployProofs -------------------------
(***************************************************************************)
(* RenderDeploy, for any themes, files, faults and bounds: what the backup *)
(* step, the drift check and the record of the theme are for.  The first   *)
(* invariant says, at every point of a run, which live files are accounted *)
(* for; two action properties are read off it at the one step that         *)
(* replaces a live file.  The second says how much of the theme of the run *)
(* is rendered and live so far, for the record of it; the third what two   *)
(* quiet runs in a row leave behind.                                       *)
(***************************************************************************)
EXTENDS RenderDeploy, TLAPS

USE ThemeAssumption, FileAssumption

-----------------------------------------------------------------------------
(* Before symlinks nothing is backed up, before render nothing rendered,   *)
(* and the sentinel is deployed by symlinks only, once per run.  A file    *)
(* whose backup broke off in symlinks is not replaced there any more.      *)
Phases ==
    /\ pc \in {"idle", "render", "rendering", "symlinks"} => snap = {}
    /\ pc \in {"idle", "render"} => ~renderRan
    /\ pc \notin Deploying => cur = NoFile
    /\ pc = "specials_files" => Sentinel \notin todo
    /\ Sentinel \in todo => Sentinel \notin snap
    /\ pc # "specials_files" => \A f \in torn : f \notin todo /\ f # cur

(* A file about to be replaced, or backed up in full earlier in this run,  *)
(* is in a backup, or holds what this run put there.                       *)
Accounted(f) ==
    live[f] # Absent => live[f] \in saved \/ (f \in TFile /\ live[f] = rendered[f])

BackedUp ==
    /\ cur \in File \ (racing \cup torn) => Accounted(cur)
    /\ \A f \in (snap \cap TFile) \ (racing \cup torn) : Accounted(f)

(* After the drift check of an unattended run no template file it vouches  *)
(* for holds the user's edits.                                             *)
Vouched ==
    renderRan /\ ~run.force /\ ~run.asks => \A f \in TFile \ unguarded : live[f] \notin Mine

IInv == TypeOK /\ Phases /\ BackedUp /\ Vouched

-----------------------------------------------------------------------------
LEMMA Contents ==
    /\ Mine \cap (Rendered \cup Shared \cup {Absent}) = {}
    /\ Absent \notin Rendered \cup Shared \cup Mine
    /\ Rendered \cap Shared = {}
<1>1. /\ "user" \notin Theme /\ "shared" \notin Theme /\ "none" \notin Theme
  BY KindAssumption
<1>2. /\ \A c \in Mine : c[1] = "user"
      /\ \A c \in Shared : c[1] = "shared"
      /\ \A c \in Rendered : c[1] \in Theme
      /\ Absent[1] = "none"
  BY DEF Mine, Shared, Rendered, Absent
<1> QED
  BY <1>1, <1>2

LEMMA InitIInv == Init => IInv
<1> SUFFICES ASSUME Init PROVE IInv
  OBVIOUS
<1>1. WorldOK
  <2>1. \A f \in File : live[f] \in Mine \cup {Absent}
    BY DEF Init, Mine
  <2>2. /\ live \in [File -> Rendered \cup Shared \cup Mine \cup {Absent}]
        /\ \A f \in TFile : live[f] \notin Shared
        /\ live[Sentinel] \notin Rendered
    BY <2>1, Contents DEF Init, File
  <2> QED
    BY <2>2 DEF Init, WorldOK
<1>2. RunOK
  <2>1. run \in [theme : Theme \cup {NoTheme}, force : BOOLEAN, asks : BOOLEAN, render : Fate,
                 sel : SUBSET Module]
    BY DEF Init, NoRun, Fate
  <2> QED
    <3>1. /\ pc = "idle" /\ memEntry = Untracked
          /\ renderRan = FALSE /\ renderOk = FALSE /\ deployFailed = FALSE /\ missed = FALSE
          /\ todo = {} /\ cur = NoFile /\ snap = {}
          /\ runs = 0 /\ edits = 0 /\ racing = {} /\ torn = {} /\ unguarded = {} /\ calm = 0
      BY DEF Init
    <3>2. /\ pc \in Module \cup Deploying \cup {"idle", "rendering", "recording", "closing"}
          /\ memEntry \in Shared \cup Mine \cup {Untracked, NoHash}
          /\ todo \subseteq File /\ cur \in File \cup {NoFile} /\ snap \subseteq File
          /\ racing \subseteq File /\ torn \subseteq snap /\ unguarded \subseteq TFile
      BY <3>1
    <3>3. /\ renderRan \in BOOLEAN /\ renderOk \in BOOLEAN
          /\ deployFailed \in BOOLEAN /\ missed \in BOOLEAN
      BY <3>1
    <3>4. runs \in Nat /\ edits \in Nat /\ calm \in 0..3
      BY <3>1
    <3> QED
      BY <2>1, <3>1, <3>2, <3>3, <3>4, Zenon DEF RunOK
<1>3. Phases /\ BackedUp /\ Vouched
  BY DEF Init, Phases, BackedUp, Vouched, Deploying, File
<1> QED
  BY <1>1, <1>2, <1>3 DEF IInv, TypeOK

-----------------------------------------------------------------------------
LEMMA WorldStays == WorldOK /\ UNCHANGED world => WorldOK'
  BY DEF WorldOK, world

(* A replacement of the file at hand, or an edit, keeps live in its type.  *)
LEMMA LiveType ==
    ASSUME WorldOK, NEW f \in File, NEW new, live' = [live EXCEPT ![f] = new],
           UNCHANGED <<rev, rendered, stamp, saved, entry, active>>,
           \/ new \in Mine \cup {Absent}
           \/ f \in TFile /\ new \in Rendered
           \/ f = Sentinel /\ new \in Shared
    PROVE  WorldOK'
<1>1. /\ live' \in [File -> Rendered \cup Shared \cup Mine \cup {Absent}]
      /\ \A g \in TFile : live'[g] \notin Shared
      /\ live'[Sentinel] \notin Rendered
  BY Contents DEF WorldOK, File
<1> QED
  BY <1>1 DEF WorldOK

LEMMA EndRunType ==
    ASSUME TypeOK, NEW quiet \in 0..3, EndRun(quiet), entry' \in {entry, memEntry}
    PROVE  TypeOK'
<1>1. WorldOK'
  BY DEF TypeOK, WorldOK, RunOK, EndRun
<1>2. RunOK'
  BY DEF TypeOK, RunOK, EndRun, NoRun, Fate
<1> QED
  BY <1>1, <1>2 DEF TypeOK

LEMMA PlanType == ASSUME TypeOK, Plan PROVE TypeOK'
<1>1. PICK requested \in Theme \cup {NoTheme}, mode \in Mode, asks \in BOOLEAN,
           enabled \in BOOLEAN, others \in Offered, fate \in Fate \cup {"backup"}, then \in Fate :
         /\ mode = "full" => ~asks
         /\ fate \in RenderFate(CheckRender(ChooseTheme(requested)), enabled, mode, asks)
         /\ then \in AfterBackup(fate)
         /\ saved' = saved \cup {live[f] : f \in {g \in {Sentinel} :
                                fate = "backup" /\ then = "run" /\ live[g] # Absent}}
         /\ run' = [theme |-> ChooseTheme(requested), force |-> mode \in {"reapply", "full"},
                    asks |-> asks, render |-> then,
                    sel |-> others \cup {m \in {"render"} : then = "run"}]
  BY Zenon DEF Plan
<1>2. ChooseTheme(requested) \in Theme
  BY DEF ChooseTheme
<1>3. others \cup {m \in {"render"} : then = "run"} \in SUBSET Module
  BY OfferAssumption DEF Module
<1>4. (mode \in {"reapply", "full"}) \in BOOLEAN
  OBVIOUS
<1>5. /\ run' \in [theme : Theme \cup {NoTheme}, force : BOOLEAN, asks : BOOLEAN, render : Fate,
                   sel : SUBSET Module]
      /\ run'.theme \in Theme
  BY <1>1, <1>2, <1>3, <1>4
<1>6. saved' \subseteq Rendered \cup Shared \cup Mine
  BY <1>1 DEF TypeOK, WorldOK, File
<1>7. WorldOK'
  BY <1>6 DEF Plan, TypeOK, WorldOK
<1>8. RunOK'
  <2>1. /\ memEntry' \in Shared \cup Mine \cup {Untracked, NoHash}
        /\ runs' \in Nat /\ calm' \in 0..3
        /\ pc' \in Module \cup Deploying \cup {"idle", "rendering", "recording", "closing"}
    BY DEF Plan, TypeOK, WorldOK, RunOK, Module
  <2> QED
    BY <1>5, <2>1 DEF Plan, TypeOK, RunOK, work
<1> QED
  BY <1>7, <1>8 DEF TypeOK

LEMMA StepType == TypeOK /\ [Next]_vars => TypeOK'
<1> SUFFICES ASSUME TypeOK, [Next]_vars PROVE TypeOK'
  OBVIOUS
<1> USE DEF flags, work, history
<1>0. WorldOK /\ RunOK
  BY DEF TypeOK
<1>1. CASE Plan
  BY <1>1, PlanType
<1>2. CASE Pass
  <2>1. WorldOK'
    BY <1>0, <1>2, WorldStays DEF Pass
  <2>2. RunOK'
    BY <1>0, <1>2 DEF Pass, RunOK, After, Module
  <2> QED
    BY <2>1, <2>2 DEF TypeOK
<1>3. CASE DriftStop \/ Kill
  BY <1>3, EndRunType DEF DriftStop, Kill
<1>4. CASE BeginRender
  <2>1. WorldOK'
    BY <1>0, <1>4, WorldStays DEF BeginRender
  <2>2. RunOK'
    BY <1>0, <1>4 DEF BeginRender, AtRender, RunOK, File, Module
  <2> QED
    BY <2>1, <2>2 DEF TypeOK
<1>5. ASSUME NEW f \in File, RenderFile(f) PROVE TypeOK'
  <2>1. Inputs(run.theme) \in Rendered
    BY <1>0, <1>5 DEF RenderFile, WorldOK, RunOK, Inputs, Rendered
  <2>2. rendered' \in [TFile -> Rendered \cup {Absent}]
    BY <1>0, <1>5, <2>1 DEF RenderFile, WorldOK
  <2>3. WorldOK'
    BY <1>0, <1>5, <2>2 DEF RenderFile, WorldOK
  <2>4. RunOK'
    BY <1>0, <1>5 DEF RenderFile, RunOK
  <2> QED
    BY <2>3, <2>4 DEF TypeOK
<1>6. CASE RenderFailed
  <2>1. WorldOK'
    BY <1>0, <1>6, WorldStays DEF RenderFailed
  <2>2. RunOK'
    BY <1>0, <1>6 DEF RenderFailed, RunOK, Module
  <2> QED
    BY <2>1, <2>2 DEF TypeOK
<1>7. CASE RenderSucceeded
  <2>1. Inputs(run.theme) \in Rendered
    BY <1>0, <1>7 DEF RenderSucceeded, WorldOK, RunOK, Inputs, Rendered
  <2>2. SentinelHash \in Shared \cup Mine \cup {Untracked, NoHash}
    BY <1>0 DEF SentinelHash, WorldOK, File
  <2>3. WorldOK'
    BY <1>0, <1>7, <2>1 DEF RenderSucceeded, WorldOK
  <2>4. RunOK'
    BY <1>0, <1>7, <2>2 DEF RenderSucceeded, RunOK, Module
  <2> QED
    BY <2>3, <2>4 DEF TypeOK
<1>8. CASE RefuseDeploy \/ BeginDeploy \/ EndDeploy
  <2>1. WorldOK'
    BY <1>0, <1>8, WorldStays DEF RefuseDeploy, BeginDeploy, EndDeploy
  <2>2. CASE RefuseDeploy
    BY <1>0, <2>1, <2>2 DEF RefuseDeploy, RunOK, After, Module, TypeOK
  <2>3. CASE BeginDeploy
    BY <1>0, <2>1, <2>3 DEF BeginDeploy, RunOK, Deploying, File, TypeOK
  <2>4. CASE EndDeploy
    BY <1>0, <2>1, <2>4 DEF EndDeploy, RunOK, Module, Deploying, TypeOK
  <2> QED
    BY <1>8, <2>2, <2>3, <2>4
<1>9. ASSUME NEW f \in File, SkipMissing(f) \/ SnapshotFailed(f) PROVE TypeOK'
  <2>1. WorldOK'
    BY <1>0, <1>9, WorldStays DEF SkipMissing, SnapshotFailed
  <2>2. RunOK'
    BY <1>0, <1>9 DEF SkipMissing, SnapshotFailed, NextFile, RunOK
  <2> QED
    BY <2>1, <2>2 DEF TypeOK
<1>10. ASSUME NEW f \in File, Snapshot(f) PROVE TypeOK'
  <2>1. saved' \subseteq Rendered \cup Shared \cup Mine
    BY <1>0, <1>10 DEF Snapshot, WorldOK
  <2>2. WorldOK'
    BY <1>0, <1>10, <2>1 DEF Snapshot, WorldOK
  <2>3. RunOK'
    BY <1>0, <1>10 DEF Snapshot, NextFile, RunOK
  <2> QED
    BY <2>2, <2>3 DEF TypeOK
<1>11. CASE Replace
  <2>1. /\ cur \in File
        /\ cur \in TFile => Source(cur) \in Rendered \cup {Absent}
        /\ cur = Sentinel => Source(cur) \in Shared
    BY <1>0, <1>11 DEF Replace, WorldOK, RunOK, Source, Shared, File
  <2>2. ASSUME live' = [live EXCEPT ![cur] = Source(cur)] PROVE WorldOK'
    <3> DEFINE new == Source(cur)
    <3>1. \/ new \in Mine \cup {Absent}
          \/ cur \in TFile /\ new \in Rendered
          \/ cur = Sentinel /\ new \in Shared
      BY <2>1 DEF File
    <3>2. live' = [live EXCEPT ![cur] = new]
      BY <2>2
    <3>3. UNCHANGED <<rev, rendered, stamp, saved, entry, active>>
      BY <1>11 DEF Replace
    <3> HIDE DEF new
    <3> QED
      BY <1>0, <2>1, <3>1, <3>2, <3>3, LiveType
  <2>3. ASSUME UNCHANGED live PROVE WorldOK'
    BY <1>0, <1>11, <2>3, WorldStays DEF Replace, world
  <2>4. RunOK'
    BY <1>0, <1>11 DEF Replace, RunOK
  <2> QED
    BY <1>11, <2>2, <2>3, <2>4 DEF Replace, TypeOK
<1>12. CASE BeginRecord \/ Record
  <2>1. WorldOK'
    BY <1>0, <1>12 DEF BeginRecord, Record, WorldOK, RunOK
  <2>2. RunOK'
    BY <1>0, <1>12 DEF BeginRecord, Record, RunOK
  <2> QED
    BY <2>1, <2>2 DEF TypeOK
<1>13. CASE Finish
  <2>1. PICK quiet \in 0..3 : EndRun(quiet) /\ entry' \in {entry, memEntry}
    BY <1>0, <1>13 DEF Finish, RunOK
  <2> QED
    BY <2>1, EndRunType
<1>14. CASE Pull
  <2>1. WorldOK'
    BY <1>0, <1>14 DEF Pull, WorldOK
  <2>2. RunOK'
    BY <1>0, <1>14 DEF Pull, RunOK
  <2> QED
    BY <2>1, <2>2 DEF TypeOK
<1>15. ASSUME NEW f \in File, EditLive(f) PROVE TypeOK'
  <2>1. PICK new \in {<<"user", edits + 1>>, Absent} : live' = [live EXCEPT ![f] = new]
    BY <1>15 DEF EditLive
  <2>2. new \in Mine \cup {Absent}
    BY <1>0, <2>1 DEF Mine, RunOK
  <2>3. WorldOK'
    BY <1>0, <1>15, <2>1, <2>2, LiveType DEF EditLive
  <2>4. RunOK'
    BY <1>0, <1>15 DEF EditLive, RunOK, File
  <2> QED
    BY <2>3, <2>4 DEF TypeOK
<1>16. CASE UNCHANGED vars
  BY <1>0, <1>16, WorldStays DEF vars, world, RunOK, TypeOK
<1> QED
  BY <1>1, <1>2, <1>3, <1>4, <1>5, <1>6, <1>7, <1>8, <1>9, <1>10, <1>11, <1>12, <1>13, <1>14,
     <1>15, <1>16 DEF Next, Installer, Environment, Rest

-----------------------------------------------------------------------------
(* Every way a run ends leaves nothing at hand and nothing backed up.      *)
LEMMA EndRunSafe ==
    ASSUME NEW quiet, EndRun(quiet) PROVE Phases' /\ BackedUp' /\ Vouched'
  BY DEF EndRun, Phases, BackedUp, Vouched, Deploying, File

LEMMA StepPhases == TypeOK /\ Phases /\ [Next]_vars => Phases'
<1> SUFFICES ASSUME TypeOK, Phases, [Next]_vars PROVE Phases'
  OBVIOUS
<1> USE DEF Phases, Deploying, flags, work, history
<1>0. torn \subseteq snap /\ snap \subseteq File /\ NoFile \notin File
  BY DEF TypeOK, RunOK, File
<1>1. CASE Plan \/ Pull \/ BeginRender \/ RenderFailed \/ RenderSucceeded
  BY <1>0, <1>1 DEF Plan, Pull, BeginRender, AtRender, RenderFailed, RenderSucceeded
<1>2. CASE Pass \/ RefuseDeploy \/ EndDeploy \/ BeginRecord \/ Record
  BY <1>0, <1>2 DEF Pass, RefuseDeploy, EndDeploy, BeginRecord, Record, After, Module
<1>3. CASE DriftStop \/ Kill \/ Finish
  BY <1>3, EndRunSafe DEF DriftStop, Kill, Finish
<1>4. CASE BeginDeploy
  BY <1>0, <1>4 DEF BeginDeploy
<1>5. ASSUME NEW f \in File, RenderFile(f) \/ EditLive(f) PROVE Phases'
  BY <1>5 DEF RenderFile, EditLive
<1>6. ASSUME NEW f \in File, SkipMissing(f) \/ Snapshot(f) \/ SnapshotFailed(f) PROVE Phases'
  BY <1>6 DEF SkipMissing, Snapshot, SnapshotFailed, NextFile, File
<1>7. CASE Replace
  BY <1>0, <1>7 DEF Replace
<1>8. CASE UNCHANGED vars
  BY <1>8 DEF vars
<1> QED
  BY <1>1, <1>2, <1>3, <1>4, <1>5, <1>6, <1>7, <1>8 DEF Next, Installer, Environment, Rest

LEMMA StepBackedUp == TypeOK /\ Phases /\ BackedUp /\ [Next]_vars => BackedUp'
<1> SUFFICES ASSUME TypeOK, Phases, BackedUp, [Next]_vars PROVE BackedUp'
  OBVIOUS
<1> USE DEF flags, work, history, world
<1>0. WorldOK /\ RunOK
  BY DEF TypeOK
<1>1. ASSUME UNCHANGED <<live, saved, rendered, cur, snap, racing, torn>> PROVE BackedUp'
  BY <1>1 DEF BackedUp, Accounted
<1>2. CASE Pass \/ BeginRender \/ RenderFailed \/ RenderSucceeded \/ RefuseDeploy \/ BeginDeploy
  BY <1>1, <1>2 DEF Pass, BeginRender, RenderFailed, RenderSucceeded, RefuseDeploy, BeginDeploy
<1>3. CASE EndDeploy \/ BeginRecord \/ Record \/ Pull \/ UNCHANGED vars
  BY <1>1, <1>3 DEF EndDeploy, BeginRecord, Record, Pull, vars
<1>4. ASSUME NEW f \in File, SkipMissing(f) \/ SnapshotFailed(f) PROVE BackedUp'
  <2>1. CASE UNCHANGED <<snap, torn>>
    BY <1>1, <1>4, <2>1 DEF SkipMissing, SnapshotFailed
  <2>2. CASE snap' = snap \cup {f} /\ torn' = torn \cup {f} /\ SnapshotFailed(f)
    BY <2>2 DEF SnapshotFailed, BackedUp, Accounted
  <2> QED
    BY <1>4, <2>1, <2>2 DEF SkipMissing, SnapshotFailed
<1>5. CASE Plan
  BY <1>5 DEF Plan, Phases, BackedUp, Deploying, File
<1>6. CASE DriftStop \/ Kill \/ Finish
  BY <1>6, EndRunSafe DEF DriftStop, Kill, Finish
<1>7. ASSUME NEW f \in File, RenderFile(f) PROVE BackedUp'
  BY <1>7 DEF RenderFile, Phases, BackedUp, Deploying, File
<1>8. ASSUME NEW f \in File, Snapshot(f) PROVE BackedUp'
  <2>1. f \in snap => f \in TFile
    BY <1>8 DEF Snapshot, NextFile, Phases, File
  <2>2. live' = live /\ rendered' = rendered /\ cur' = f /\ saved \subseteq saved'
    BY <1>8 DEF Snapshot
  <2>3. \A g \in File : Accounted(g) => Accounted(g)'
    BY <2>2 DEF Accounted
  <2>4. f \notin racing' \cup torn => Accounted(f)'
    <3>1. CASE f \in snap
      BY <1>8, <2>1, <2>3, <3>1 DEF Snapshot, BackedUp
    <3>2. CASE f \notin snap
      BY <1>8, <3>2 DEF Snapshot, Accounted
    <3> QED
      BY <3>1, <3>2
  <2>5. \A g \in (snap' \cap TFile) \ (racing' \cup torn) : g = f \/ g \in (snap \cap TFile) \ (racing \cup torn)
    BY <1>8 DEF Snapshot
  <2>6. \A g \in (snap' \cap TFile) \ (racing' \cup torn) : Accounted(g)'
    BY <2>3, <2>4, <2>5 DEF BackedUp, File
  <2>7. torn' = torn
    BY <1>8 DEF Snapshot
  <2> QED
    BY <2>2, <2>4, <2>6, <2>7 DEF BackedUp
<1>9. CASE Replace
  <2>1. cur' = NoFile /\ UNCHANGED <<saved, rendered, snap, racing, torn>>
    BY <1>9 DEF Replace
  <2>2. \A g \in (snap \cap TFile) \ (racing \cup torn) : Accounted(g)'
    BY <1>0, <1>9, <2>1 DEF Replace, BackedUp, Accounted, Source, WorldOK, RunOK, File
  <2> QED
    BY <2>1, <2>2 DEF BackedUp, File
<1>10. ASSUME NEW f \in File, EditLive(f) PROVE BackedUp'
  <2>1. /\ \A g \in File \ {f} : live'[g] = live[g]
        /\ racing' = racing \cup {f}
        /\ UNCHANGED <<saved, rendered, cur, snap, torn>>
    BY <1>0, <1>10 DEF EditLive, WorldOK
  <2> QED
    BY <2>1 DEF BackedUp, Accounted, File
<1> QED
  BY <1>2, <1>3, <1>4, <1>5, <1>6, <1>7, <1>8, <1>9, <1>10 DEF Next, Installer, Environment, Rest

LEMMA StepVouched == TypeOK /\ Phases /\ Vouched /\ [Next]_vars => Vouched'
<1> SUFFICES ASSUME TypeOK, Phases, Vouched, [Next]_vars PROVE Vouched'
  OBVIOUS
<1> USE DEF flags, work, history, world
<1>0. WorldOK /\ RunOK
  BY DEF TypeOK
<1>1. ASSUME UNCHANGED <<live, renderRan, run, unguarded>> PROVE Vouched'
  BY <1>1 DEF Vouched
<1>2. CASE Pass \/ RenderFailed \/ RenderSucceeded \/ RefuseDeploy \/ BeginDeploy \/ EndDeploy
  BY <1>1, <1>2 DEF Pass, RenderFailed, RenderSucceeded, RefuseDeploy, BeginDeploy, EndDeploy
<1>3. CASE BeginRecord \/ Record \/ Pull \/ UNCHANGED vars
  BY <1>1, <1>3 DEF BeginRecord, Record, Pull, vars
<1>4. ASSUME NEW f \in File, RenderFile(f) \/ SkipMissing(f) \/ Snapshot(f) \/ SnapshotFailed(f)
      PROVE  Vouched'
  BY <1>1, <1>4 DEF RenderFile, SkipMissing, Snapshot, SnapshotFailed
<1>5. CASE DriftStop \/ Kill \/ Finish
  BY <1>5, EndRunSafe DEF DriftStop, Kill, Finish
<1>6. CASE Plan
  BY <1>6 DEF Plan, Phases, Vouched
<1>7. CASE BeginRender
  <2>1. ASSUME Drifted = {}, NEW f \in TFile, live[f] \in Mine PROVE rendered[f] = Absent
    BY <1>0, <2>1, Contents DEF Drifted, WorldOK
  <2> QED
    BY <1>7, <2>1 DEF BeginRender, AtRender, Vouched
<1>8. CASE Replace
  <2>1. \A f \in TFile : live'[f] = live[f] \/ live'[f] \in Rendered \cup {Absent}
    BY <1>0, <1>8 DEF Replace, Source, WorldOK, RunOK, File
  <2> QED
    BY <1>8, <2>1, Contents DEF Replace, Vouched
<1>9. ASSUME NEW f \in File, EditLive(f) PROVE Vouched'
  <2>1. \A g \in TFile \ unguarded' : live'[g] = live[g] /\ g \notin unguarded
    BY <1>0, <1>9 DEF EditLive, WorldOK, File
  <2> QED
    BY <1>9, <2>1 DEF EditLive, Vouched
<1> QED
  BY <1>2, <1>3, <1>4, <1>5, <1>6, <1>7, <1>8, <1>9 DEF Next, Installer, Environment, Rest

-----------------------------------------------------------------------------
(* In every reachable state of every instance the invariant holds.         *)
THEOREM Inductive == Spec => []IInv
<1>1. Init => IInv
  BY InitIInv
<1>2. IInv /\ [Next]_vars => IInv'
  BY StepType, StepPhases, StepBackedUp, StepVouched DEF IInv
<1> QED
  BY <1>1, <1>2, PTL DEF Spec

(* Contents stay what they are: template files come from rendered/ or the  *)
(* user, the sentinel from shared/ or the user, and the manifest records   *)
(* only contents the sentinel can have.                                    *)
THEOREM TypeCorrect == Spec => []TypeOK
  BY Inductive, PTL DEF IInv

(* The one step that replaces a live file.                                 *)
LEMMA OnlyReplaceOverwrites ==
    ASSUME TypeOK, Phases, Next, NEW f \in File, Overwrites(f)
    PROVE  Replace /\ live'[f] = Source(f)
<1>0. f # NoFile /\ WorldOK /\ RunOK
  BY DEF File, TypeOK
<1>1. ~(DriftStop \/ Kill \/ Finish)
  BY DEF Overwrites, DriftStop, Kill, Finish, EndRun
<1>2. ~(\E g \in File : RenderFile(g) \/ SkipMissing(g) \/ Snapshot(g) \/ SnapshotFailed(g) \/ EditLive(g))
  BY <1>0 DEF Overwrites, RenderFile, SkipMissing, Snapshot, SnapshotFailed, EditLive, NextFile, work
<1>3. ~(Plan \/ Pass \/ BeginRender \/ RenderFailed \/ RenderSucceeded \/ RefuseDeploy)
  BY DEF Overwrites, Plan, Pass, BeginRender, RenderFailed, RenderSucceeded, RefuseDeploy, work
<1>4. ~(BeginDeploy \/ EndDeploy \/ BeginRecord \/ Record \/ Pull \/ Rest)
  BY DEF Overwrites, BeginDeploy, EndDeploy, BeginRecord, Record, Pull, Rest, vars, work
<1>5. Replace
  BY <1>1, <1>2, <1>3, <1>4 DEF Next, Installer, Environment
<1> QED
  BY <1>0, <1>5 DEF Replace, Overwrites, WorldOK

(* No file is replaced whose content is in no backup, whatever fails, is   *)
(* killed or edited, unless it changed after the run backed it up, or      *)
(* specials took a part of it that symlinks had copied for its backup.     *)
THEOREM NothingIsLost == Spec => OverwrittenIsSaved
<1>1. IInv /\ [Next]_vars =>
        [\A f \in File :
           Overwrites(f) /\ live[f] # Absent
              => live[f] \in saved \/ f \in racing \/ (pc = "specials_files" /\ f \in torn)]_vars
  <2> SUFFICES ASSUME IInv, Next, NEW f \in File, Overwrites(f), live[f] # Absent,
                      f \notin racing, pc # "specials_files" \/ f \notin torn
               PROVE  live[f] \in saved
    OBVIOUS
  <2>0. f \notin torn
    BY DEF IInv, Phases, Overwrites
  <2>1. Replace /\ live'[f] = Source(f)
    BY OnlyReplaceOverwrites DEF IInv
  <2>2. Accounted(f)
    BY <2>0 DEF IInv, BackedUp, Overwrites
  <2>3. f \in TFile => live[f] # rendered[f]
    BY <2>1 DEF Source, Overwrites
  <2> QED
    BY <2>2, <2>3 DEF Accounted
<1> QED
  BY <1>1, Inductive, PTL DEF Spec, OverwrittenIsSaved

(* An unattended run that renders spares the user's edits of every file    *)
(* its drift check saw, for any number of themes, files and runs.          *)
THEOREM EditsAreSpared == Spec => UnattendedSparesEdits
<1>1. IInv /\ [Next]_vars =>
        [\A f \in TFile :
           Overwrites(f) /\ live[f] \in Mine /\ renderRan /\ ~run.asks /\ ~run.force
              => f \in unguarded]_vars
  BY DEF IInv, Vouched
<1> QED
  BY <1>1, Inductive, PTL DEF Spec, UnattendedSparesEdits
-----------------------------------------------------------------------------
(***************************************************************************)
(* From the render to the record: what rendered/ holds once the render     *)
(* succeeded, which live files the deployment has reached, and that a run  *)
(* in which a part failed does not come to the record.                     *)
(***************************************************************************)
Ran == "render" \in run.sel /\ pc \notin {"idle", "render"} => renderRan

RenderedFor(f) == rendered[f] # Absent /\ rendered[f][1] = run.theme

RenderProgress ==
    /\ pc \in {"idle", "render", "rendering"} => ~renderOk
    /\ pc = "rendering" /\ ~missed => \A f \in TFile \ todo : RenderedFor(f)
    /\ renderOk => \A f \in TFile : RenderedFor(f)

Applied(f) == live[f][1] \in {run.theme, "user", "none"}

DeployProgress ==
    renderOk /\ ~deployFailed /\ "symlinks" \in run.sel =>
      /\ pc = "symlinks_files" => \A f \in TFile \ (todo \cup {cur}) : Applied(f)
      /\ pc \in {"specials", "specials_files", "post_install", "recording"} => \A f \in TFile : Applied(f)

NothingFailed == pc = "recording" => ~PartlyApplied

RecordInv == Ran /\ RenderProgress /\ DeployProgress /\ NothingFailed

LEMMA EndRunRecord == ASSUME NEW quiet, EndRun(quiet) PROVE RecordInv'
  BY DEF EndRun, RecordInv, Ran, RenderProgress, DeployProgress, NothingFailed, NoRun

LEMMA StepRan == IInv /\ Ran /\ [Next]_vars => Ran'
<1> SUFFICES ASSUME IInv, Ran, [Next]_vars PROVE Ran'
  OBVIOUS
<1> USE DEF Ran, flags, work, history
<1>1. CASE Plan \/ Pull \/ BeginRender \/ RenderFailed \/ RenderSucceeded
  BY <1>1 DEF Plan, Pull, BeginRender, AtRender, RenderFailed, RenderSucceeded
<1>2. CASE Pass \/ RefuseDeploy \/ BeginDeploy \/ EndDeploy \/ BeginRecord \/ Record
  BY <1>2 DEF Pass, RefuseDeploy, BeginDeploy, EndDeploy, BeginRecord, Record, After, Module, Deploying
<1>3. CASE DriftStop \/ Kill \/ Finish
  BY <1>3, EndRunRecord DEF DriftStop, Kill, Finish, RecordInv
<1>4. CASE Replace \/ UNCHANGED vars
  BY <1>4 DEF Replace, vars
<1>5. ASSUME NEW f \in File, RenderFile(f) \/ EditLive(f) \/ SkipMissing(f) \/ Snapshot(f) \/ SnapshotFailed(f)
      PROVE  Ran'
  BY <1>5 DEF RenderFile, EditLive, SkipMissing, Snapshot, SnapshotFailed
<1> QED
  BY <1>1, <1>2, <1>3, <1>4, <1>5 DEF Next, Installer, Environment, Rest

LEMMA StepRenderProgress == IInv /\ RenderProgress /\ [Next]_vars => RenderProgress'
<1> SUFFICES ASSUME IInv, RenderProgress, [Next]_vars PROVE RenderProgress'
  OBVIOUS
<1> USE DEF flags, work, history, world
<1>0. WorldOK /\ RunOK
  BY DEF IInv, TypeOK
<1>1. ASSUME UNCHANGED <<rendered, run, renderOk, missed>>, pc # "rendering", pc' # "rendering",
             pc' \in {"idle", "render"} => pc \in {"idle", "render"}
      PROVE  RenderProgress'
  BY <1>1 DEF RenderProgress, RenderedFor
<1>2. CASE Plan
  BY <1>2 DEF Plan, RenderProgress, RenderedFor
<1>3. CASE BeginRender
  BY <1>3 DEF BeginRender, AtRender, RenderProgress, RenderedFor
<1>4. ASSUME NEW f \in File, RenderFile(f) PROVE RenderProgress'
  <2>1. pc' = pc /\ pc = "rendering" /\ renderOk' = renderOk /\ ~renderOk /\ run' = run /\ todo' = todo \ {f}
    BY <1>4 DEF RenderFile, RenderProgress
  <2>2. ASSUME ~missed', NEW g \in TFile \ todo' PROVE RenderedFor(g)'
    <3>1. ~missed /\ rendered' = [rendered EXCEPT ![f] = Inputs(run.theme)]
      BY <1>4, <2>2 DEF RenderFile
    <3>2. CASE g = f
      <4>1. rendered'[g] = <<run.theme, rev>> /\ run.theme \in Theme
        BY <1>0, <2>1, <2>2, <3>1, <3>2 DEF WorldOK, RunOK, Inputs
      <4> QED
        BY <2>1, <4>1, KindAssumption DEF RenderedFor, Absent
    <3>3. CASE g # f
      BY <1>0, <2>1, <2>2, <3>1, <3>3 DEF RenderedFor, RenderProgress, WorldOK
    <3> QED
      BY <3>2, <3>3
  <2> QED
    BY <2>1, <2>2 DEF RenderProgress
<1>5. CASE RenderFailed \/ RenderSucceeded
  BY <1>5 DEF RenderFailed, RenderSucceeded, RenderProgress, RenderedFor
<1>6. CASE DriftStop \/ Kill \/ Finish
  BY <1>6, EndRunRecord DEF DriftStop, Kill, Finish, RecordInv
<1>7. CASE Pass
  BY <1>1, <1>7 DEF Pass, After, Module
<1>8. CASE RefuseDeploy \/ BeginDeploy \/ EndDeploy \/ Replace
  BY <1>1, <1>8 DEF RefuseDeploy, BeginDeploy, EndDeploy, Replace, After, Deploying
<1>9. CASE BeginRecord \/ Record
  BY <1>1, <1>9 DEF BeginRecord, Record
<1>10. CASE Pull \/ UNCHANGED vars
  BY <1>10 DEF Pull, vars, RenderProgress, RenderedFor
<1>11. ASSUME NEW f \in File, SkipMissing(f) \/ Snapshot(f) \/ SnapshotFailed(f) PROVE RenderProgress'
  BY <1>1, <1>11 DEF SkipMissing, Snapshot, SnapshotFailed, NextFile, Deploying
<1>12. ASSUME NEW f \in File, EditLive(f) PROVE RenderProgress'
  BY <1>12 DEF EditLive, RenderProgress, RenderedFor
<1> QED
  BY <1>2, <1>3, <1>4, <1>5, <1>6, <1>7, <1>8, <1>9, <1>10, <1>11, <1>12
     DEF Next, Installer, Environment, Rest

LEMMA StepDeployProgress ==
    IInv /\ RenderProgress /\ DeployProgress /\ [Next]_vars => DeployProgress'
<1> SUFFICES ASSUME IInv, RenderProgress, DeployProgress, [Next]_vars,
                    renderOk', ~deployFailed', "symlinks" \in run'.sel
             PROVE  /\ pc' = "symlinks_files" => \A f \in TFile \ (todo' \cup {cur'}) : Applied(f)'
                    /\ pc' \in {"specials", "specials_files", "post_install", "recording"}
                          => \A f \in TFile : Applied(f)'
  BY DEF DeployProgress
<1> USE DEF flags, work, history, world
<1>0. WorldOK /\ RunOK /\ Phases
  BY DEF IInv, TypeOK
<1>1. CASE Plan \/ DriftStop \/ BeginRender \/ RenderFailed \/ RenderSucceeded
  BY <1>0, <1>1 DEF Plan, DriftStop, EndRun, BeginRender, RenderFailed, RenderSucceeded
<1>2. CASE Kill \/ Finish \/ RefuseDeploy
  BY <1>2 DEF Kill, Finish, EndRun, RefuseDeploy
<1>3. CASE Pass
  BY <1>3 DEF Pass, After, Module, DeployProgress, Applied
<1>4. CASE BeginDeploy
  BY <1>0, <1>4 DEF BeginDeploy, DeployProgress, Applied, File
<1>5. CASE EndDeploy
  BY <1>0, <1>5 DEF EndDeploy, DeployProgress, Applied, Deploying, File
<1>6. CASE BeginRecord \/ Record \/ Pull \/ UNCHANGED vars
  BY <1>6 DEF BeginRecord, Record, Pull, vars, DeployProgress, Applied
<1>7. ASSUME NEW f \in File, RenderFile(f) PROVE pc' = "rendering"
  BY <1>7 DEF RenderFile
<1>8. ASSUME NEW f \in File, SkipMissing(f) \/ Snapshot(f) \/ SnapshotFailed(f)
       PROVE  /\ pc' = "symlinks_files" => \A g \in TFile \ (todo' \cup {cur'}) : Applied(g)'
              /\ pc' \in {"specials", "specials_files", "post_install", "recording"}
                   => \A g \in TFile : Applied(g)'
  <2>1. UNCHANGED <<live, run, renderOk, rendered, pc>> /\ ~deployFailed
    BY <1>0, <1>8 DEF SkipMissing, Snapshot, SnapshotFailed, RunOK
  <2>2. ASSUME pc = "symlinks_files" PROVE todo \cup {cur} \subseteq todo' \cup {cur'} \cup {Sentinel, NoFile}
    BY <1>8, <2>1, <2>2 DEF SkipMissing, Snapshot, SnapshotFailed, NextFile, RenderProgress, RenderedFor,
                             Source, File
  <2> QED
    BY <2>1, <2>2 DEF DeployProgress, Applied
<1>9. CASE Replace
  <2>1. cur' = NoFile /\ pc \in Deploying /\ UNCHANGED <<run, renderOk, rendered, pc, todo>>
    BY <1>9 DEF Replace
  <2>2. CASE live' = [live EXCEPT ![cur] = Source(cur)] /\ UNCHANGED deployFailed
    <3>1. \A g \in TFile \ {cur} : Applied(g) => Applied(g)'
      BY <1>0, <2>1, <2>2 DEF Applied, WorldOK, File
    <3>2. cur \in TFile => live'[cur] = rendered[cur] /\ rendered[cur][1] = run.theme
      BY <1>0, <2>1, <2>2 DEF Source, RenderProgress, RenderedFor, WorldOK, File
    <3>3. \A g \in TFile : g = cur => Applied(g)'
      BY <2>1, <3>2 DEF Applied
    <3> QED
      BY <2>1, <2>2, <3>1, <3>3 DEF DeployProgress, Deploying
  <2>3. CASE deployFailed' = (deployFailed \/ pc = "symlinks_files") /\ UNCHANGED live
    <3>1. ~deployFailed /\ pc = "specials_files"
      BY <2>1, <2>3, Zenon DEF Deploying
    <3> QED
      BY <2>1, <2>3, <3>1 DEF DeployProgress, Applied
  <2> QED
    BY <1>9, <2>2, <2>3 DEF Replace
<1>10. ASSUME NEW f \in File, EditLive(f)
       PROVE  /\ pc' = "symlinks_files" => \A g \in TFile \ (todo' \cup {cur'}) : Applied(g)'
              /\ pc' \in {"specials", "specials_files", "post_install", "recording"}
                   => \A g \in TFile : Applied(g)'
  <2>1. UNCHANGED <<run, renderOk, deployFailed, pc, todo, cur>>
    BY <1>10 DEF EditLive
  <2>2. ASSUME NEW g \in TFile PROVE live'[g] = live[g] \/ Applied(g)'
    BY <1>0, <1>10, <2>2 DEF EditLive, Applied, WorldOK, File, Absent
  <2> QED
    BY <2>1, <2>2 DEF DeployProgress, Applied
<1> QED
  BY <1>1, <1>2, <1>3, <1>4, <1>5, <1>6, <1>7, <1>8, <1>9, <1>10 DEF Next, Installer, Environment, Rest

LEMMA StepNothingFailed == NothingFailed /\ [Next]_vars => NothingFailed'
<1> SUFFICES ASSUME NothingFailed, [Next]_vars PROVE NothingFailed'
  OBVIOUS
<1> USE DEF NothingFailed, PartlyApplied, flags, work, history
<1>1. CASE Plan \/ DriftStop \/ BeginRender \/ RenderFailed \/ RenderSucceeded \/ RefuseDeploy
  BY <1>1 DEF Plan, DriftStop, EndRun, BeginRender, RenderFailed, RenderSucceeded, RefuseDeploy, After
<1>2. CASE Pass \/ BeginDeploy \/ Replace \/ EndDeploy
  BY <1>2 DEF Pass, After, Module, BeginDeploy, Replace, EndDeploy, Deploying
<1>3. CASE BeginRecord \/ Record \/ Finish \/ Kill \/ Pull \/ UNCHANGED vars
  BY <1>3 DEF BeginRecord, Record, Finish, Kill, EndRun, Pull, vars
<1>4. ASSUME NEW f \in File, RenderFile(f) \/ EditLive(f) \/ SkipMissing(f) \/ Snapshot(f) \/ SnapshotFailed(f)
      PROVE  NothingFailed'
  BY <1>4 DEF RenderFile, EditLive, SkipMissing, Snapshot, SnapshotFailed, NextFile, Deploying
<1> QED
  BY <1>1, <1>2, <1>3, <1>4 DEF Next, Installer, Environment, Rest

(* A run that rendered and deployed and comes to the record of its theme   *)
(* finds every template file live in that theme, or changed by the user,   *)
(* for any themes, files, faults and number of runs.                       *)
THEOREM RecordsAreTrue == Spec => RecordedThemeIsLive
<1>1. Init => RecordInv
  BY DEF Init, RecordInv, Ran, RenderProgress, DeployProgress, NothingFailed, NoRun
<1>2. IInv /\ RecordInv /\ [Next]_vars => RecordInv'
  BY StepRan, StepRenderProgress, StepDeployProgress, StepNothingFailed DEF RecordInv
<1>3. IInv /\ RecordInv /\ [Next]_vars =>
        [pc = "recording" /\ pc' = "closing" /\ {"render", "symlinks"} \subseteq run.sel
           => \A f \in TFile : live[f][1] \in {run.theme, "user", "none"}]_vars
  BY DEF RecordInv, Ran, DeployProgress, Applied, NothingFailed, PartlyApplied
<1> QED
  BY <1>1, <1>2, <1>3, Inductive, PTL DEF Spec, RecordedThemeIsLive

-----------------------------------------------------------------------------
(***************************************************************************)
(* Two quiet runs.  The first deploys the sentinel of this revision; the   *)
(* second takes its hash of what the first deployed, and so leaves a       *)
(* record, a stamp and a live file that agree.                             *)
(***************************************************************************)
Fresh == live[Sentinel] = <<"shared", rev>>

(* Past the sentinel's deployment by a run of which nothing failed.        *)
Deployed ==
    /\ renderOk /\ ~deployFailed /\ "symlinks" \in run.sel
    /\ \/ pc = "symlinks_files" /\ Sentinel \notin todo /\ cur # Sentinel
       \/ pc \in {"specials", "specials_files", "post_install", "recording", "closing"}

Agreeing == memEntry = <<"shared", rev>> /\ stamp = Inputs(run.theme)

SettleInv ==
    /\ pc \in {"idle", "render", "rendering"} => ~renderOk
    /\ calm >= 1 /\ Deployed => Fresh
    /\ calm >= 2 => Fresh
    /\ calm >= 2 /\ renderOk => Agreeing
    /\ calm = 3 /\ pc = "idle" => entry = <<"shared", rev>> /\ stamp \in Theme \X {rev}

LEMMA EndRunSettles ==
    ASSUME TypeOK, EndRun(0) PROVE SettleInv'
<1>1. pc' = "idle" /\ ~renderOk' /\ calm' = 0
  BY DEF EndRun
<1> QED
  BY <1>1 DEF SettleInv, Deployed

LEMMA StepSettles ==
    ASSUME "stamp" \notin Faults
    PROVE  IInv /\ SettleInv /\ [Next]_vars => SettleInv'
<1> SUFFICES ASSUME IInv, SettleInv, [Next]_vars PROVE SettleInv'
  OBVIOUS
<1> USE DEF flags, work, history, world
<1>0. /\ rev \in Nat /\ calm \in 0..3 /\ live \in [File -> Rendered \cup Shared \cup Mine \cup {Absent}]
      /\ Sentinel \in File /\ todo \subseteq File
  BY DEF IInv, TypeOK, WorldOK, RunOK, File
<1>1. CASE Plan
  BY <1>0, <1>1 DEF Plan, SettleInv, Deployed, Fresh, Agreeing
<1>2. CASE Pass
  <2>1. Deployed' => Deployed
    BY <1>2 DEF Pass, Deployed, After, Module
  <2>2. UNCHANGED <<rev, stamp, live, entry, run, memEntry, renderOk, calm>> /\ pc' \notin {"idle", "render", "rendering"}
    BY <1>2 DEF Pass, After, Module
  <2> QED
    BY <2>1, <2>2 DEF SettleInv, Fresh, Agreeing, Inputs
<1>3. CASE DriftStop \/ Kill
  BY <1>3, EndRunSettles DEF DriftStop, Kill, IInv
<1>4. CASE BeginRender
  BY <1>4 DEF BeginRender, AtRender, SettleInv, Deployed, Fresh, Agreeing
<1>5. ASSUME NEW f \in File, RenderFile(f) PROVE SettleInv'
  BY <1>5 DEF RenderFile, SettleInv, Deployed, Fresh, Agreeing
<1>6. CASE RenderFailed
  BY <1>6 DEF RenderFailed, SettleInv, Deployed, Fresh, Agreeing
<1>7. CASE RenderSucceeded
  <2>1. /\ UNCHANGED <<rev, live, run, calm>> /\ pc' = "symlinks"
        /\ stamp' = Inputs(run.theme) /\ memEntry' = SentinelHash
    BY <1>7 DEF RenderSucceeded
  <2>2. Fresh => SentinelHash = <<"shared", rev>>
    BY DEF Fresh, SentinelHash, Absent
  <2> QED
    BY <2>1, <2>2 DEF SettleInv, Deployed, Fresh, Agreeing, Inputs
<1>8. CASE RefuseDeploy
  <2>1. ~renderOk /\ UNCHANGED <<rev, live, run, calm, renderOk>> /\ pc' = "specials"
    BY <1>8 DEF RefuseDeploy, After
  <2> QED
    BY <2>1 DEF SettleInv, Deployed, Fresh
<1>9. CASE BeginDeploy
  <2>1. UNCHANGED <<rev, stamp, live, entry, run, memEntry, renderOk, deployFailed, calm>> /\ pc' \in Deploying
    BY <1>9 DEF BeginDeploy, Deploying
  <2>2. Deployed' => Deployed
    BY <1>0, <1>9 DEF BeginDeploy, Deployed
  <2> QED
    BY <2>1, <2>2 DEF SettleInv, Fresh, Agreeing, Inputs, Deploying
<1>10. CASE EndDeploy
  <2>1. UNCHANGED <<rev, stamp, live, entry, run, memEntry, renderOk, deployFailed, calm>> /\ pc' \in {"specials", "post_install"}
    BY <1>10 DEF EndDeploy
  <2>2. Deployed' => Deployed
    BY <1>10 DEF EndDeploy, Deployed, Deploying, IInv, TypeOK, RunOK
  <2> QED
    BY <2>1, <2>2 DEF SettleInv, Fresh, Agreeing, Inputs
<1>11. ASSUME NEW f \in File, SkipMissing(f) PROVE SettleInv'
  <2>1. f # Sentinel
    BY <1>0, <1>11 DEF SkipMissing, Source, Absent
  <2>2. UNCHANGED <<rev, stamp, live, entry, run, memEntry, renderOk, deployFailed, calm, pc, cur>> /\ todo' = todo \ {f}
    BY <1>11 DEF SkipMissing, NextFile
  <2> QED
    BY <2>1, <2>2 DEF SettleInv, Deployed, Fresh, Agreeing, Inputs
<1>12. ASSUME NEW f \in File, Snapshot(f) PROVE SettleInv'
  <2>1. UNCHANGED <<rev, stamp, live, entry, run, memEntry, renderOk, deployFailed, calm, pc>> /\ todo' = todo \ {f} /\ cur' = f /\ f \in todo /\ cur = NoFile
    BY <1>12 DEF Snapshot, NextFile
  <2>2. Deployed' => Deployed
    BY <1>0, <2>1, FileAssumption DEF Deployed, File
  <2> QED
    BY <2>1, <2>2 DEF SettleInv, Fresh, Agreeing, Inputs
<1>13. ASSUME NEW f \in File, SnapshotFailed(f) PROVE SettleInv'
  <2>1. UNCHANGED <<rev, stamp, live, entry, run, memEntry, renderOk, calm, pc, cur>>
    BY <1>13 DEF SnapshotFailed
  <2>2. Deployed' => Deployed
    BY <1>13 DEF SnapshotFailed, NextFile, Deployed, Deploying
  <2> QED
    BY <2>1, <2>2 DEF SettleInv, Fresh, Agreeing, Inputs
<1>14. CASE Replace
  <2>1. UNCHANGED <<rev, stamp, entry, run, memEntry, renderOk, calm, pc, todo>> /\ cur' = NoFile /\ cur \in File /\ pc \in Deploying
    BY <1>14 DEF Replace, IInv, TypeOK, RunOK
  <2>2. CASE live' = [live EXCEPT ![cur] = Source(cur)] /\ UNCHANGED deployFailed
    <3>1. live'[Sentinel] = IF cur = Sentinel THEN <<"shared", rev>> ELSE live[Sentinel]
      BY <1>0, <2>2 DEF Source
    <3>2. Deployed' => Deployed \/ cur = Sentinel
      BY <2>1, <2>2 DEF Deployed
    <3> QED
      BY <2>1, <3>1, <3>2 DEF SettleInv, Fresh, Agreeing, Inputs, Deploying
  <2>3. CASE deployFailed' = (deployFailed \/ pc = "symlinks_files") /\ UNCHANGED live
    <3>1. Deployed' => Deployed
      BY <2>1, <2>3 DEF Deployed, Deploying
    <3> QED
      BY <2>1, <2>3, <3>1 DEF SettleInv, Fresh, Agreeing, Inputs, Deploying
  <2> QED
    BY <1>14, <2>2, <2>3 DEF Replace
<1>15. CASE BeginRecord \/ Record
  <2>1. UNCHANGED <<rev, stamp, live, entry, run, memEntry, renderOk, deployFailed, calm>>
        /\ pc' \in {"recording", "closing"} /\ pc \in {"post_install", "recording"}
    BY <1>15 DEF BeginRecord, Record
  <2> QED
    BY <2>1 DEF SettleInv, Deployed, Fresh, Agreeing, Inputs
<1>16. CASE Finish
  <2>1. CASE EndRun(0)
    BY <2>1, EndRunSettles DEF IInv
  <2>2. CASE ~(calm = 0 \/ ~renderOk \/ deployFailed \/ "symlinks" \notin run.sel)
             /\ entry' = memEntry /\ EndRun(IF calm = 3 THEN 3 ELSE calm + 1)
    <3>1. Deployed /\ Fresh /\ (calm >= 2 => Agreeing)
      BY <1>0, <1>16, <2>2 DEF Finish, Deployed, SettleInv
    <3>2. pc' = "idle" /\ ~renderOk' /\ UNCHANGED <<rev, stamp, live>> /\ calm' = IF calm = 3 THEN 3 ELSE calm + 1
      BY <2>2 DEF EndRun
    <3>3. calm' = 3 => calm >= 2
      BY <1>0, <3>2
    <3>4. run.theme \in Theme
      BY <1>16 DEF Finish, IInv, TypeOK, RunOK
    <3> QED
      BY <2>2, <3>1, <3>2, <3>3, <3>4 DEF SettleInv, Deployed, Fresh, Agreeing, Inputs
  <2> QED
    BY <1>16, <2>1, <2>2 DEF Finish
<1>17. CASE Pull
  BY <1>17 DEF Pull, SettleInv, Deployed
<1>18. ASSUME NEW f \in File, EditLive(f) PROVE SettleInv'
  BY <1>18 DEF EditLive, SettleInv, Deployed
<1>19. CASE UNCHANGED vars
  BY <1>19 DEF vars, SettleInv, Deployed, Fresh, Agreeing, Inputs
<1> QED
  BY <1>1, <1>2, <1>3, <1>4, <1>5, <1>6, <1>7, <1>8, <1>9, <1>10, <1>11, <1>12, <1>13, <1>14,
     <1>15, <1>16, <1>17, <1>18, <1>19 DEF Next, Installer, Environment, Rest

(* After two undisturbed runs there is nothing left to render, for any     *)
(* themes, files and other faults: if the stamp can be written at all.     *)
THEOREM RunsSettle == ASSUME "stamp" \notin Faults PROVE Spec => []Converges
<1>1. Init => SettleInv
  BY DEF Init, SettleInv, Deployed
<1>2. IInv /\ SettleInv /\ [Next]_vars => SettleInv'
  BY StepSettles
<1>3. IInv /\ SettleInv => Converges
  <2> SUFFICES ASSUME IInv, SettleInv, pc = "idle", calm = 3 PROVE CheckRender(stamp[1]) = "noop"
    BY DEF Converges
  <2>1. Fresh /\ entry = <<"shared", rev>> /\ stamp \in Theme \X {rev}
    BY DEF SettleInv
  <2>2. live[Sentinel] # Absent /\ entry # Untracked /\ entry = live[Sentinel]
    BY <2>1 DEF Fresh, Absent, Untracked
  <2>3. RenderedIsCurrent(stamp[1])
    BY <2>1 DEF RenderedIsCurrent, Inputs
  <2> QED
    BY <2>2, <2>3 DEF CheckRender
<1> QED
  BY <1>1, <1>2, <1>3, Inductive, PTL DEF Spec
=============================================================================
