----------------------------- MODULE Bookmarks ------------------------------
(***************************************************************************)
(* The drawer's bookmark ribbons: a list of project paths that runs of     *)
(* fox-drawer toggle under a lock, keeping the version they replace in     *)
(* .bak.  Whether a path may be toggled is decided before the lock.        *)
(***************************************************************************)
EXTENDS Naturals, Sequences, SequencesExt

CONSTANTS Path, Hand, NoHand, NoFile, Broken,
          MaxRibbons,              \* 16 in the code
          MaxToggles, MaxLeaving   \* bounds: runs, projects that disappear

ASSUME RibbonAssumption ==
    NoHand \notin Hand /\ NoFile # Broken /\ MaxRibbons \in Nat /\ MaxToggles \in Nat

VARIABLES
    roots,       \* the projects under the configured project roots
    ribbons,     \* project-bookmarks.json: NoFile, Broken or its list
    backup,      \* project-bookmarks.json.bak
    latch,       \* the run that holds LOCK_EX
    hand,        \* each run: pc, its path, the list it read and will replace
    toggles

markVars == <<roots, ribbons, backup, latch, hand, toggles>>

Resting == [pc |-> "rest", path |-> NoFile, list |-> <<>>]
Lists == Seq(Path)

MarksTypeOK ==
    /\ roots \subseteq Path
    /\ ribbons \in Lists \cup {NoFile, Broken} /\ backup \in Lists \cup {NoFile}
    /\ latch \in Hand \cup {NoHand}
    /\ hand \in [Hand -> [pc : {"rest", "locking", "reading", "backup", "saving"},
                          path : Path \cup {NoFile}, list : Lists]]
    /\ toggles \in 0..MaxToggles
    /\ ribbons \notin {NoFile, Broken} => IsInjective(ribbons) /\ Len(ribbons) <= MaxRibbons

MarksInit ==
    /\ roots = Path /\ ribbons \in {NoFile, Broken} /\ backup = NoFile
    /\ latch = NoHand /\ hand = [h \in Hand |-> Resting] /\ toggles = 0

-----------------------------------------------------------------------------
Ribbons == IF ribbons \in {NoFile, Broken} THEN <<>> ELSE ribbons
Toggled(list, path) == IF Contains(list, path) THEN RemoveFirst(list, path) ELSE Append(list, path)
Moves(h, pc) == hand' = [hand EXCEPT ![h].pc = pc]
Rests(h) == hand' = [hand EXCEPT ![h] = Resting] /\ latch' = IF latch = h THEN NoHand ELSE latch

Vanish(path) ==
    /\ path \in roots /\ Cardinality(Path \ roots) < MaxLeaving
    /\ roots' = roots \ {path}
    /\ UNCHANGED <<ribbons, backup, latch, hand, toggles>>

(* project-bookmark: only a project of the roots, or one whose ribbon can  *)
(* be put away.  Both are read without the lock.                           *)
MayToggle(path) == path \in roots \/ Contains(Ribbons, path)

StartToggle(h, path) ==
    /\ hand[h].pc = "rest" /\ toggles < MaxToggles /\ MayToggle(path)
    /\ toggles' = toggles + 1
    /\ hand' = [hand EXCEPT ![h] = [Resting EXCEPT !.pc = "locking", !.path = path]]
    /\ UNCHANGED <<roots, ribbons, backup, latch>>

(* Fault: a second writer is let in.                                       *)
LockRibbonsShared(h) ==
    /\ hand[h].pc = "locking"
    /\ latch' = h /\ Moves(h, "reading")
    /\ UNCHANGED <<roots, ribbons, backup, toggles>>

LockRibbons(h) ==
    /\ hand[h].pc = "locking" /\ latch = NoHand
    /\ latch' = h /\ Moves(h, "reading")
    /\ UNCHANGED <<roots, ribbons, backup, toggles>>

Refused(path) == ribbons = Broken \/ (~Contains(Ribbons, path) /\ Len(Ribbons) >= MaxRibbons)

ReadRibbons(h) ==
    /\ hand[h].pc = "reading"
    /\ IF Refused(hand[h].path)
         THEN Rests(h)
         ELSE /\ hand' = [hand EXCEPT ![h].pc = "backup", ![h].list = Toggled(Ribbons, hand[h].path)]
              /\ UNCHANGED latch
    /\ UNCHANGED <<roots, ribbons, backup, toggles>>

(* Fault: only a removal is worth a backup.                                *)
KeepBackupOfRemoval(h) ==
    /\ hand[h].pc = "backup"
    /\ backup' = IF ribbons = NoFile \/ ~Contains(Ribbons, hand[h].path) THEN backup ELSE ribbons
    /\ Moves(h, "saving")
    /\ UNCHANGED <<roots, ribbons, latch, toggles>>

KeepBackup(h) ==
    /\ hand[h].pc = "backup"
    /\ backup' = IF ribbons = NoFile THEN backup ELSE ribbons
    /\ Moves(h, "saving")
    /\ UNCHANGED <<roots, ribbons, latch, toggles>>

SaveRibbons(h) ==
    /\ hand[h].pc = "saving"
    /\ ribbons' = hand[h].list
    /\ Rests(h)
    /\ UNCHANGED <<roots, backup, toggles>>

(* A failed write or a kill: files are only ever replaced whole.           *)
HandFails(h) ==
    /\ hand[h].pc # "rest" /\ Rests(h)
    /\ UNCHANGED <<roots, ribbons, backup, toggles>>

MarksNext ==
    \/ \E path \in Path : Vanish(path)
    \/ \E h \in Hand :
         \/ \E path \in Path : StartToggle(h, path)
         \/ LockRibbons(h) \/ ReadRibbons(h) \/ KeepBackup(h) \/ SaveRibbons(h) \/ HandFails(h)

MarksSpec == MarksInit /\ [][MarksNext]_markVars

-----------------------------------------------------------------------------
(* The stored list changes by the one ribbon its writer was asked for:     *)
(* two runs never lose each other's ribbons, and storage that cannot be    *)
(* read is left untouched.                                                 *)
OneRibbonAtATime ==
    [][ribbons # Broken /\ \E h \in Hand : ribbons' = Toggled(Ribbons, hand[h].path)]_ribbons

(* Whenever the list is replaced, .bak already holds what it replaces, so  *)
(* a writer killed anywhere leaves the last good list.                     *)
BackupIsThePast ==
    [][ribbons # NoFile => backup = ribbons]_ribbons
=============================================================================
