------------------------------- MODULE MCHost -------------------------------
(* Model-checking instance of the parts of the installation that share a   *)
(* machine but no state: fox-install's dispatcher, its edits of the boot   *)
(* line and of the PAM stacks, its clones, fox-monitor, fox-drawer's agent *)
(* notes and ribbons, and findex.  Their behaviours are independent: a run *)
(* explores one of them (focus) while the others stay where they start,    *)
(* and so covers them all.  So are the four PAM stacks: it is enough that  *)
(* they start alike.                                                       *)
EXTENDS InstallRun, BootLine, GitClone, Monitor, AgentNotes, Bookmarks, Findex, PamStack, TLC

VARIABLE focus

Symmetric == Permutations(Proc)
MCCut == {[size |-> 2, overlap |-> 1], [size |-> 1, overlap |-> 0]}

hostVars == <<focus, vars, bootVars, cloneVars, monitorVars, notesVars, markVars, findexVars, pamVars>>

HostInit ==
    /\ focus \in {"install", "boot", "clone", "monitor", "notes", "marks", "index", "pam"}
    /\ \E s \in Shape \cup {NoStack} : (focus # "pam" => s = NoStack) /\ pam = [f \in Service |-> s]
    /\ PamInit /\ (focus # "pam" => sysauth = "unix" /\ finger = "none")
    /\ Init /\ BootInit /\ CloneInit /\ MonitorInit /\ NotesInit /\ MarksInit /\ FindexInit
    /\ focus # "boot" => ~grub /\ ~gpu /\ ~dkms /\ conf = {"rw"}
    /\ focus # "monitor" => plugged = [o \in Output |-> IF o = (CHOOSE x \in Output : TRUE) THEN plugged[o] ELSE "off"]
    /\ focus # "marks" => ribbons = NoFile

(* A part other than the dispatcher may end where its bounds are used up.  *)
HostNext ==
    \/ focus = "install" /\ Next /\ UNCHANGED <<focus, bootVars, cloneVars, monitorVars, notesVars, markVars, findexVars, pamVars>>
    \/ focus = "boot" /\ BootNext /\ UNCHANGED <<focus, vars, cloneVars, monitorVars, notesVars, markVars, findexVars, pamVars>>
    \/ focus = "clone" /\ CloneNext /\ UNCHANGED <<focus, vars, bootVars, monitorVars, notesVars, markVars, findexVars, pamVars>>
    \/ focus = "monitor" /\ MonitorNext /\ UNCHANGED <<focus, vars, bootVars, cloneVars, notesVars, markVars, findexVars, pamVars>>
    \/ focus = "notes" /\ NotesNext /\ UNCHANGED <<focus, vars, bootVars, cloneVars, monitorVars, markVars, findexVars, pamVars>>
    \/ focus = "marks" /\ MarksNext /\ UNCHANGED <<focus, vars, bootVars, cloneVars, monitorVars, notesVars, findexVars, pamVars>>
    \/ focus = "index" /\ FindexNext /\ UNCHANGED <<focus, vars, bootVars, cloneVars, monitorVars, notesVars, markVars, pamVars>>
    \/ focus = "pam" /\ PamNext /\ UNCHANGED <<focus, vars, bootVars, cloneVars, monitorVars, notesVars, markVars, findexVars>>
    \/ focus # "install" /\ UNCHANGED hostVars

HostSpec == HostInit /\ [][HostNext]_hostVars

(* Every variable stays in its range: one generated grub.cfg that was      *)
(* refused, one torn layout or one ribbon too many would leave it.         *)
HostTypes ==
    TypeOK /\ BootTypeOK /\ CloneTypeOK /\ MonitorTypeOK /\ NotesTypeOK /\ MarksTypeOK
        /\ FindexTypeOK /\ PamTypeOK
=============================================================================
