----------------------------- MODULE InstallRun -----------------------------
(***************************************************************************)
(* The dispatcher of fox-install (src/src/fox-install/fox-install.cpp):    *)
(* what several invocations on one machine do to the three things they     *)
(* share -- the install lock, the resume file install_state and the state  *)
(* manifest -- while modules succeed, report errors, throw, refuse the run *)
(* or call std::exit, and while any invocation may be killed.              *)
(*                                                                         *)
(* Which modules a run selects is chosen freely here (the choice itself is *)
(* module InstallSelect); a module is only its outcome.  The manifest is   *)
(* kept as a time per module: entry m (its deployed_at) is the number of   *)
(* the run that made it, counting the runs of the machine from 1; 0 means  *)
(* that there is no entry.  cleanAt keeps, beside the program, the run in  *)
(* which the module last really ran without an error.                      *)
(***************************************************************************)
EXTENDS Integers

CONSTANTS
    Proc,        \* invocations of fox-install (each may be run again)
    NoProc,      \* nobody holds the lock
    NMod,        \* MODULES_COUNT
    Preflight,   \* index of the one module that may set preflight_failed
    Exits,       \* indices of modules that may call std::exit(2) (render)
    MaxRuns      \* bound: invocations started in one behaviour

ASSUME NModAssumption == NMod \in Nat \ {0}
ASSUME NoProcAssumption == NoProc \notin Proc
ASSUME ModuleAssumption == Preflight \in 0..(NMod - 1) /\ Exits \subseteq 0..(NMod - 1)
ASSUME MaxRunsAssumption == MaxRuns \in Nat

Mod == 0..(NMod - 1)

(* The resume file holds an index, or nothing: it is absent (NoState), or  *)
(* was truncated by the ofstream of a run killed before it wrote.          *)
NoState == -1
EmptyState == -2

NoExit == -1
EmptyManifest == [m \in Mod |-> 0]

VARIABLES
    lock,        \* the invocation holding the flock, or NoProc
    stateFile,   \* ~/.local/share/foxml/install_state
    manifest,    \* the manifest file
    pc,          \* where each invocation is in main()
    dry,         \* --dry-run
    num,         \* the number of the run the invocation is in, its clock
    via,         \* where the loop starts: "top", "resume" or "phase"
    from,        \* ctx.resume_idx
    sel,         \* module_enabled, after the plan
    at,          \* the loop index i
    mem,         \* the manifest in memory
    clean,       \* modules this run completed without an error
    soft,        \* soft_error_modules
    failed,      \* failed_modules is not empty
    exit,        \* exit code
    runs,        \* invocations started so far (bounded by MaxRuns)
    cleanAt,     \* history: the real run in which each module last ran clean
    threwAt      \* history: where the latest real run threw, or NoState

locals == <<num, via, from, sel, at, mem, clean, soft, failed>>
shared == <<lock, stateFile, manifest>>
history == <<cleanAt, threwAt>>
vars == <<lock, stateFile, manifest, pc, dry, num, via, from, sel, at, mem,
          clean, soft, failed, exit, runs, cleanAt, threwAt>>

(***************************************************************************)
(* Types.                                                                  *)
(***************************************************************************)
Active == {"started", "planning", "loop", "running", "stamping", "done",
           "saving", "published", "unpublished"}
Ended == {"idle", "locked_out", "left", "refused", "exited", "finished", "killed"}

SharedOK ==
    /\ lock \in Proc \cup {NoProc}
    /\ stateFile \in Mod \cup {NoState, EmptyState}
    /\ manifest \in [Mod -> Nat]

ControlOK ==
    /\ pc \in [Proc -> Active \cup Ended]
    /\ dry \in [Proc -> BOOLEAN]
    /\ exit \in [Proc -> {NoExit, 0, 1, 2, 3}]
    /\ runs \in Nat

LocalsOK ==
    /\ num \in [Proc -> Nat]
    /\ via \in [Proc -> {"top", "resume", "phase"}]
    /\ from \in [Proc -> 0..NMod]
    /\ sel \in [Proc -> SUBSET Mod]
    /\ at \in [Proc -> 0..NMod]
    /\ mem \in [Proc -> [Mod -> Nat]]
    /\ clean \in [Proc -> SUBSET Mod]
    /\ soft \in [Proc -> SUBSET Mod]
    /\ failed \in [Proc -> BOOLEAN]

HistoryOK ==
    /\ cleanAt \in [Mod -> Nat]
    /\ threwAt \in Mod \cup {NoState}

TypeOK == SharedOK /\ ControlOK /\ LocalsOK /\ HistoryOK

Init ==
    /\ lock = NoProc
    /\ stateFile = NoState
    /\ manifest = EmptyManifest
    /\ pc = [p \in Proc |-> "idle"]
    /\ dry = [p \in Proc |-> FALSE]
    /\ num = [p \in Proc |-> 0]
    /\ via = [p \in Proc |-> "top"]
    /\ from = [p \in Proc |-> 0]
    /\ sel = [p \in Proc |-> {}]
    /\ at = [p \in Proc |-> 0]
    /\ mem = [p \in Proc |-> EmptyManifest]
    /\ clean = [p \in Proc |-> {}]
    /\ soft = [p \in Proc |-> {}]
    /\ failed = [p \in Proc |-> FALSE]
    /\ exit = [p \in Proc |-> NoExit]
    /\ runs = 0
    /\ cleanAt = EmptyManifest
    /\ threwAt = NoState

-----------------------------------------------------------------------------
(***************************************************************************)
(* Getting in and getting out.  A real run needs the flock and fails fast  *)
(* without it; --dry-run and --wizard-demo go in without.  The kernel      *)
(* drops the flock whenever the process ends, however it ends.             *)
(***************************************************************************)
Fresh(p, isDry) ==
    /\ runs < MaxRuns
    /\ pc[p] \in Ended
    /\ runs' = runs + 1
    /\ num' = [num EXCEPT ![p] = runs + 1]
    /\ dry' = [dry EXCEPT ![p] = isDry]
    /\ UNCHANGED <<stateFile, manifest, via, from, sel, at, mem, clean, soft, failed, history>>

StartDry(p) ==
    /\ Fresh(p, TRUE)
    /\ pc' = [pc EXCEPT ![p] = "started"]
    /\ exit' = [exit EXCEPT ![p] = NoExit]
    /\ UNCHANGED lock

(* Fault: the flock is not checked.                                        *)
StartUnlocked(p) ==
    /\ Fresh(p, FALSE)
    /\ lock' = p
    /\ pc' = [pc EXCEPT ![p] = "started"]
    /\ exit' = [exit EXCEPT ![p] = NoExit]

StartLocked(p) ==
    /\ Fresh(p, FALSE)
    /\ lock = NoProc
    /\ lock' = p
    /\ pc' = [pc EXCEPT ![p] = "started"]
    /\ exit' = [exit EXCEPT ![p] = NoExit]

StartLockedOut(p) ==
    /\ Fresh(p, FALSE)
    /\ lock # NoProc
    /\ pc' = [pc EXCEPT ![p] = "locked_out"]
    /\ exit' = [exit EXCEPT ![p] = 1]
    /\ UNCHANGED lock

(* The process ends in state how with the given exit code: the kernel      *)
(* drops its flock and its memory is gone.                                 *)
End(p, how, code) ==
    /\ pc' = [pc EXCEPT ![p] = how]
    /\ exit' = [exit EXCEPT ![p] = code]
    /\ lock' = IF lock = p THEN NoProc ELSE lock
    /\ num' = [num EXCEPT ![p] = 0]
    /\ via' = [via EXCEPT ![p] = "top"]
    /\ from' = [from EXCEPT ![p] = 0]
    /\ sel' = [sel EXCEPT ![p] = {}]
    /\ at' = [at EXCEPT ![p] = 0]
    /\ mem' = [mem EXCEPT ![p] = EmptyManifest]
    /\ clean' = [clean EXCEPT ![p] = {}]
    /\ soft' = [soft EXCEPT ![p] = {}]
    /\ failed' = [failed EXCEPT ![p] = FALSE]
    /\ UNCHANGED <<stateFile, manifest, dry, runs, history>>

-----------------------------------------------------------------------------
(***************************************************************************)
(* Before the loop.  The manifest is read after the lock is taken; a file  *)
(* that is missing or does not parse reads as an empty manifest.           *)
(***************************************************************************)
ReadManifest(p) ==
    /\ pc[p] = "started"
    /\ mem' = [mem EXCEPT ![p] = manifest]
    /\ pc' = [pc EXCEPT ![p] = "planning"]
    /\ UNCHANGED <<shared, dry, num, via, from, sel, at, clean, soft, failed, exit, runs, history>>

(* An unknown --phase slug (2), an aborted wizard (1), a declined preview  *)
(* (0): nothing has run.                                                   *)
LeaveAtPlan(p) ==
    /\ pc[p] = "planning"
    /\ \E code \in {0, 1, 2} : End(p, "left", code)

(* Where the loop starts: --phase overrides --resume, and --resume counts  *)
(* only when the file yields an index.                                     *)
ResumePoint == IF stateFile \in Mod THEN stateFile + 1 ELSE 0

EnterLoop(p, how, first) ==
    /\ pc[p] = "planning"
    /\ \E s \in SUBSET Mod : sel' = [sel EXCEPT ![p] = s]
    /\ via' = [via EXCEPT ![p] = how]
    /\ from' = [from EXCEPT ![p] = first]
    /\ at' = [at EXCEPT ![p] = first]
    /\ pc' = [pc EXCEPT ![p] = "loop"]
    /\ threwAt' = IF dry[p] THEN threwAt ELSE NoState
    /\ UNCHANGED <<shared, dry, num, mem, clean, soft, failed, exit, runs, cleanAt>>

Plan(p) ==
    \/ EnterLoop(p, "top", 0)
    \/ EnterLoop(p, "resume", ResumePoint)
    \/ \E m \in Mod : EnterLoop(p, "phase", m)

-----------------------------------------------------------------------------
(***************************************************************************)
(* The main loop over the registry.                                        *)
(***************************************************************************)
Skip(p) ==
    /\ pc[p] = "loop"
    /\ at[p] < NMod
    /\ at[p] \notin sel[p]
    /\ at' = [at EXCEPT ![p] = at[p] + 1]
    /\ UNCHANGED <<shared, pc, dry, num, via, from, sel, mem, clean, soft, failed, exit, runs, history>>

Begin(p) ==
    /\ pc[p] = "loop"
    /\ at[p] < NMod
    /\ at[p] \in sel[p]
    /\ pc' = [pc EXCEPT ![p] = "running"]
    /\ UNCHANGED <<shared, dry, locals, exit, runs, cleanAt, threwAt>>

(* A clean module advances the resume file (in two steps: the ofstream     *)
(* truncates, then the index is written) and is recorded in memory.  A dry *)
(* run, which did nothing, writes no file but makes the entry all the same.*)
ReturnClean(p) ==
    /\ pc[p] = "running"
    /\ clean' = [clean EXCEPT ![p] = @ \cup {at[p]}]
    /\ IF dry[p]
         THEN /\ pc' = [pc EXCEPT ![p] = "loop"]
              /\ at' = [at EXCEPT ![p] = @ + 1]
              /\ mem' = [mem EXCEPT ![p][at[p]] = num[p]]
              /\ UNCHANGED <<stateFile, cleanAt>>
         ELSE /\ pc' = [pc EXCEPT ![p] = "stamping"]
              /\ stateFile' = EmptyState
              /\ cleanAt' = [cleanAt EXCEPT ![at[p]] = num[p]]
              /\ UNCHANGED <<at, mem>>
    /\ UNCHANGED <<lock, manifest, dry, num, via, from, sel, soft, failed, exit, runs, threwAt>>

(* Faults: the index written is the next one; the manifest is forgotten.   *)
RecordNext(p) ==
    /\ pc[p] = "stamping"
    /\ stateFile' = at[p] + 1
    /\ mem' = [mem EXCEPT ![p][at[p]] = num[p]]
    /\ at' = [at EXCEPT ![p] = @ + 1]
    /\ pc' = [pc EXCEPT ![p] = "loop"]
    /\ UNCHANGED <<lock, manifest, dry, num, via, from, sel, clean, soft, failed, exit, runs, history>>

RecordResumeOnly(p) ==
    /\ pc[p] = "stamping"
    /\ stateFile' = at[p]
    /\ at' = [at EXCEPT ![p] = @ + 1]
    /\ pc' = [pc EXCEPT ![p] = "loop"]
    /\ UNCHANGED <<lock, manifest, dry, num, via, from, sel, mem, clean, soft, failed, exit, runs, history>>

RecordDone(p) ==
    /\ pc[p] = "stamping"
    /\ stateFile' = at[p]
    /\ mem' = [mem EXCEPT ![p][at[p]] = num[p]]
    /\ at' = [at EXCEPT ![p] = @ + 1]
    /\ pc' = [pc EXCEPT ![p] = "loop"]
    /\ UNCHANGED <<lock, manifest, dry, num, via, from, sel, clean, soft, failed, exit, runs, history>>

(* Fault: the loop does not move on from a module that reported errors.    *)
ReturnIncompleteAgain(p) ==
    /\ pc[p] = "running"
    /\ soft' = [soft EXCEPT ![p] = @ \cup {at[p]}]
    /\ pc' = [pc EXCEPT ![p] = "loop"]
    /\ UNCHANGED <<shared, dry, num, via, from, sel, at, mem, clean, failed, exit, runs, history>>

(* It printed an error but returned: noted, not stamped as done.           *)
ReturnIncomplete(p) ==
    /\ pc[p] = "running"
    /\ soft' = [soft EXCEPT ![p] = @ \cup {at[p]}]
    /\ at' = [at EXCEPT ![p] = @ + 1]
    /\ pc' = [pc EXCEPT ![p] = "loop"]
    /\ UNCHANGED <<shared, dry, num, via, from, sel, mem, clean, failed, exit, runs, cleanAt, threwAt>>

(* preflight found a critical health failure: return 1 on the spot.        *)
RefuseRun(p) ==
    /\ pc[p] = "running"
    /\ at[p] = Preflight
    /\ End(p, "refused", 1)

(* render protecting live edits: std::exit(2), never in a dry run.         *)
ExitInModule(p) ==
    /\ pc[p] = "running"
    /\ at[p] \in Exits
    /\ ~dry[p]
    /\ End(p, "exited", 2)

(* An exception leaves the loop; the resume file is not advanced.          *)
Throw(p) ==
    /\ pc[p] = "running"
    /\ failed' = [failed EXCEPT ![p] = TRUE]
    /\ pc' = [pc EXCEPT ![p] = "done"]
    /\ threwAt' = IF dry[p] THEN threwAt ELSE at[p]
    /\ UNCHANGED <<shared, dry, num, via, from, sel, at, mem, clean, soft, exit, runs, cleanAt>>

EndOfLoop(p) ==
    /\ pc[p] = "loop"
    /\ at[p] = NMod
    /\ pc' = [pc EXCEPT ![p] = "done"]
    /\ UNCHANGED <<shared, dry, locals, exit, runs, history>>

-----------------------------------------------------------------------------
(***************************************************************************)
(* After the loop.                                                         *)
(***************************************************************************)
ClearResume(p) ==
    /\ pc[p] = "done"
    /\ stateFile' = IF ~failed[p] /\ ~dry[p] THEN NoState ELSE stateFile
    /\ pc' = [pc EXCEPT ![p] = "saving"]
    /\ UNCHANGED <<lock, manifest, dry, locals, exit, runs, history>>

(* Fault: a preview saves its manifest, too.                               *)
PublishAlways(p) ==
    /\ pc[p] = "saving"
    /\ manifest' = mem[p]
    /\ pc' = [pc EXCEPT ![p] = "published"]
    /\ UNCHANGED <<lock, stateFile, dry, locals, exit, runs, history>>

(* state::write replaces the file by a rename; a failure only warns.       *)
Publish(p) ==
    /\ pc[p] = "saving"
    /\ ~dry[p]
    /\ manifest' = mem[p]
    /\ pc' = [pc EXCEPT ![p] = "published"]
    /\ UNCHANGED <<lock, stateFile, dry, locals, exit, runs, history>>

PublishNothing(p) ==
    /\ pc[p] = "saving"
    /\ pc' = [pc EXCEPT ![p] = "unpublished"]
    /\ UNCHANGED <<shared, dry, locals, exit, runs, history>>

(* Fault: modules that reported errors do not count.                       *)
ExitCodeLax(p) == IF failed[p] THEN 1 ELSE 0

ExitCode(p) ==
    IF failed[p] THEN 1 ELSE IF soft[p] = {} \/ dry[p] THEN 0 ELSE 3

Finish(p) ==
    /\ pc[p] \in {"published", "unpublished"}
    /\ End(p, "finished", ExitCode(p))

-----------------------------------------------------------------------------
(***************************************************************************)
(* The environment: a run is killed (SIGKILL, power, a closed terminal),   *)
(* or the manifest is deleted or damaged, which reads as an empty one.     *)
(***************************************************************************)
Kill(p) ==
    /\ pc[p] \in Active
    /\ End(p, "killed", NoExit)

LoseManifest ==
    /\ manifest # EmptyManifest
    /\ manifest' = EmptyManifest
    /\ UNCHANGED <<lock, stateFile, pc, dry, locals, exit, runs, history>>

Step(p) ==
    \/ ReadManifest(p) \/ LeaveAtPlan(p) \/ Plan(p)
    \/ Skip(p) \/ Begin(p) \/ ReturnClean(p) \/ RecordDone(p) \/ ReturnIncomplete(p)
    \/ RefuseRun(p) \/ ExitInModule(p) \/ Throw(p) \/ EndOfLoop(p)
    \/ ClearResume(p) \/ Publish(p) \/ PublishNothing(p) \/ Finish(p)

Start(p) == StartDry(p) \/ StartLocked(p) \/ StartLockedOut(p)

(* Nothing is running and the bound on invocations is reached.             *)
Quiescent ==
    /\ runs = MaxRuns
    /\ \A p \in Proc : pc[p] \in Ended
    /\ UNCHANGED vars

Next ==
    \/ \E p \in Proc : Start(p) \/ Step(p) \/ Kill(p)
    \/ LoseManifest
    \/ Quiescent

Spec == Init /\ [][Next]_vars

(* A started invocation keeps taking steps: its modules return.  Nothing   *)
(* is assumed of starts, kills or the manifest's loss.                     *)
FairSpec == Spec /\ \A p \in Proc : WF_vars(Step(p))

-----------------------------------------------------------------------------
(***************************************************************************)
(* Properties.                                                             *)
(***************************************************************************)
Real(p) == pc[p] \in Active /\ ~dry[p]
Informed(p) == Real(p) /\ pc[p] # "started"   \* a real run that has read the manifest
Planned(p) == {m \in sel[p] : m >= from[p]}

(* Two real runs are never in flight at once, and whoever is holds the     *)
(* lock: dispatcher and modules all assume one install at a time.          *)
OneRealRun == \A p \in Proc : Real(p) <=> lock = p

(* The manifest, on disk and in the memory of a real run, never claims a   *)
(* completion that did not happen: a module with an entry ran clean in     *)
(* that run or in a later one.  Modules that errored, threw, were killed   *)
(* or were only previewed are not recorded as done.                        *)
ManifestTruthful ==
    \A m \in Mod : /\ manifest[m] <= cleanAt[m]
                   /\ \A p \in Proc : Informed(p) => mem[p][m] <= cleanAt[m]

(* A module being executed is one the run selected.                        *)
AtSelected == \A p \in Proc : pc[p] \in {"running", "stamping"} => at[p] \in sel[p]

(* Once it has read the manifest, a real run remembers at least what the   *)
(* file says: nothing was added to the file behind its back.               *)
MemoryCovers ==
    \A p \in Proc : Informed(p) => \A m \in Mod : manifest[m] <= mem[p][m]

(* Nothing is recorded ahead of time: a module's last clean execution is   *)
(* not later than the latest run, nor than a real run that is in flight.   *)
Chronology ==
    /\ \A m \in Mod : cleanAt[m] <= runs
    /\ \A p \in Proc : Real(p) => num[p] <= runs /\ \A m \in Mod : cleanAt[m] <= num[p]

(* Between a module's clean return and its entry, no other run gets to     *)
(* execute it: what RecordDone is about to record is still the latest.     *)
StampCurrent ==
    \A p \in Proc : pc[p] = "stamping" /\ ~dry[p] => cleanAt[at[p]] = num[p]

(* The inductive invariant behind the manifest's safety.                   *)
IInv ==
    /\ TypeOK /\ AtSelected /\ OneRealRun
    /\ Chronology /\ StampCurrent /\ ManifestTruthful /\ MemoryCovers

(* No installer makes the manifest forget a module or go back on it:       *)
(* overlapping invocations cannot overwrite each other's entries.  Only    *)
(* damage from outside, which no invocation takes part in, may.            *)
NoLostUpdate ==
    [][pc' # pc => \A m \in Mod : manifest'[m] >= manifest[m]]_vars

(* A run that saves its manifest puts every module it completed on record  *)
(* at its latest execution, partial failure or not, whatever ran before.   *)
SavedRunsAreRecorded ==
    [][\A p \in Proc :
         pc[p] = "saving" /\ pc'[p] = "published" =>
            \A m \in clean[p] : manifest'[m] = cleanAt[m]]_vars

(* Exit code 0 of a real run means nothing was left undone: every planned  *)
(* module from the starting point on ran clean.  3 means that all of them  *)
(* ran and some reported errors.  Either way there is nothing to resume.   *)
ExitCodeHonest ==
    [][\A p \in Proc :
         pc[p] # "finished" /\ pc'[p] = "finished" /\ ~dry[p] =>
            /\ exit'[p] = 0 => clean[p] = Planned(p)
            /\ exit'[p] = 3 => clean[p] \cup soft[p] = Planned(p) /\ clean[p] # Planned(p)
            /\ exit'[p] # 1 => stateFile = NoState]_vars

(* A dry run changes nothing outside its own process, also while a real    *)
(* run is in the middle of its work.                                       *)
DryRunIsInert ==
    [][\A p \in Proc : dry[p] /\ pc[p] \in Active /\ pc'[p] # pc[p] =>
          UNCHANGED <<shared, history>>]_vars

(* As soon as a real run has completed a module, the resume file is its    *)
(* own: it names a module this run completed and nothing the run planned   *)
(* and did not reach lies before the resume point.                         *)
ResumePointIsBehind ==
    \A p \in Proc :
        Real(p) /\ pc[p] \in {"loop", "running"} /\ clean[p] # {} =>
            /\ stateFile \in clean[p]
            /\ \A m \in Planned(p) : m <= stateFile => m \in clean[p] \cup soft[p]

(* Every invocation that starts ends, given that its modules return, and   *)
(* so the lock is not held for ever.                                       *)
EveryRunEnds ==
    /\ \A p \in Proc : pc[p] \in Active ~> pc[p] \in Ended
    /\ \A p \in Proc : lock = p ~> lock # p

(* The dispatcher implements the ledger: every step of any invocation is   *)
(* a step of the one installer that holds the lock, or invisible.          *)
Ledger == INSTANCE InstallLedger WITH
    Installer <- Proc, Nobody <- NoProc, Item <- Mod,
    holder <- lock, ledger <- manifest, completed <- cleanAt

LedgerSpec == Ledger!LSpec

-----------------------------------------------------------------------------
(***************************************************************************)
(* What the comments in fox-install.cpp say of --resume.                   *)
(***************************************************************************)
Resumes(p) == pc[p] = "planning" /\ pc'[p] = "loop" /\ via'[p] = "resume"

(* "On failure, we don't advance the state_file so --resume will retry the *)
(* failing module": a selected module at which the latest real run threw   *)
(* is not before the point a --resume starts from.                         *)
ResumeRetriesFailing ==
    [][\A p \in Proc : Resumes(p) /\ threwAt \in sel'[p] => threwAt >= from'[p]]_vars
=============================================================================
