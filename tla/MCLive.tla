------------------------------- MODULE MCLive -------------------------------
(* Model-checking instance of the parts with liveness properties:          *)
(* fox-pulse's loop, fox-drawer's picker, and one invocation at a time of  *)
(* fox-install's dispatcher (Inst).  They share no state: a run explores   *)
(* one of them (focus) while the others stay where they start.             *)
EXTENDS Pulse, Picker

VARIABLES focus, lock, stateFile, manifest, instPc, dry, num, via, from, sel, at, mem,
          clean, soft, failed, exit, runs, cleanAt, threwAt

Inst == INSTANCE InstallRun WITH Proc <- {"run"}, NoProc <- "nobody", NMod <- 2, Preflight <- 0,
                                 Exits <- {1}, MaxRuns <- 2, pc <- instPc

instVars == <<lock, stateFile, manifest, instPc, dry, num, via, from, sel, at, mem,
              clean, soft, failed, exit, runs, cleanAt, threwAt>>
liveVars == <<focus, vars, pickVars, instVars>>

LiveInit ==
    /\ focus \in {"pulse", "picker", "install"}
    /\ Init /\ PickInit /\ Inst!Init
    /\ focus # "pulse" => peer /\ watched

(* The picker's processes may all be gone.                                 *)
LiveNext ==
    \/ focus = "pulse" /\ Next /\ UNCHANGED <<focus, pickVars, instVars>>
    \/ focus = "picker" /\ PickNext /\ UNCHANGED <<focus, vars, instVars>>
    \/ focus = "install" /\ Inst!Next /\ UNCHANGED <<focus, vars, pickVars>>
    \/ focus = "picker" /\ UNCHANGED liveVars

(* The fairness of Pulse, Picker and InstallRun, for the part in focus.    *)
LiveFairness ==
    /\ WF_vars(focus = "pulse" /\ Daemon) /\ WF_vars(focus = "pulse" /\ IntervalOver)
    /\ \A c \in Class : WF_vars(focus = "pulse" /\ Expire(c))
    /\ \A p \in Pick : WF_pickVars(focus = "picker" /\ PickStep(p)) /\ WF_pickVars(focus = "picker" /\ Deadline(p))
    /\ WF_instVars(focus = "install" /\ Inst!Step("run"))

LiveSpec == LiveInit /\ [][LiveNext]_liveVars /\ LiveFairness

(* A started invocation comes to an end, whatever its modules do.          *)
EveryRunEnds == Inst!EveryRunEnds
=============================================================================
