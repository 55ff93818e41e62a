-------------------------- MODULE InstallRunProofs --------------------------
(***************************************************************************)
(* Proofs about InstallRun, for any set of invocations, any registry and   *)
(* any number of runs.                                                     *)
(***************************************************************************)
EXTENDS InstallRun, TLAPS

(***************************************************************************)
(* Typing.                                                                 *)
(***************************************************************************)
LEMMA InitTypeOK == Init => TypeOK
<1> SUFFICES ASSUME Init PROVE TypeOK
  OBVIOUS
<1> USE NModAssumption DEF Init, Mod, EmptyManifest
<1>1. SharedOK
  BY DEF SharedOK
<1>2. ControlOK
  BY DEF ControlOK, Ended
<1>3. LocalsOK
  BY DEF LocalsOK
<1>4. HistoryOK
  BY DEF HistoryOK
<1>5. QED
  BY <1>1, <1>2, <1>3, <1>4 DEF TypeOK

LEMMA UnchangedLocals == LocalsOK /\ UNCHANGED locals => LocalsOK'
  BY DEF LocalsOK, locals

LEMMA UnchangedHistory == HistoryOK /\ UNCHANGED history => HistoryOK'
  BY DEF HistoryOK, history

LEMMA UnchangedShared == SharedOK /\ UNCHANGED shared => SharedOK'
  BY DEF SharedOK, shared

(* A process that ends leaves everything well typed.                       *)
LEMMA EndType ==
  ASSUME TypeOK, NEW p \in Proc, NEW how \in Ended,
         NEW code \in {NoExit, 0, 1, 2, 3}, End(p, how, code)
  PROVE  TypeOK'
<1> USE NModAssumption DEF TypeOK, End
<1>1. SharedOK'
  BY DEF SharedOK
<1>2. ControlOK'
  BY DEF ControlOK
<1>3. LocalsOK'
  BY DEF LocalsOK, EmptyManifest, Mod
<1>4. HistoryOK'
  BY UnchangedHistory
<1>5. QED
  BY <1>1, <1>2, <1>3, <1>4

LEMMA StartType ==
  ASSUME TypeOK, NEW p \in Proc, Start(p)
  PROVE  TypeOK'
<1> USE DEF TypeOK, Start, StartDry, StartLocked, StartLockedOut, Fresh
<1>1. SharedOK'
  BY DEF SharedOK
<1>2. ControlOK'
  <2>1. CASE StartDry(p)
    BY <2>1 DEF ControlOK, Active
  <2>2. CASE StartLocked(p)
    BY <2>2 DEF ControlOK, Active
  <2>3. CASE StartLockedOut(p)
    BY <2>3 DEF ControlOK, Ended
  <2>4. QED
    BY <2>1, <2>2, <2>3
<1>3. LocalsOK'
  BY DEF LocalsOK, ControlOK
<1>4. HistoryOK'
  BY UnchangedHistory
<1>5. QED
  BY <1>1, <1>2, <1>3, <1>4

LEMMA EnterLoopType ==
  ASSUME TypeOK, NEW p \in Proc, NEW how \in {"top", "resume", "phase"},
         NEW first \in 0..NMod, EnterLoop(p, how, first)
  PROVE  TypeOK'
<1> USE DEF TypeOK, EnterLoop
<1>1. SharedOK'
  BY UnchangedShared
<1>2. ControlOK'
  BY DEF ControlOK, Active
<1>3. LocalsOK'
  BY DEF LocalsOK
<1>4. HistoryOK'
  BY DEF HistoryOK
<1>5. QED
  BY <1>1, <1>2, <1>3, <1>4

LEMMA PlanType ==
  ASSUME TypeOK, NEW p \in Proc, Plan(p)
  PROVE  TypeOK'
<1>1. ResumePoint \in 0..NMod
  BY NModAssumption DEF ResumePoint, TypeOK, SharedOK, Mod
<1>2. 0 \in 0..NMod /\ Mod \subseteq 0..NMod
  BY NModAssumption DEF Mod
<1>3. QED
  BY <1>1, <1>2, EnterLoopType DEF Plan

(* The steps of the loop that are not the end of the process.              *)
LEMMA LoopType ==
  ASSUME TypeOK, AtSelected, NEW p \in Proc,
         \/ Skip(p) \/ Begin(p) \/ ReturnClean(p) \/ RecordDone(p)
         \/ ReturnIncomplete(p) \/ Throw(p) \/ EndOfLoop(p)
  PROVE  TypeOK'
<1> USE NModAssumption DEF TypeOK
<1>1. ASSUME pc[p] \in {"running", "stamping"}
      PROVE  at[p] \in Mod /\ at[p] + 1 \in 0..NMod
  BY <1>1 DEF AtSelected, LocalsOK, Mod
<1>2. CASE Skip(p)
  <2>1. LocalsOK'
    BY <1>2 DEF Skip, LocalsOK
  <2>2. SharedOK' /\ ControlOK' /\ HistoryOK'
    BY <1>2, UnchangedShared, UnchangedHistory DEF Skip, ControlOK
  <2>3. QED
    BY <2>1, <2>2
<1>3. CASE Begin(p)
  <2>1. ControlOK' /\ HistoryOK'
    BY <1>3 DEF Begin, ControlOK, HistoryOK, Active
  <2>2. SharedOK' /\ LocalsOK'
    BY <1>3, UnchangedShared, UnchangedLocals DEF Begin, locals
  <2>3. QED
    BY <2>1, <2>2
<1>4. CASE ReturnClean(p)
  <2> USE <1>4, <1>1 DEF ReturnClean
  <2>1. SharedOK'
    BY DEF SharedOK
  <2>2. ControlOK'
    BY DEF ControlOK, Active
  <2>3. LocalsOK'
    <3>1. num[p] \in Nat /\ mem[p] \in [Mod -> Nat]
      BY DEF LocalsOK
    <3>2. [mem[p] EXCEPT ![at[p]] = num[p]] \in [Mod -> Nat]
      BY <3>1
    <3>3. mem' \in [Proc -> [Mod -> Nat]]
      BY <3>2 DEF LocalsOK
    <3>4. UNCHANGED <<num, via, from, sel, soft, failed>>
      OBVIOUS
    <3>5. at' \in [Proc -> 0..NMod] /\ clean' \in [Proc -> SUBSET Mod]
      BY DEF LocalsOK
    <3>6. QED
      BY <3>3, <3>4, <3>5 DEF LocalsOK
  <2>4. HistoryOK'
    <3>1. num[p] \in Nat
      BY DEF LocalsOK
    <3>2. cleanAt' \in [Mod -> Nat]
      BY <3>1 DEF HistoryOK
    <3>3. QED
      BY <3>2 DEF HistoryOK
  <2>5. QED
    BY <2>1, <2>2, <2>3, <2>4
<1>5. CASE RecordDone(p)
  <2> USE <1>5, <1>1 DEF RecordDone
  <2>1. SharedOK'
    BY DEF SharedOK
  <2>2. ControlOK'
    BY DEF ControlOK, Active
  <2>3. LocalsOK'
    BY DEF LocalsOK, HistoryOK
  <2>4. HistoryOK'
    BY UnchangedHistory
  <2>5. QED
    BY <2>1, <2>2, <2>3, <2>4
<1>6. CASE ReturnIncomplete(p)
  <2> USE <1>6, <1>1 DEF ReturnIncomplete
  <2>1. ControlOK'
    BY DEF ControlOK, Active
  <2>2. LocalsOK'
    BY DEF LocalsOK
  <2>3. SharedOK' /\ HistoryOK'
    BY UnchangedShared DEF HistoryOK
  <2>4. QED
    BY <2>1, <2>2, <2>3
<1>7. CASE Throw(p)
  <2> USE <1>7, <1>1 DEF Throw
  <2>1. ControlOK'
    BY DEF ControlOK, Active
  <2>2. LocalsOK'
    BY DEF LocalsOK
  <2>3. SharedOK' /\ HistoryOK'
    BY UnchangedShared DEF HistoryOK
  <2>4. QED
    BY <2>1, <2>2, <2>3
<1>8. CASE EndOfLoop(p)
  BY <1>8, UnchangedShared, UnchangedHistory, UnchangedLocals
     DEF EndOfLoop, ControlOK, Active, locals
<1>9. QED
  BY <1>2, <1>3, <1>4, <1>5, <1>6, <1>7, <1>8

(* The steps before and after the loop.                                    *)
LEMMA RestType ==
  ASSUME TypeOK, NEW p \in Proc,
         \/ ReadManifest(p) \/ ClearResume(p) \/ Publish(p) \/ PublishNothing(p)
  PROVE  TypeOK'
<1> USE DEF TypeOK
<1>1. CASE ReadManifest(p)
  <2>1. ControlOK' /\ LocalsOK'
    BY <1>1 DEF ReadManifest, ControlOK, LocalsOK, SharedOK, Active
  <2>2. SharedOK' /\ HistoryOK'
    BY <1>1, UnchangedShared, UnchangedHistory DEF ReadManifest
  <2>3. QED
    BY <2>1, <2>2
<1>2. CASE ClearResume(p)
  BY <1>2, UnchangedLocals, UnchangedHistory DEF ClearResume, SharedOK, ControlOK, Active
<1>3. CASE Publish(p)
  BY <1>3, UnchangedLocals, UnchangedHistory DEF Publish, SharedOK, ControlOK, LocalsOK, Active
<1>4. CASE PublishNothing(p)
  BY <1>4, UnchangedShared, UnchangedLocals, UnchangedHistory
     DEF PublishNothing, ControlOK, Active
<1>5. QED
  BY <1>1, <1>2, <1>3, <1>4

LEMMA LoseType == TypeOK /\ LoseManifest => TypeOK'
<1> SUFFICES ASSUME TypeOK, LoseManifest PROVE TypeOK'
  OBVIOUS
<1>1. SharedOK'
  BY DEF TypeOK, SharedOK, LoseManifest, EmptyManifest
<1>2. QED
  BY <1>1, UnchangedLocals, UnchangedHistory DEF TypeOK, LoseManifest, ControlOK

(* The ways a process ends.                                                *)
EndsNow(p) == LeaveAtPlan(p) \/ RefuseRun(p) \/ ExitInModule(p) \/ Finish(p) \/ Kill(p)

LEMMA EndsByEnd ==
  ASSUME NEW p \in Proc, EndsNow(p)
  PROVE  /\ pc[p] \in Active
         /\ \E how \in Ended, code \in {NoExit, 0, 1, 2, 3} : End(p, how, code)
<1> USE DEF Active, Ended
<1>1. CASE LeaveAtPlan(p)
  BY <1>1 DEF LeaveAtPlan
<1>2. CASE RefuseRun(p)
  BY <1>2 DEF RefuseRun
<1>3. CASE ExitInModule(p)
  BY <1>3 DEF ExitInModule
<1>4. CASE Finish(p)
  BY <1>4 DEF Finish, ExitCode
<1>5. CASE Kill(p)
  BY <1>5 DEF Kill
<1>6. QED
  BY <1>1, <1>2, <1>3, <1>4, <1>5 DEF EndsNow

(* Every step is one of these.                                             *)
LEMMA StepCases ==
  ASSUME Next
  PROVE  \/ \E p \in Proc :
              \/ Start(p) \/ EndsNow(p) \/ ReadManifest(p) \/ Plan(p)
              \/ Skip(p) \/ Begin(p) \/ ReturnClean(p) \/ RecordDone(p)
              \/ ReturnIncomplete(p) \/ Throw(p) \/ EndOfLoop(p)
              \/ ClearResume(p) \/ Publish(p) \/ PublishNothing(p)
         \/ LoseManifest
         \/ UNCHANGED vars
  BY DEF Next, Step, EndsNow, Quiescent

LEMMA StutterInv ==
  ASSUME IInv, UNCHANGED vars
  PROVE  IInv'
  BY DEF IInv, TypeOK, SharedOK, ControlOK, LocalsOK, HistoryOK, AtSelected, OneRealRun, Chronology, StampCurrent, Real,
         ManifestTruthful, MemoryCovers, Informed, vars

LEMMA TypeStep ==
  ASSUME TypeOK, AtSelected, [Next]_vars
  PROVE  TypeOK'
<1>1. CASE UNCHANGED vars
  BY <1>1, UnchangedShared, UnchangedLocals, UnchangedHistory
     DEF TypeOK, ControlOK, vars, shared, locals, history
<1>2. ASSUME NEW p \in Proc, EndsNow(p)
      PROVE  TypeOK'
  BY <1>2, EndsByEnd, EndType
<1>3. QED
  BY <1>1, <1>2, StepCases, StartType, PlanType, LoopType, RestType, LoseType

(***************************************************************************)
(* A module being executed is one that was selected.                       *)
(***************************************************************************)
LEMMA AtSelectedStep ==
  ASSUME TypeOK, AtSelected, [Next]_vars
  PROVE  AtSelected'
<1> USE DEF TypeOK, ControlOK, LocalsOK, AtSelected, Ended
<1>1. CASE UNCHANGED vars \/ LoseManifest
  BY <1>1 DEF vars, LoseManifest, locals
<1>2. ASSUME NEW p \in Proc, EndsNow(p)
      PROVE  AtSelected'
  <2>1. PICK how \in Ended, code \in {NoExit, 0, 1, 2, 3} : End(p, how, code)
    BY <1>2, EndsByEnd
  <2>2. how \notin {"running", "stamping"}
    OBVIOUS
  <2>3. QED
    BY <2>1, <2>2 DEF End
<1>3. ASSUME NEW p \in Proc, Start(p)
      PROVE  AtSelected'
  BY <1>3 DEF Start, StartDry, StartLocked, StartLockedOut, Fresh, locals
<1>4. ASSUME NEW p \in Proc, Plan(p)
      PROVE  AtSelected'
  BY <1>4 DEF Plan, EnterLoop
<1>5. ASSUME NEW p \in Proc, Skip(p) \/ Begin(p) \/ EndOfLoop(p)
      PROVE  AtSelected'
  BY <1>5 DEF Skip, Begin, EndOfLoop, locals
<1>6. ASSUME NEW p \in Proc,
             ReturnClean(p) \/ RecordDone(p) \/ ReturnIncomplete(p) \/ Throw(p)
      PROVE  AtSelected'
  <2>1. CASE ReturnClean(p)
    BY <2>1 DEF ReturnClean
  <2>2. CASE RecordDone(p)
    BY <2>2 DEF RecordDone
  <2>3. CASE ReturnIncomplete(p)
    BY <2>3 DEF ReturnIncomplete
  <2>4. CASE Throw(p)
    BY <2>4 DEF Throw
  <2>5. QED
    BY <1>6, <2>1, <2>2, <2>3, <2>4
<1>7. ASSUME NEW p \in Proc,
             ReadManifest(p) \/ ClearResume(p) \/ Publish(p) \/ PublishNothing(p)
      PROVE  AtSelected'
  BY <1>7 DEF ReadManifest, ClearResume, Publish, PublishNothing, locals
<1>8. QED
  BY <1>1, <1>2, <1>3, <1>4, <1>5, <1>6, <1>7, StepCases

(***************************************************************************)
(* The lock.  Real(p) depends on pc and dry only; a process that goes on   *)
(* neither gains nor loses it, one that ends gives up the lock.            *)
(***************************************************************************)
LEMMA GoesOn ==
  ASSUME NEW p \in Proc,
         \/ ReadManifest(p) \/ Plan(p) \/ Skip(p) \/ Begin(p) \/ ReturnClean(p)
         \/ RecordDone(p) \/ ReturnIncomplete(p) \/ Throw(p) \/ EndOfLoop(p)
         \/ ClearResume(p) \/ Publish(p) \/ PublishNothing(p)
  PROVE  /\ UNCHANGED <<lock, dry>>
         /\ pc[p] \in Active
         /\ \E l \in Active : pc' = [pc EXCEPT ![p] = l] \/ pc' = pc
<1> USE DEF Active, shared
<1>1. CASE ReadManifest(p)
  BY <1>1 DEF ReadManifest
<1>2. CASE Plan(p)
  BY <1>2 DEF Plan, EnterLoop
<1>3. CASE Skip(p) \/ Begin(p) \/ EndOfLoop(p)
  BY <1>3 DEF Skip, Begin, EndOfLoop
<1>4. CASE ReturnClean(p) \/ RecordDone(p)
  BY <1>4 DEF ReturnClean, RecordDone
<1>5. CASE ReturnIncomplete(p) \/ Throw(p)
  BY <1>5 DEF ReturnIncomplete, Throw
<1>6. CASE ClearResume(p) \/ Publish(p) \/ PublishNothing(p)
  BY <1>6 DEF ClearResume, Publish, PublishNothing
<1>7. QED
  BY <1>1, <1>2, <1>3, <1>4, <1>5, <1>6

LEMMA LockStep ==
  ASSUME TypeOK, OneRealRun, [Next]_vars
  PROVE  OneRealRun'
<1> USE NoProcAssumption DEF TypeOK, SharedOK, ControlOK, OneRealRun, Real
<1>1. CASE UNCHANGED vars \/ LoseManifest
  BY <1>1 DEF vars, LoseManifest
<1>2. ASSUME NEW p \in Proc, EndsNow(p)
      PROVE  OneRealRun'
  <2>1. PICK how \in Ended, code \in {NoExit, 0, 1, 2, 3} : End(p, how, code)
    BY <1>2, EndsByEnd
  <2>2. how \notin Active
    BY DEF Active, Ended
  <2>3. QED
    BY <2>1, <2>2 DEF End
<1>3. ASSUME NEW p \in Proc, Start(p)
      PROVE  OneRealRun'
  <2> USE DEF Active, Ended, Fresh
  <2>1. CASE StartDry(p)
    BY <2>1 DEF StartDry
  <2>2. CASE StartLocked(p)
    BY <2>2 DEF StartLocked
  <2>3. CASE StartLockedOut(p)
    BY <2>3 DEF StartLockedOut
  <2>4. QED
    BY <1>3, <2>1, <2>2, <2>3 DEF Start
<1>4. ASSUME NEW p \in Proc, UNCHANGED <<lock, dry>>, pc[p] \in Active,
             NEW l \in Active, pc' = [pc EXCEPT ![p] = l] \/ pc' = pc
      PROVE  OneRealRun'
  BY <1>4
<1>5. QED
  BY <1>1, <1>2, <1>3, <1>4, GoesOn, StepCases

(***************************************************************************)
(* The manifest: truthful, and covered by the memory of whoever may write  *)
(* it.  Both are disturbed only by the steps that touch manifest, mem or   *)
(* cleanAt, or let a real run get past "started".                            *)
(***************************************************************************)
LedgerInv == ManifestTruthful /\ MemoryCovers

LEMMA LedgerFrame ==
  ASSUME TypeOK, TypeOK', LedgerInv, UNCHANGED manifest,
         \A m \in Mod : cleanAt[m] <= cleanAt'[m],
         \A q \in Proc : Informed(q)' => Informed(q) /\ mem'[q] = mem[q]
  PROVE  LedgerInv'
<1> USE DEF LedgerInv
<1>1. /\ \A m \in Mod : cleanAt[m] \in Int /\ cleanAt'[m] \in Int /\ manifest[m] \in Int
      /\ \A q \in Proc : \A m \in Mod : mem[q][m] \in Int
  BY DEF TypeOK, SharedOK, LocalsOK, HistoryOK
<1>2. ManifestTruthful'
  BY <1>1 DEF ManifestTruthful
<1>3. MemoryCovers'
  BY DEF MemoryCovers
<1>4. QED
  BY <1>2, <1>3

LEMMA CleanAtReflexive ==
  ASSUME TypeOK, UNCHANGED cleanAt
  PROVE  \A m \in Mod : cleanAt[m] <= cleanAt'[m]
  BY DEF TypeOK, HistoryOK

(* Only ReturnClean changes cleanAt, and only a start lets a run become    *)
(* real or renumbers it, with a number above every earlier one.            *)
LEMMA ChronologyStep ==
  ASSUME TypeOK, TypeOK', AtSelected, OneRealRun, Chronology, [Next]_vars
  PROVE  Chronology'
<1>1. ASSUME UNCHANGED <<cleanAt, runs>>,
             \A q \in Proc : Real(q)' => Real(q) /\ num'[q] = num[q]
      PROVE  Chronology'
  BY <1>1 DEF Chronology
<1>2. CASE UNCHANGED vars \/ LoseManifest
  BY <1>2, <1>1 DEF vars, LoseManifest, Real, locals, history
<1>3. ASSUME NEW p \in Proc, EndsNow(p)
      PROVE  Chronology'
  <2>1. PICK how \in Ended, code \in {NoExit, 0, 1, 2, 3} : End(p, how, code)
    BY <1>3, EndsByEnd
  <2>2. how \notin Active
    BY DEF Active, Ended
  <2>3. \A q \in Proc : Real(q)' => Real(q) /\ num'[q] = num[q]
    BY <2>1, <2>2 DEF End, Real, TypeOK, ControlOK, LocalsOK
  <2>4. QED
    BY <2>1, <2>3, <1>1 DEF End, history
<1>4. ASSUME NEW p \in Proc, Start(p)
      PROVE  Chronology'
  <2>1. runs' = runs + 1 /\ UNCHANGED cleanAt /\ num' = [num EXCEPT ![p] = runs + 1]
    BY <1>4 DEF Start, StartDry, StartLocked, StartLockedOut, Fresh, history
  <2>2. \A q \in Proc : q # p /\ Real(q)' => Real(q)
    BY <1>4 DEF Start, StartDry, StartLocked, StartLockedOut, Fresh, Real, TypeOK, ControlOK
  <2>3. /\ runs \in Nat /\ \A m \in Mod : cleanAt[m] \in Nat
        /\ \A q \in Proc : num[q] \in Nat
    BY DEF TypeOK, ControlOK, LocalsOK, HistoryOK
  <2>4. num'[p] = runs + 1 /\ \A q \in Proc : q # p => num'[q] = num[q]
    BY <2>1 DEF TypeOK, LocalsOK
  <2>5. \A m \in Mod : cleanAt'[m] <= runs'
    BY <2>1, <2>3 DEF Chronology
  <2>6. ASSUME NEW q \in Proc, Real(q)'
        PROVE  num'[q] <= runs' /\ \A m \in Mod : cleanAt'[m] <= num'[q]
    <3>1. CASE q = p
      BY <3>1, <2>1, <2>3, <2>4 DEF Chronology
    <3>2. CASE q # p
      BY <3>2, <2>6, <2>1, <2>2, <2>3, <2>4 DEF Chronology
    <3>3. QED
      BY <3>1, <3>2
  <2>7. QED
    BY <2>5, <2>6 DEF Chronology
<1>5. ASSUME NEW p \in Proc, ReturnClean(p)
      PROVE  Chronology'
  <2>1. UNCHANGED <<lock, dry, num, runs>> /\ at[p] \in Mod
    BY <1>5 DEF ReturnClean, AtSelected, TypeOK, LocalsOK
  <2>2. \A q \in Proc : Real(q)' => Real(q)
    BY <1>5 DEF ReturnClean, Real, Active, TypeOK, ControlOK
  <2>3. CASE dry[p]
    BY <1>5, <2>1, <2>2, <2>3, <1>1 DEF ReturnClean
  <2>4. CASE ~dry[p]
    <3>1. Real(p) /\ \A q \in Proc : Real(q) => q = p
      BY <1>5, <2>4 DEF ReturnClean, OneRealRun, Real, Active
    <3>2. \A m \in Mod : cleanAt'[m] = IF m = at[p] THEN num[p] ELSE cleanAt[m]
      BY <1>5, <2>4 DEF ReturnClean, TypeOK, HistoryOK
    <3>3. num[p] <= runs /\ num[p] <= num[p]
      BY <3>1 DEF Chronology, TypeOK, LocalsOK
    <3>4. QED
      BY <2>1, <2>2, <3>1, <3>2, <3>3 DEF Chronology
  <2>5. QED
    BY <2>3, <2>4
<1>6. ASSUME NEW p \in Proc,
             \/ ReadManifest(p) \/ Plan(p) \/ Skip(p) \/ Begin(p) \/ RecordDone(p)
             \/ ReturnIncomplete(p) \/ Throw(p) \/ EndOfLoop(p)
             \/ ClearResume(p) \/ Publish(p) \/ PublishNothing(p)
      PROVE  Chronology'
  <2>1. UNCHANGED <<cleanAt, runs, num, dry>>
    BY <1>6 DEF ReadManifest, Plan, EnterLoop, Skip, Begin, RecordDone, ReturnIncomplete, Throw,
                EndOfLoop, ClearResume, Publish, PublishNothing, shared, locals, history
  <2>2. \A q \in Proc : Real(q)' => Real(q)
    BY <1>6, <2>1, GoesOn DEF Real, TypeOK, ControlOK, Active
  <2>3. QED
    BY <2>1, <2>2, <1>1
<1>7. QED
  BY <1>2, <1>3, <1>4, <1>5, <1>6, StepCases

LEMMA StampStep ==
  ASSUME TypeOK, TypeOK', AtSelected, OneRealRun, StampCurrent, [Next]_vars
  PROVE  StampCurrent'
<1>1. ASSUME UNCHANGED cleanAt,
             \A q \in Proc : pc'[q] = "stamping" =>
                pc[q] = "stamping" /\ at'[q] = at[q] /\ num'[q] = num[q] /\ dry'[q] = dry[q]
      PROVE  StampCurrent'
  BY <1>1 DEF StampCurrent
<1>2. CASE UNCHANGED vars \/ LoseManifest
  BY <1>2, <1>1 DEF vars, LoseManifest, locals, history
<1>3. ASSUME NEW p \in Proc, EndsNow(p)
      PROVE  StampCurrent'
  <2>1. PICK how \in Ended, code \in {NoExit, 0, 1, 2, 3} : End(p, how, code)
    BY <1>3, EndsByEnd
  <2>2. how # "stamping"
    BY DEF Ended
  <2>3. QED
    BY <2>1, <2>2, <1>1 DEF End, history, TypeOK, ControlOK, LocalsOK
<1>4. ASSUME NEW p \in Proc, Start(p)
      PROVE  StampCurrent'
  <2>1. UNCHANGED <<cleanAt, at>>
    BY <1>4 DEF Start, StartDry, StartLocked, StartLockedOut, Fresh, history
  <2>2. \A q \in Proc : pc'[q] = "stamping" => q # p /\ pc[q] = "stamping"
    BY <1>4 DEF Start, StartDry, StartLocked, StartLockedOut, TypeOK, ControlOK
  <2>3. \A q \in Proc : q # p => num'[q] = num[q] /\ dry'[q] = dry[q]
    BY <1>4 DEF Start, StartDry, StartLocked, StartLockedOut, Fresh, TypeOK, ControlOK, LocalsOK
  <2>4. QED
    BY <2>1, <2>2, <2>3, <1>1
<1>5. ASSUME NEW p \in Proc, ReturnClean(p)
      PROVE  StampCurrent'
  <2>1. UNCHANGED <<dry, num>> /\ at[p] \in Mod
    BY <1>5 DEF ReturnClean, AtSelected, TypeOK, LocalsOK
  <2>2. \A q \in Proc : q # p => at'[q] = at[q] /\ pc'[q] = pc[q]
    BY <1>5 DEF ReturnClean, TypeOK, ControlOK, LocalsOK
  <2>3. CASE dry[p]
    BY <1>5, <2>1, <2>2, <2>3, <1>1 DEF ReturnClean, TypeOK, ControlOK
  <2>4. CASE ~dry[p]
    <3>1. \A q \in Proc : pc'[q] = "stamping" /\ ~dry'[q] => q = p
      BY <1>5, <2>1, <2>2, <2>4 DEF ReturnClean, OneRealRun, Real, Active
    <3>2. cleanAt'[at[p]] = num[p] /\ UNCHANGED at
      BY <1>5, <2>1, <2>4 DEF ReturnClean, TypeOK, HistoryOK
    <3>3. QED
      BY <2>1, <3>1, <3>2 DEF StampCurrent
  <2>5. QED
    BY <2>3, <2>4
<1>6. ASSUME NEW p \in Proc,
             \/ ReadManifest(p) \/ Plan(p) \/ Skip(p) \/ Begin(p) \/ RecordDone(p)
             \/ ReturnIncomplete(p) \/ Throw(p) \/ EndOfLoop(p)
             \/ ClearResume(p) \/ Publish(p) \/ PublishNothing(p)
      PROVE  StampCurrent'
  <2>1. UNCHANGED <<cleanAt, num, dry>>
    BY <1>6 DEF ReadManifest, Plan, EnterLoop, Skip, Begin, RecordDone, ReturnIncomplete, Throw,
                EndOfLoop, ClearResume, Publish, PublishNothing, shared, locals, history
  <2>2. \A q \in Proc : q # p => at'[q] = at[q] /\ pc'[q] = pc[q]
    BY <1>6 DEF ReadManifest, Plan, EnterLoop, Skip, Begin, RecordDone, ReturnIncomplete, Throw,
                EndOfLoop, ClearResume, Publish, PublishNothing, locals, TypeOK, ControlOK, LocalsOK
  <2>3. pc'[p] # "stamping"
    BY <1>6 DEF ReadManifest, Plan, EnterLoop, Skip, Begin, RecordDone, ReturnIncomplete, Throw,
                EndOfLoop, ClearResume, Publish, PublishNothing, TypeOK, ControlOK
  <2>4. QED
    BY <2>1, <2>2, <2>3, <1>1
<1>7. QED
  BY <1>2, <1>3, <1>4, <1>5, <1>6, StepCases

LEMMA LedgerStep ==
  ASSUME TypeOK, TypeOK', AtSelected, OneRealRun, Chronology, StampCurrent, LedgerInv, [Next]_vars
  PROVE  LedgerInv'
<1> USE NModAssumption
<1>1. CASE UNCHANGED vars
  BY <1>1 DEF LedgerInv, ManifestTruthful, MemoryCovers, Informed, Real, vars
<1>2. CASE LoseManifest
  <2>1. /\ \A m \in Mod : manifest'[m] = 0
        /\ UNCHANGED <<mem, cleanAt>>
        /\ \A q \in Proc : Informed(q)' = Informed(q)
    BY <1>2 DEF LoseManifest, EmptyManifest, Informed, Real, locals, history
  <2>2. /\ \A m \in Mod : 0 <= cleanAt[m]
        /\ \A q \in Proc : \A m \in Mod : 0 <= mem[q][m]
    BY DEF TypeOK, LocalsOK, HistoryOK
  <2>3. ManifestTruthful'
    BY <2>1, <2>2 DEF LedgerInv, ManifestTruthful
  <2>4. MemoryCovers'
    BY <2>1, <2>2 DEF MemoryCovers
  <2>5. QED
    BY <2>3, <2>4 DEF LedgerInv
<1>3. ASSUME NEW p \in Proc, EndsNow(p)
      PROVE  LedgerInv'
  <2>1. PICK how \in Ended, code \in {NoExit, 0, 1, 2, 3} : End(p, how, code)
    BY <1>3, EndsByEnd
  <2>2. how \notin Active
    BY DEF Active, Ended
  <2>3. UNCHANGED <<manifest, cleanAt>>
    BY <2>1 DEF End, history
  <2>4. \A q \in Proc : Informed(q)' => Informed(q) /\ mem'[q] = mem[q]
    BY <2>1, <2>2 DEF End, Informed, Real, TypeOK, ControlOK, LocalsOK
  <2>5. QED
    BY <2>3, <2>4, LedgerFrame, CleanAtReflexive
<1>4. ASSUME NEW p \in Proc, Start(p)
      PROVE  LedgerInv'
  <2>1. UNCHANGED <<manifest, mem, cleanAt>>
    BY <1>4 DEF Start, StartDry, StartLocked, StartLockedOut, Fresh, locals, history
  <2>2. \A q \in Proc : Informed(q)' => Informed(q)
    BY <1>4 DEF Start, StartDry, StartLocked, StartLockedOut, Fresh, Informed, Real, Active, Ended,
                TypeOK, ControlOK
  <2>3. QED
    BY <2>1, <2>2, LedgerFrame, CleanAtReflexive
<1>5. ASSUME NEW p \in Proc, ReadManifest(p)
      PROVE  LedgerInv'
  <2>1. mem'[p] = manifest /\ \A q \in Proc : q # p => mem'[q] = mem[q]
    BY <1>5 DEF ReadManifest, TypeOK, LocalsOK
  <2>2. UNCHANGED <<manifest, cleanAt, dry>>
    BY <1>5 DEF ReadManifest, shared, history
  <2>3. \A q \in Proc : q # p /\ Informed(q)' => Informed(q)
    BY <1>5 DEF ReadManifest, Informed, Real, TypeOK, ControlOK
  <2>4. ManifestTruthful'
    BY <2>1, <2>2, <2>3 DEF ManifestTruthful, LedgerInv
  <2>5. \A m \in Mod : manifest[m] <= manifest[m]
    BY DEF TypeOK, SharedOK
  <2>6. MemoryCovers'
    BY <2>1, <2>2, <2>3, <2>5 DEF MemoryCovers, LedgerInv
  <2>7. QED
    BY <2>4, <2>6 DEF LedgerInv
<1>6. ASSUME NEW p \in Proc, ReturnClean(p)
      PROVE  LedgerInv'
  <2>1. \A m \in Mod : cleanAt[m] <= cleanAt'[m]
    BY <1>6 DEF ReturnClean, Chronology, Real, Active, TypeOK, HistoryOK
  <2>2. UNCHANGED <<manifest, dry>>
    BY <1>6 DEF ReturnClean
  <2>3. \A q \in Proc : Informed(q)' => Informed(q) /\ mem'[q] = mem[q]
    BY <1>6 DEF ReturnClean, Informed, Real, Active, TypeOK, ControlOK, LocalsOK
  <2>4. QED
    BY <2>1, <2>2, <2>3, LedgerFrame
<1>7. ASSUME NEW p \in Proc, RecordDone(p)
      PROVE  LedgerInv'
  <2>1. at[p] \in Mod
    BY <1>7 DEF RecordDone, AtSelected, TypeOK, LocalsOK
  <2>2. mem'[p] = [mem[p] EXCEPT ![at[p]] = num[p]]
    BY <1>7 DEF RecordDone, TypeOK, LocalsOK
  <2>3. \A q \in Proc : q # p => mem'[q] = mem[q]
    BY <1>7 DEF RecordDone, TypeOK, LocalsOK
  <2>4. UNCHANGED <<manifest, cleanAt, dry>>
    BY <1>7 DEF RecordDone, history
  <2>5. \A q \in Proc : Informed(q)' => Informed(q)
    BY <1>7 DEF RecordDone, Informed, Real, Active, TypeOK, ControlOK
  <2>6. /\ \A m \in Mod : mem'[p][m] = IF m = at[p] THEN num[p] ELSE mem[p][m]
        /\ Informed(p) => num[p] = cleanAt[at[p]]
        /\ \A m \in Mod : cleanAt[m] <= cleanAt[m]
    BY <1>7, <2>1, <2>2 DEF RecordDone, StampCurrent, Informed, Real, TypeOK, LocalsOK, HistoryOK
  <2>7. ManifestTruthful'
    BY <2>3, <2>4, <2>5, <2>6 DEF ManifestTruthful, LedgerInv
  <2>8. MemoryCovers'
    BY <2>3, <2>4, <2>5, <2>6 DEF MemoryCovers, ManifestTruthful, LedgerInv
  <2>9. QED
    BY <2>7, <2>8 DEF LedgerInv
<1>8. ASSUME NEW p \in Proc, Publish(p)
      PROVE  LedgerInv'
  <2>1. lock = p /\ Informed(p)
    BY <1>8 DEF Publish, OneRealRun, Informed, Real, Active
  <2>2. \A q \in Proc : Informed(q)' => q = p
    BY <1>8, <2>1 DEF Publish, OneRealRun, Informed, Real, Active, TypeOK, ControlOK
  <2>3. manifest' = mem[p] /\ UNCHANGED <<mem, cleanAt>>
    BY <1>8 DEF Publish, locals, history
  <2>4. \A m \in Mod : mem[p][m] <= mem[p][m]
    BY DEF TypeOK, LocalsOK
  <2>5. ManifestTruthful'
    BY <2>1, <2>2, <2>3 DEF ManifestTruthful, LedgerInv
  <2>6. MemoryCovers'
    BY <2>2, <2>3, <2>4 DEF MemoryCovers
  <2>7. QED
    BY <2>5, <2>6 DEF LedgerInv
<1>9. ASSUME NEW p \in Proc,
             \/ Plan(p) \/ Skip(p) \/ Begin(p) \/ ReturnIncomplete(p)
             \/ Throw(p) \/ EndOfLoop(p) \/ ClearResume(p) \/ PublishNothing(p)
      PROVE  LedgerInv'
  <2>1. UNCHANGED <<manifest, mem, cleanAt, dry>> /\ pc[p] # "started"
    BY <1>9 DEF Plan, EnterLoop, Skip, Begin, ReturnIncomplete, Throw, EndOfLoop, ClearResume,
                PublishNothing, shared, locals, history
  <2>2. \A q \in Proc : Informed(q)' => Informed(q)
    BY <1>9, <2>1, GoesOn DEF Informed, Real, TypeOK, ControlOK, Active
  <2>3. QED
    BY <2>1, <2>2, LedgerFrame, CleanAtReflexive
<1>10. QED
  BY <1>1, <1>2, <1>3, <1>4, <1>5, <1>6, <1>7, <1>8, <1>9, StepCases

(***************************************************************************)
(* The theorems.                                                           *)
(***************************************************************************)

(* The inductive invariant holds in every reachable state.                 *)
THEOREM Inductive == Spec => []IInv
<1>1. Init => IInv
  <2> SUFFICES ASSUME Init PROVE IInv
    OBVIOUS
  <2>1. TypeOK
    BY InitTypeOK
  <2>2. AtSelected /\ OneRealRun
    BY NoProcAssumption DEF Init, AtSelected, OneRealRun, Real, Active
  <2>3. Chronology /\ StampCurrent /\ ManifestTruthful /\ MemoryCovers
    BY DEF Init, Chronology, StampCurrent, ManifestTruthful, MemoryCovers, Informed, Real, Active, EmptyManifest
  <2>4. QED
    BY <2>1, <2>2, <2>3 DEF IInv
<1>2. IInv /\ [Next]_vars => IInv'
  BY TypeStep, AtSelectedStep, LockStep, ChronologyStep, StampStep, LedgerStep DEF IInv, LedgerInv
<1>3. QED
  BY <1>1, <1>2, PTL DEF Spec

(* Every variable keeps its type: the resume file only ever holds an index *)
(* of the registry or nothing, and the loop stays within the registry.     *)
THEOREM TypeCorrect == Spec => []TypeOK
<1>1. IInv => TypeOK
  BY DEF IInv
<1>2. QED
  BY <1>1, Inductive, PTL

(* At most one real run is in flight, and it is the one holding the lock.  *)
THEOREM MutualExclusion == Spec => []OneRealRun
<1>1. IInv => OneRealRun
  BY DEF IInv
<1>2. QED
  BY <1>1, Inductive, PTL

(* The manifest never claims work that was not done.                       *)
THEOREM ManifestIsTruthful == Spec => []ManifestTruthful
<1>1. IInv => ManifestTruthful
  BY DEF IInv
<1>2. QED
  BY <1>1, Inductive, PTL

(* Nothing is added to the file behind a real run's back.                  *)
THEOREM MemoryStaysAhead == Spec => []MemoryCovers
<1>1. IInv => MemoryCovers
  BY DEF IInv
<1>2. QED
  BY <1>1, Inductive, PTL

(* No step of any invocation makes the manifest go back.                   *)
THEOREM NoUpdateIsLost == Spec => NoLostUpdate
<1>1. IInv /\ [Next]_vars => [pc' # pc => \A m \in Mod : manifest'[m] >= manifest[m]]_vars
  <2> SUFFICES ASSUME IInv, Next, pc' # pc, NEW m \in Mod
               PROVE  manifest'[m] >= manifest[m]
    OBVIOUS
  <2> USE DEF IInv, TypeOK, SharedOK
  <2>1. CASE UNCHANGED manifest
    BY <2>1
  <2>2. ASSUME NEW p \in Proc, Publish(p)
        PROVE  manifest'[m] >= manifest[m]
    BY <2>2 DEF Publish, MemoryCovers, Informed, Real, Active, LocalsOK
  <2>3. QED
    BY <2>1, <2>2
       DEF Next, Step, Start, StartDry, StartLocked, StartLockedOut, Fresh, ReadManifest, LeaveAtPlan, Plan,
           EnterLoop, Skip, Begin, ReturnClean, RecordDone, ReturnIncomplete, RefuseRun,
           ExitInModule, Throw, EndOfLoop, ClearResume, PublishNothing, Finish, Kill, End,
           LoseManifest, Quiescent, vars, shared
<1>2. QED
  BY <1>1, Inductive, PTL DEF Spec, NoLostUpdate

(***************************************************************************)
(* Refinement: every step of any invocation is a step of the ledger.       *)
(***************************************************************************)
LEMMA LedgerInit == Init => Ledger!LInit
  BY DEF Init, Ledger!LInit, Ledger!Blank, EmptyManifest

LEMMA LedgerNext ==
  ASSUME IInv, [Next]_vars
  PROVE  [Ledger!LNext]_(Ledger!lvars)
<1> USE DEF IInv
<1>1. CASE UNCHANGED <<lock, manifest, cleanAt>>
  BY <1>1 DEF Ledger!lvars
<1>2. CASE LoseManifest
  BY <1>2 DEF LoseManifest, Ledger!LNext, Ledger!Damage, Ledger!Blank, EmptyManifest, history
<1>3. ASSUME NEW p \in Proc, EndsNow(p)
      PROVE  [Ledger!LNext]_(Ledger!lvars)
  <2>1. PICK how \in Ended, code \in {NoExit, 0, 1, 2, 3} : End(p, how, code)
    BY <1>3, EndsByEnd
  <2>2. CASE lock = p
    BY <2>1, <2>2 DEF End, Ledger!LNext, Ledger!Release, history
  <2>3. CASE lock # p
    BY <2>1, <2>3 DEF End, Ledger!lvars, history
  <2>4. QED
    BY <2>2, <2>3
<1>4. ASSUME NEW p \in Proc, Start(p)
      PROVE  [Ledger!LNext]_(Ledger!lvars)
  <2>1. UNCHANGED <<manifest, cleanAt>>
    BY <1>4 DEF Start, StartDry, StartLocked, StartLockedOut, Fresh, history
  <2>2. UNCHANGED lock \/ (lock = NoProc /\ lock' = p)
    BY <1>4 DEF Start, StartDry, StartLocked, StartLockedOut
  <2>3. QED
    BY <2>1, <2>2 DEF Ledger!LNext, Ledger!Take, Ledger!lvars
<1>5. ASSUME NEW p \in Proc, ReturnClean(p)
      PROVE  [Ledger!LNext]_(Ledger!lvars)
  <2>1. CASE dry[p]
    BY <1>5, <2>1 DEF ReturnClean, Ledger!lvars
  <2>2. CASE ~dry[p]
    <3>1. lock = p
      BY <1>5, <2>2 DEF ReturnClean, OneRealRun, Real, Active
    <3>2. at[p] \in Mod
      BY <1>5 DEF ReturnClean, AtSelected, TypeOK, LocalsOK
    <3>3. cleanAt' = [cleanAt EXCEPT ![at[p]] = num[p]] /\ UNCHANGED <<lock, manifest>>
      BY <1>5, <2>2 DEF ReturnClean
    <3>4. num[p] \in Nat /\ cleanAt[at[p]] <= num[p]
      BY <1>5, <2>2, <3>2 DEF ReturnClean, Chronology, Real, Active, TypeOK, LocalsOK
    <3>5. cleanAt'[at[p]] = num[p]
      BY <3>2, <3>3 DEF TypeOK, HistoryOK
    <3>6. Ledger!Complete(p, at[p])
      BY <3>1, <3>3, <3>4, <3>5 DEF Ledger!Complete
    <3>7. QED
      BY <3>2, <3>6 DEF Ledger!LNext
  <2>3. QED
    BY <2>1, <2>2
<1>6. ASSUME NEW p \in Proc, Publish(p)
      PROVE  [Ledger!LNext]_(Ledger!lvars)
  <2>1. lock = p /\ Informed(p)
    BY <1>6 DEF Publish, OneRealRun, Informed, Real, Active
  <2>2. manifest' = mem[p] /\ UNCHANGED <<lock, cleanAt>>
    BY <1>6 DEF Publish, history
  <2>3. manifest' \in [Mod -> Nat]
    BY <2>2 DEF TypeOK, LocalsOK
  <2>4. \A m \in Mod : manifest[m] <= manifest'[m] /\ manifest'[m] <= cleanAt[m]
    BY <2>1, <2>2 DEF MemoryCovers, ManifestTruthful
  <2>5. Ledger!Commit(p)
    BY <2>1, <2>2, <2>3, <2>4 DEF Ledger!Commit
  <2>6. QED
    BY <2>5 DEF Ledger!LNext
<1>7. ASSUME NEW p \in Proc,
             \/ ReadManifest(p) \/ Plan(p) \/ Skip(p) \/ Begin(p) \/ RecordDone(p)
             \/ ReturnIncomplete(p) \/ Throw(p) \/ EndOfLoop(p) \/ ClearResume(p)
             \/ PublishNothing(p)
      PROVE  UNCHANGED <<lock, manifest, cleanAt>>
  BY <1>7 DEF ReadManifest, Plan, EnterLoop, Skip, Begin, RecordDone, ReturnIncomplete, Throw,
              EndOfLoop, ClearResume, PublishNothing, shared, history
<1>8. CASE UNCHANGED vars
  BY <1>8, <1>1 DEF vars
<1>9. QED
  BY <1>1, <1>2, <1>3, <1>4, <1>5, <1>6, <1>7, <1>8, StepCases

(* The dispatcher implements the abstract ledger: one installer at a time  *)
(* works, its record only grows, and only outside damage sets it back.     *)
THEOREM ImplementsLedger == Spec => LedgerSpec
<1>1. Init => Ledger!LInit
  BY LedgerInit
<1>2. IInv /\ [Next]_vars => [Ledger!LNext]_(Ledger!lvars)
  BY LedgerNext
<1>3. QED
  BY <1>1, <1>2, Inductive, PTL DEF Spec, LedgerSpec, Ledger!LSpec

(***************************************************************************)
(* Dry runs.  They never get to the step that writes the resume file.      *)
(***************************************************************************)
OnlyRealRunsStamp == \A p \in Proc : pc[p] = "stamping" => ~dry[p]

LEMMA OnlyRealRunsStampStep ==
  ASSUME TypeOK, OnlyRealRunsStamp, [Next]_vars
  PROVE  OnlyRealRunsStamp'
<1> USE DEF TypeOK, ControlOK, OnlyRealRunsStamp
<1>1. CASE UNCHANGED vars \/ LoseManifest
  BY <1>1 DEF vars, LoseManifest
<1>2. ASSUME NEW p \in Proc, EndsNow(p)
      PROVE  OnlyRealRunsStamp'
  <2>1. PICK how \in Ended, code \in {NoExit, 0, 1, 2, 3} : End(p, how, code)
    BY <1>2, EndsByEnd
  <2>2. QED
    BY <2>1 DEF End, Ended
<1>3. ASSUME NEW p \in Proc, Start(p)
      PROVE  OnlyRealRunsStamp'
  BY <1>3 DEF Start, StartDry, StartLocked, StartLockedOut, Fresh
<1>4. ASSUME NEW p \in Proc, ReturnClean(p)
      PROVE  OnlyRealRunsStamp'
  BY <1>4 DEF ReturnClean
<1>5. ASSUME NEW p \in Proc,
             \/ ReadManifest(p) \/ Plan(p) \/ Skip(p) \/ Begin(p) \/ RecordDone(p)
             \/ ReturnIncomplete(p) \/ Throw(p) \/ EndOfLoop(p) \/ ClearResume(p)
             \/ Publish(p) \/ PublishNothing(p)
      PROVE  OnlyRealRunsStamp'
  BY <1>5 DEF ReadManifest, Plan, EnterLoop, Skip, Begin, RecordDone, ReturnIncomplete, Throw,
              EndOfLoop, ClearResume, Publish, PublishNothing
<1>6. QED
  BY <1>1, <1>2, <1>3, <1>4, <1>5, StepCases

(* A step that moves a dry run along is a step of that run, and the run's  *)
(* own steps leave alone what is shared.                                   *)
LEMMA DryStep ==
  ASSUME IInv, OnlyRealRunsStamp, [Next]_vars,
         NEW p \in Proc, dry[p], pc[p] \in Active, pc'[p] # pc[p]
  PROVE  UNCHANGED <<shared, history>>
<1> USE DEF shared, history
<1>1. TypeOK /\ OneRealRun
  BY DEF IInv
<1>2. pc \in [Proc -> Active \cup Ended]
  BY <1>1 DEF TypeOK, ControlOK
<1>3. lock # p /\ pc[p] # "stamping"
  BY <1>1 DEF OneRealRun, Real, OnlyRealRunsStamp
<1>4. CASE UNCHANGED vars \/ LoseManifest
  BY <1>4 DEF vars, LoseManifest
<1>5. ASSUME NEW q \in Proc, EndsNow(q)
      PROVE  UNCHANGED <<shared, history>>
  <2>1. PICK how \in Ended, code \in {NoExit, 0, 1, 2, 3} : End(q, how, code)
    BY <1>5, EndsByEnd
  <2>2. q = p
    BY <1>2, <2>1 DEF End
  <2>3. QED
    BY <1>3, <2>1, <2>2 DEF End
<1>6. ASSUME NEW q \in Proc, Start(q)
      PROVE  UNCHANGED <<shared, history>>
  <2>1. q # p
    BY <1>6 DEF Start, StartDry, StartLocked, StartLockedOut, Fresh, Active, Ended
  <2>2. pc'[p] = pc[p]
    BY <1>2, <1>6, <2>1 DEF Start, StartDry, StartLocked, StartLockedOut
  <2>3. QED
    BY <2>2
<1>7. ASSUME NEW q \in Proc,
             \/ ReturnClean(q) \/ RecordDone(q) \/ Throw(q) \/ Plan(q)
             \/ ClearResume(q) \/ Publish(q)
      PROVE  UNCHANGED <<shared, history>>
  <2>1. q = p
    BY <1>2, <1>7 DEF ReturnClean, RecordDone, Throw, Plan, EnterLoop, ClearResume, Publish
  <2>2. QED
    BY <1>3, <1>7, <2>1 DEF ReturnClean, RecordDone, Throw, Plan, EnterLoop, ClearResume, Publish
<1>8. ASSUME NEW q \in Proc,
             \/ ReadManifest(q) \/ Skip(q) \/ Begin(q) \/ ReturnIncomplete(q)
             \/ EndOfLoop(q) \/ PublishNothing(q)
      PROVE  UNCHANGED <<shared, history>>
  BY <1>8 DEF ReadManifest, Skip, Begin, ReturnIncomplete, EndOfLoop, PublishNothing
<1>9. QED
  BY <1>4, <1>5, <1>6, <1>7, <1>8, StepCases

(* A dry run changes nothing outside its own process, whatever else is     *)
(* going on.                                                               *)
THEOREM DryRunsAreInert == Spec => DryRunIsInert
<1>1. Init => OnlyRealRunsStamp
  BY DEF Init, OnlyRealRunsStamp
<1>2. IInv /\ OnlyRealRunsStamp /\ [Next]_vars => OnlyRealRunsStamp'
  BY OnlyRealRunsStampStep DEF IInv
<1>3. IInv /\ OnlyRealRunsStamp /\ [Next]_vars =>
        [\A p \in Proc : dry[p] /\ pc[p] \in Active /\ pc'[p] # pc[p] =>
            UNCHANGED <<shared, history>>]_vars
  BY DryStep
<1>4. QED
  BY <1>1, <1>2, <1>3, Inductive, PTL DEF Spec, DryRunIsInert

(***************************************************************************)
(* Progress.  What a run has completed and what reported errors are        *)
(* together the planned modules before the loop index, and never the same. *)
(***************************************************************************)
Behind(p) == {m \in Planned(p) : m < at[p]}
Progress(p) ==
    /\ clean[p] \cap soft[p] = {}
    /\ pc[p] \in Ended \cup {"started", "planning"} => clean[p] = {} /\ soft[p] = {} /\ ~failed[p]
    /\ pc[p] \in {"loop", "running"} => clean[p] \cup soft[p] = Behind(p) /\ at[p] >= from[p]
    /\ pc[p] = "stamping" =>
          /\ clean[p] \cup soft[p] = Behind(p) \cup {at[p]}
          /\ at[p] \in clean[p] /\ at[p] >= from[p]
    /\ pc[p] \in {"done", "saving", "published", "unpublished"} /\ ~failed[p] => clean[p] \cup soft[p] = Planned(p)

LEMMA ProgressInit == Init => \A p \in Proc : Progress(p)
  BY DEF Init, Progress, Ended

(* A step of one process leaves the others' progress alone.                *)
Local(p) == <<pc[p], sel[p], from[p], at[p], clean[p], soft[p], failed[p]>>

LEMMA ProgressFrame ==
  ASSUME NEW p \in Proc, Progress(p), UNCHANGED Local(p)
  PROVE  Progress(p)'
  BY DEF Progress, Local, Behind, Planned

LEMMA OthersLocal ==
  ASSUME TypeOK, NEW q \in Proc, NEW p \in Proc, p # q, Start(q) \/ Step(q) \/ Kill(q)
  PROVE  UNCHANGED Local(p) /\ UNCHANGED <<dry[p], num[p], mem[p]>>
<1> USE DEF Local, TypeOK, ControlOK, LocalsOK, locals
<1>1. CASE Start(q)
  BY <1>1 DEF Start, StartDry, StartLocked, StartLockedOut, Fresh
<1>2. CASE LeaveAtPlan(q) \/ RefuseRun(q) \/ ExitInModule(q) \/ Finish(q) \/ Kill(q)
  <2>1. PICK how \in Ended, code \in {NoExit, 0, 1, 2, 3} : End(q, how, code)
    BY <1>2, EndsByEnd DEF EndsNow
  <2>2. QED
    BY <2>1 DEF End
<1>3. CASE ReadManifest(q)
  BY <1>3 DEF ReadManifest
<1>4. CASE Plan(q)
  BY <1>4 DEF Plan, EnterLoop
<1>5. CASE Skip(q) \/ Begin(q) \/ EndOfLoop(q)
  BY <1>5 DEF Skip, Begin, EndOfLoop
<1>6. CASE ReturnClean(q)
  BY <1>6 DEF ReturnClean
<1>7. CASE RecordDone(q)
  BY <1>7 DEF RecordDone
<1>8. CASE ReturnIncomplete(q) \/ Throw(q)
  BY <1>8 DEF ReturnIncomplete, Throw
<1>9. CASE ClearResume(q) \/ Publish(q) \/ PublishNothing(q)
  BY <1>9 DEF ClearResume, Publish, PublishNothing
<1>10. QED
  BY <1>1, <1>2, <1>3, <1>4, <1>5, <1>6, <1>7, <1>8, <1>9 DEF Step

LEMMA OwnProgress ==
  ASSUME TypeOK, AtSelected, NEW p \in Proc, Progress(p), Start(p) \/ Step(p) \/ Kill(p)
  PROVE  Progress(p)'
<1> USE NModAssumption DEF Progress, TypeOK, ControlOK, LocalsOK, locals, Ended
<1>1. CASE Start(p)
  BY <1>1 DEF Start, StartDry, StartLocked, StartLockedOut, Fresh
<1>2. CASE LeaveAtPlan(p) \/ RefuseRun(p) \/ ExitInModule(p) \/ Finish(p) \/ Kill(p)
  <2>1. PICK how \in Ended, code \in {NoExit, 0, 1, 2, 3} : End(p, how, code)
    BY <1>2, EndsByEnd DEF EndsNow
  <2>2. QED
    BY <2>1 DEF End
<1>3. CASE ReadManifest(p)
  BY <1>3 DEF ReadManifest
<1>4. CASE Plan(p)
  <2>1. PICK how \in {"top", "resume", "phase"}, first \in 0..NMod : EnterLoop(p, how, first)
    BY <1>4 DEF Plan, ResumePoint, SharedOK, Mod
  <2>2. /\ pc'[p] = "loop" /\ clean'[p] = {} /\ soft'[p] = {} /\ at'[p] = first /\ from'[p] = first
    BY <2>1 DEF EnterLoop
  <2>3. sel'[p] \subseteq Mod /\ first \in Nat
    BY <2>1 DEF EnterLoop
  <2>4. Behind(p)' = {}
    BY <2>2, <2>3 DEF Behind, Planned, Mod
  <2>5. QED
    BY <2>2, <2>3, <2>4
<1>5. CASE Skip(p)
  <2>1. pc'[p] = "loop" /\ at'[p] = at[p] + 1 /\ at[p] \notin sel[p] /\ at[p] \in Nat
        /\ UNCHANGED <<sel[p], from[p], clean[p], soft[p]>> /\ at[p] >= from[p]
    BY <1>5 DEF Skip
  <2>2. Behind(p)' = Behind(p)
    BY <2>1 DEF Behind, Planned, Mod
  <2>3. QED
    BY <1>5, <2>1, <2>2 DEF Skip
<1>6. CASE Begin(p)
  BY <1>6 DEF Begin, Behind, Planned
<1>7. CASE EndOfLoop(p)
  <2>1. Behind(p) = Planned(p)
    BY <1>7 DEF EndOfLoop, Behind, Planned, Mod
  <2>2. QED
    BY <1>7, <2>1 DEF EndOfLoop, Planned
<1>8. ASSUME pc[p] = "running"
      PROVE  at[p] \in sel[p] /\ at[p] \notin Behind(p) /\ at[p] \in Nat /\ at[p] >= from[p]
             /\ at[p] \notin clean[p] \cup soft[p]
  <2>1. at[p] \in sel[p] /\ at[p] \in Nat
    BY <1>8 DEF AtSelected
  <2>2. at[p] \notin Behind(p)
    BY <2>1 DEF Behind
  <2>3. QED
    BY <1>8, <2>1, <2>2
<1>9. ASSUME at'[p] = at[p] + 1, at[p] \in sel[p], at[p] >= from[p], at[p] \in Nat, UNCHANGED <<sel[p], from[p]>>
      PROVE  Behind(p)' = Behind(p) \cup {at[p]}
  BY <1>9 DEF Behind, Planned, Mod
<1>10. CASE ReturnClean(p)
  <2>1. CASE dry[p]
    <3>1. /\ pc'[p] = "loop" /\ at'[p] = at[p] + 1 /\ clean'[p] = clean[p] \cup {at[p]}
          /\ UNCHANGED <<sel[p], from[p], soft[p]>>
      BY <1>10, <2>1 DEF ReturnClean
    <3>2. QED
      BY <1>8, <1>9, <1>10, <3>1 DEF ReturnClean
  <2>2. CASE ~dry[p]
    <3>1. /\ pc'[p] = "stamping" /\ clean'[p] = clean[p] \cup {at[p]}
          /\ UNCHANGED <<sel[p], from[p], soft[p], at[p]>>
      BY <1>10, <2>2 DEF ReturnClean
    <3>2. Behind(p)' = Behind(p)
      BY <3>1 DEF Behind, Planned
    <3>3. QED
      BY <1>8, <1>10, <3>1, <3>2 DEF ReturnClean
  <2>3. QED
    BY <2>1, <2>2
<1>11. CASE RecordDone(p)
  <2>1. /\ pc'[p] = "loop" /\ at'[p] = at[p] + 1 /\ UNCHANGED <<sel[p], from[p], clean[p], soft[p]>>
        /\ at[p] \in sel[p] /\ at[p] \in Nat /\ at[p] >= from[p]
    BY <1>11 DEF RecordDone, AtSelected
  <2>2. QED
    BY <1>9, <1>11, <2>1 DEF RecordDone
<1>12. CASE ReturnIncomplete(p)
  <2>1. /\ pc'[p] = "loop" /\ at'[p] = at[p] + 1 /\ soft'[p] = soft[p] \cup {at[p]}
        /\ UNCHANGED <<sel[p], from[p], clean[p]>>
    BY <1>12 DEF ReturnIncomplete
  <2>2. QED
    BY <1>8, <1>9, <1>12, <2>1 DEF ReturnIncomplete
<1>13. CASE Throw(p)
  BY <1>13 DEF Throw
<1>14. CASE ClearResume(p) \/ Publish(p) \/ PublishNothing(p)
  BY <1>14 DEF ClearResume, Publish, PublishNothing, Planned
<1>15. QED
  BY <1>1, <1>2, <1>3, <1>4, <1>5, <1>6, <1>7, <1>10, <1>11, <1>12, <1>13, <1>14 DEF Step

(* What a process's own step leaves to show of everyone.                   *)
LEMMA ProgressStep ==
  ASSUME TypeOK, AtSelected, \A p \in Proc : Progress(p), [Next]_vars
  PROVE  \A p \in Proc : Progress(p)'
<1>1. CASE UNCHANGED vars \/ LoseManifest
  <2>1. \A p \in Proc : UNCHANGED Local(p)
    BY <1>1 DEF vars, LoseManifest, locals, Local
  <2>2. QED
    BY <2>1, ProgressFrame
<1>2. ASSUME NEW q \in Proc, Start(q) \/ Step(q) \/ Kill(q), NEW p \in Proc
      PROVE  Progress(p)'
  <2>1. CASE p = q
    BY <1>2, <2>1, OwnProgress
  <2>2. CASE p # q
    BY <1>2, <2>2, OthersLocal, ProgressFrame
  <2>3. QED
    BY <2>1, <2>2
<1>3. QED
  BY <1>1, <1>2 DEF Next, Quiescent

(***************************************************************************)
(* What a real run has written: the resume file is its own from its first  *)
(* completed module on, gone once the loop ended well, and its memory has  *)
(* the latest execution of everything it completed.                        *)
(***************************************************************************)
AtEnd == {"saving", "published", "unpublished"}
StateFileOK(p) ==
    Real(p) =>
        /\ pc[p] \in {"loop", "running"} /\ clean[p] # {} => stateFile \in clean[p]
        /\ pc[p] \in AtEnd /\ ~failed[p] => stateFile = NoState
RecordOK(p) ==
    Real(p) => \A m \in clean[p] :
                   (pc[p] = "stamping" /\ m = at[p]) \/ mem[p][m] = cleanAt[m]
Written(p) == StateFileOK(p) /\ RecordOK(p)

(* While a real run is in flight, nobody else's step touches the resume    *)
(* file or the record of executions.                                       *)
LEMMA OthersWriteNothing ==
  ASSUME TypeOK, OneRealRun, OnlyRealRunsStamp,
         NEW q \in Proc, NEW p \in Proc, p # q, Real(p), Start(q) \/ Step(q) \/ Kill(q)
  PROVE  UNCHANGED <<stateFile, cleanAt>>
<1> USE DEF history
<1>1. ~Real(q) /\ (pc[q] = "stamping" => ~dry[q])
  BY DEF OneRealRun, OnlyRealRunsStamp
<1>2. CASE Start(q)
  BY <1>2 DEF Start, StartDry, StartLocked, StartLockedOut, Fresh
<1>3. CASE LeaveAtPlan(q) \/ RefuseRun(q) \/ ExitInModule(q) \/ Finish(q) \/ Kill(q)
  <2>1. PICK how \in Ended, code \in {NoExit, 0, 1, 2, 3} : End(q, how, code)
    BY <1>3, EndsByEnd DEF EndsNow
  <2>2. QED
    BY <2>1 DEF End
<1>4. CASE ReadManifest(q) \/ Plan(q) \/ Skip(q) \/ Begin(q) \/ EndOfLoop(q) \/ ReturnIncomplete(q)
  BY <1>4 DEF ReadManifest, Plan, EnterLoop, Skip, Begin, EndOfLoop, ReturnIncomplete, shared
<1>5. CASE Throw(q) \/ Publish(q) \/ PublishNothing(q)
  BY <1>5 DEF Throw, Publish, PublishNothing, shared
<1>6. CASE ReturnClean(q) \/ RecordDone(q) \/ ClearResume(q)
  <2>1. pc[q] \in Active /\ dry[q]
    BY <1>1, <1>6 DEF ReturnClean, RecordDone, ClearResume, Real, Active
  <2>2. QED
    BY <1>1, <1>6, <2>1 DEF ReturnClean, RecordDone, ClearResume
<1>7. QED
  BY <1>2, <1>3, <1>4, <1>5, <1>6 DEF Step

LEMMA OwnWritten ==
  ASSUME TypeOK, AtSelected, OnlyRealRunsStamp, StampCurrent,
         NEW p \in Proc, Progress(p), Written(p), Start(p) \/ Step(p) \/ Kill(p)
  PROVE  Written(p)'
<1> USE DEF Written, StateFileOK, RecordOK, Real, AtEnd, TypeOK, ControlOK, LocalsOK, HistoryOK, locals, history
<1>1. CASE Start(p)
  <2>1. pc[p] \in Ended /\ clean[p] = {} /\ UNCHANGED clean
    BY <1>1 DEF Start, StartDry, StartLocked, StartLockedOut, Fresh, Progress
  <2>2. pc'[p] \in {"started", "locked_out"}
    BY <1>1 DEF Start, StartDry, StartLocked, StartLockedOut
  <2>3. QED
    BY <2>1, <2>2
<1>2. CASE LeaveAtPlan(p) \/ RefuseRun(p) \/ ExitInModule(p) \/ Finish(p) \/ Kill(p)
  <2>1. PICK how \in Ended, code \in {NoExit, 0, 1, 2, 3} : End(p, how, code)
    BY <1>2, EndsByEnd DEF EndsNow
  <2>2. pc'[p] \in Ended
    BY <2>1 DEF End
  <2>3. QED
    BY <2>2 DEF Ended, Active
<1>3. CASE ReadManifest(p) \/ Plan(p)
  <2>1. clean'[p] = {} /\ pc'[p] \in {"planning", "loop"}
    BY <1>3 DEF ReadManifest, Plan, EnterLoop, Progress
  <2>2. QED
    BY <2>1
<1>4. CASE Skip(p) \/ Begin(p) \/ ReturnIncomplete(p)
  <2>1. /\ pc[p] \in {"loop", "running"} /\ pc'[p] \in {"loop", "running"}
        /\ UNCHANGED <<dry, clean, mem, stateFile, cleanAt>>
    BY <1>4 DEF Skip, Begin, ReturnIncomplete, shared
  <2>2. QED
    BY <2>1 DEF Active
<1>5. CASE EndOfLoop(p) \/ Throw(p)
  <2>1. /\ pc[p] \in {"loop", "running"} /\ pc'[p] = "done"
        /\ UNCHANGED <<dry, clean, mem, stateFile, cleanAt>>
    BY <1>5 DEF EndOfLoop, Throw, shared
  <2>2. QED
    BY <2>1 DEF Active
<1>6. CASE ReturnClean(p)
  <2>1. CASE dry[p]
    <3>1. dry'[p]
      BY <1>6, <2>1 DEF ReturnClean
    <3>2. QED
      BY <3>1
  <2>2. CASE ~dry[p]
    <3>1. /\ pc[p] = "running" /\ pc'[p] = "stamping" /\ Real(p)
          /\ clean'[p] = clean[p] \cup {at[p]} /\ UNCHANGED <<at, mem>>
          /\ \A m \in Mod : m # at[p] => cleanAt'[m] = cleanAt[m]
      BY <1>6, <2>2 DEF ReturnClean, Active
    <3>2. \A m \in clean'[p] : m = at'[p] \/ mem'[p][m] = cleanAt'[m]
      BY <3>1
    <3>3. QED
      BY <3>1, <3>2
  <2>3. QED
    BY <2>1, <2>2
<1>7. CASE RecordDone(p)
  <2>1. /\ pc[p] = "stamping" /\ ~dry[p] /\ pc'[p] = "loop" /\ at[p] \in clean[p] /\ at[p] \in Mod
        /\ stateFile' = at[p] /\ UNCHANGED <<clean, cleanAt, dry>>
    BY <1>7 DEF RecordDone, OnlyRealRunsStamp, Progress
  <2>2. \A m \in Mod : mem'[p][m] = IF m = at[p] THEN num[p] ELSE mem[p][m]
    BY <1>7, <2>1 DEF RecordDone
  <2>3. cleanAt[at[p]] = num[p]
    BY <2>1 DEF StampCurrent
  <2>4. \A m \in clean'[p] : mem'[p][m] = cleanAt'[m]
    BY <2>1, <2>2, <2>3 DEF Active
  <2>5. QED
    BY <2>1, <2>4
<1>8. CASE ClearResume(p)
  <2>1. /\ pc[p] = "done" /\ pc'[p] = "saving" /\ UNCHANGED <<dry, clean, failed, mem, cleanAt>>
        /\ ~failed[p] /\ ~dry[p] => stateFile' = NoState
    BY <1>8 DEF ClearResume
  <2>2. QED
    BY <2>1 DEF Active
<1>9. CASE Publish(p) \/ PublishNothing(p)
  <2>1. /\ pc[p] = "saving" /\ pc'[p] \in {"published", "unpublished"}
        /\ UNCHANGED <<dry, clean, failed, mem, cleanAt, stateFile>>
    BY <1>9 DEF Publish, PublishNothing, shared
  <2>2. QED
    BY <2>1 DEF Active
<1>10. QED
  BY <1>1, <1>2, <1>3, <1>4, <1>5, <1>6, <1>7, <1>8, <1>9 DEF Step

LEMMA WrittenStep ==
  ASSUME IInv, OnlyRealRunsStamp, \A p \in Proc : Progress(p) /\ Written(p), [Next]_vars
  PROVE  \A p \in Proc : Written(p)'
<1>1. TypeOK /\ AtSelected /\ OneRealRun /\ StampCurrent
  BY DEF IInv
<1>2. CASE UNCHANGED vars \/ LoseManifest
  BY <1>2 DEF vars, LoseManifest, locals, history, Written, StateFileOK, RecordOK, Real
<1>3. ASSUME NEW q \in Proc, Start(q) \/ Step(q) \/ Kill(q), NEW p \in Proc
      PROVE  Written(p)'
  <2>1. CASE p = q
    BY <1>1, <1>3, <2>1, OwnWritten
  <2>2. CASE p # q
    <3>1. UNCHANGED Local(p) /\ UNCHANGED <<dry[p], num[p], mem[p]>>
      BY <1>1, <1>3, <2>2, OthersLocal
    <3>2. Real(p)' = Real(p)
      BY <3>1 DEF Real, Local
    <3>3. Real(p) => UNCHANGED <<stateFile, cleanAt>>
      BY <1>1, <1>3, <2>2, OthersWriteNothing
    <3>4. QED
      BY <3>1, <3>2, <3>3 DEF Written, StateFileOK, RecordOK, Local
  <2>3. QED
    BY <2>1, <2>2
<1>4. QED
  BY <1>2, <1>3 DEF Next, Quiescent

(* The strengthened invariant of this section.                             *)
WInv == IInv /\ OnlyRealRunsStamp /\ \A p \in Proc : Progress(p) /\ Written(p)

LEMMA WInvHolds == Spec => []WInv
<1>1. Init => OnlyRealRunsStamp /\ \A p \in Proc : Progress(p) /\ Written(p)
  <2>1. Init => OnlyRealRunsStamp /\ \A p \in Proc : Written(p)
    BY DEF Init, OnlyRealRunsStamp, Written, StateFileOK, RecordOK, Real, Active
  <2>2. QED
    BY <2>1, ProgressInit
<1>2. IInv /\ OnlyRealRunsStamp /\ (\A p \in Proc : Progress(p) /\ Written(p)) /\ [Next]_vars =>
        OnlyRealRunsStamp' /\ \A p \in Proc : Progress(p)' /\ Written(p)'
  <2> SUFFICES ASSUME IInv, OnlyRealRunsStamp, \A p \in Proc : Progress(p) /\ Written(p), [Next]_vars
               PROVE  OnlyRealRunsStamp' /\ \A p \in Proc : Progress(p)' /\ Written(p)'
    OBVIOUS
  <2>1. OnlyRealRunsStamp'
    BY OnlyRealRunsStampStep DEF IInv
  <2>2. \A p \in Proc : Progress(p)'
    BY ProgressStep DEF IInv
  <2>3. \A p \in Proc : Written(p)'
    BY WrittenStep
  <2>4. QED
    BY <2>1, <2>2, <2>3
<1>3. WInv /\ [Next]_vars /\ IInv' => WInv'
  BY <1>2 DEF WInv
<1>4. Init /\ IInv => WInv
  BY <1>1 DEF WInv
<1>5. QED
  BY <1>3, <1>4, Inductive, PTL DEF Spec

(* Behind the resume point of a real run lies everything it has reached,   *)
(* and the point itself is a module that it completed.                     *)
THEOREM NothingBehindIsUnreached == Spec => []ResumePointIsBehind
<1>1. WInv => ResumePointIsBehind
  <2> SUFFICES ASSUME WInv, NEW p \in Proc, Real(p), pc[p] \in {"loop", "running"}, clean[p] # {}
               PROVE  /\ stateFile \in clean[p]
                      /\ \A m \in Planned(p) : m <= stateFile => m \in clean[p] \cup soft[p]
    BY DEF ResumePointIsBehind
  <2>1. stateFile \in clean[p] /\ clean[p] \cup soft[p] = Behind(p)
    BY DEF WInv, Written, StateFileOK, Progress
  <2>2. stateFile \in Mod /\ stateFile < at[p] /\ at[p] \in Nat /\ sel[p] \subseteq Mod
    BY <2>1 DEF Behind, Planned, WInv, IInv, TypeOK, LocalsOK, Mod
  <2>3. \A m \in Planned(p) : m <= stateFile => m \in Behind(p)
    BY <2>2 DEF Behind, Planned, Mod
  <2>4. QED
    BY <2>1, <2>3
<1>2. QED
  BY <1>1, WInvHolds, PTL

(* A real run that exits 0 completed its whole plan, one that exits 3 ran  *)
(* all of it and left errors, and neither leaves a resume point.           *)
THEOREM ExitCodesAreHonest == Spec => ExitCodeHonest
<1>1. WInv /\ [Next]_vars =>
        [\A p \in Proc :
           pc[p] # "finished" /\ pc'[p] = "finished" /\ ~dry[p] =>
              /\ exit'[p] = 0 => clean[p] = Planned(p)
              /\ exit'[p] = 3 => clean[p] \cup soft[p] = Planned(p) /\ clean[p] # Planned(p)
              /\ exit'[p] # 1 => stateFile = NoState]_vars
  <2> SUFFICES ASSUME WInv, [Next]_vars, NEW p \in Proc,
                      pc[p] # "finished", pc'[p] = "finished", ~dry[p]
               PROVE  /\ exit'[p] = 0 => clean[p] = Planned(p)
                      /\ exit'[p] = 3 => clean[p] \cup soft[p] = Planned(p) /\ clean[p] # Planned(p)
                      /\ exit'[p] # 1 => stateFile = NoState
    OBVIOUS
  <2>1. TypeOK
    BY DEF WInv, IInv
  <2>2. Finish(p)
    <3>1. PICK q \in Proc : Start(q) \/ Step(q) \/ Kill(q)
      BY DEF Next, Quiescent, vars, LoseManifest
    <3>2. p = q
      BY <2>1, <3>1, OthersLocal DEF Local
    <3>3. CASE Start(p)
      BY <2>1, <3>3 DEF Start, StartDry, StartLocked, StartLockedOut, TypeOK, ControlOK
    <3>4. CASE LeaveAtPlan(p) \/ RefuseRun(p) \/ ExitInModule(p) \/ Kill(p)
      BY <2>1, <3>4 DEF LeaveAtPlan, RefuseRun, ExitInModule, Kill, End, TypeOK, ControlOK
    <3>5. CASE \/ ReadManifest(p) \/ Plan(p) \/ Skip(p) \/ Begin(p) \/ ReturnClean(p) \/ RecordDone(p)
               \/ ReturnIncomplete(p) \/ Throw(p) \/ EndOfLoop(p) \/ ClearResume(p)
               \/ Publish(p) \/ PublishNothing(p)
      BY <2>1, <3>5 DEF ReadManifest, Plan, EnterLoop, Skip, Begin, ReturnClean, RecordDone,
           ReturnIncomplete, Throw, EndOfLoop, ClearResume, Publish, PublishNothing, TypeOK, ControlOK
    <3>6. QED
      BY <3>1, <3>2, <3>3, <3>4, <3>5 DEF Step
  <2>3. pc[p] \in {"published", "unpublished"} /\ exit'[p] = ExitCode(p)
    BY <2>1, <2>2 DEF Finish, End, TypeOK, ControlOK
  <2>4. /\ ~failed[p] => clean[p] \cup soft[p] = Planned(p) /\ stateFile = NoState
        /\ clean[p] \cap soft[p] = {} /\ failed[p] \in BOOLEAN
    BY <2>1, <2>3 DEF WInv, Progress, Written, StateFileOK, AtEnd, Real, Active, TypeOK, LocalsOK
  <2>5. QED
    BY <2>3, <2>4 DEF ExitCode
<1>2. QED
  BY <1>1, WInvHolds, PTL DEF Spec, ExitCodeHonest

(* What a run completed is in the manifest it saves, at its latest         *)
(* execution.                                                              *)
THEOREM CompletedIsRecorded == Spec => SavedRunsAreRecorded
<1>1. WInv /\ [Next]_vars =>
        [\A p \in Proc : pc[p] = "saving" /\ pc'[p] = "published" =>
            \A m \in clean[p] : manifest'[m] = cleanAt[m]]_vars
  <2> SUFFICES ASSUME WInv, [Next]_vars, NEW p \in Proc, pc[p] = "saving", pc'[p] = "published"
               PROVE  \A m \in clean[p] : manifest'[m] = cleanAt[m]
    OBVIOUS
  <2>1. TypeOK
    BY DEF WInv, IInv
  <2>2. Publish(p)
    <3>1. PICK q \in Proc : Start(q) \/ Step(q) \/ Kill(q)
      BY DEF Next, Quiescent, vars, LoseManifest
    <3>2. p = q
      BY <2>1, <3>1, OthersLocal DEF Local
    <3>3. Start(p) => pc'[p] # "published"
      BY <2>1 DEF Start, StartDry, StartLocked, StartLockedOut, TypeOK, ControlOK
    <3>4. Kill(p) => pc'[p] # "published"
      BY <2>1 DEF Kill, End, TypeOK, ControlOK
    <3>5. Step(p) => PublishNothing(p) \/ Publish(p)
      BY DEF Step, LeaveAtPlan, RefuseRun, ExitInModule, Finish, ReadManifest, Plan, EnterLoop,
           Skip, Begin, ReturnClean, RecordDone, ReturnIncomplete, Throw, EndOfLoop, ClearResume
    <3>6. PublishNothing(p) => pc'[p] # "published"
      BY <2>1 DEF PublishNothing, TypeOK, ControlOK
    <3>7. QED
      BY <3>1, <3>2, <3>3, <3>4, <3>5, <3>6
  <2>3. QED
    BY <2>2 DEF Publish, WInv, Written, RecordOK, Real, Active
<1>2. QED
  BY <1>1, WInvHolds, PTL DEF Spec, SavedRunsAreRecorded

-----------------------------------------------------------------------------
(***************************************************************************)
(* Termination.  What an invocation has before it: at most three steps for *)
(* each module it has not reached, and the way in and out.  No module is   *)
(* retried and no state is entered twice.                                  *)
(***************************************************************************)
Remaining(p) == 3 * (NMod - at[p])
StepsLeft(p) ==
    CASE pc[p] = "started"                      -> 3 * NMod + 6
      [] pc[p] = "planning"                     -> 3 * NMod + 5
      [] pc[p] = "loop"                         -> Remaining(p) + 4
      [] pc[p] = "running"                      -> Remaining(p) + 3
      [] pc[p] = "stamping"                     -> Remaining(p) + 2
      [] pc[p] = "done"                         -> 3
      [] pc[p] = "saving"                       -> 2
      [] pc[p] \in {"published", "unpublished"} -> 1
      [] OTHER                                  -> 0

(* Every step of an invocation brings it nearer to its end, and nothing    *)
(* another one does takes it further away.                                 *)
EndComesNearer ==
    [][\A p \in Proc :
         pc[p] \in Active =>
            /\ Step(p) => StepsLeft(p)' < StepsLeft(p)
            /\ StepsLeft(p)' <= StepsLeft(p)]_vars

LEMMA StepsLeftType ==
  ASSUME TypeOK, AtSelected, NEW p \in Proc
  PROVE  /\ StepsLeft(p) \in 0..(3 * NMod + 6)
         /\ pc[p] \in Active => StepsLeft(p) > 0
         /\ pc[p] \in Ended => StepsLeft(p) = 0
<1>1. NMod \in Nat /\ at[p] \in 0..NMod /\ pc[p] \in Active \cup Ended
  BY NModAssumption DEF TypeOK, LocalsOK, ControlOK
<1> QED
  BY <1>1 DEF StepsLeft, Remaining, Active, Ended

LEMMA OwnStepIsNearer ==
  ASSUME TypeOK, AtSelected, NEW p \in Proc, pc[p] \in Active, Step(p)
  PROVE  StepsLeft(p)' < StepsLeft(p)
<1>1. NMod \in Nat /\ at[p] \in 0..NMod /\ at \in [Proc -> 0..NMod] /\ pc \in [Proc -> Active \cup Ended]
  BY NModAssumption DEF TypeOK, LocalsOK, ControlOK
<1>2. pc[p] \in {"running", "stamping"} => at[p] < NMod
  BY <1>1, NModAssumption DEF AtSelected, TypeOK, LocalsOK, Mod
<1> USE <1>1, <1>2 DEF StepsLeft, Remaining
<1>3. CASE LeaveAtPlan(p) \/ RefuseRun(p) \/ ExitInModule(p) \/ Finish(p)
  <2>1. StepsLeft(p) > 0
    BY StepsLeftType
  <2>2. pc'[p] \in Ended
    BY <1>3 DEF LeaveAtPlan, RefuseRun, ExitInModule, Finish, End, Ended
  <2> QED
    BY <2>1, <2>2 DEF Ended
<1>4. CASE ReadManifest(p)
  BY <1>4 DEF ReadManifest
<1>5. CASE Plan(p)
  <2>1. PICK how \in {"top", "resume", "phase"}, first \in 0..NMod : EnterLoop(p, how, first)
    BY <1>5, NModAssumption DEF Plan, ResumePoint, TypeOK, SharedOK, Mod
  <2> QED
    BY <2>1 DEF EnterLoop
<1>6. CASE Skip(p)
  BY <1>6 DEF Skip
<1>7. CASE Begin(p)
  BY <1>7 DEF Begin, locals
<1>8. CASE ReturnClean(p)
  BY <1>8 DEF ReturnClean
<1>9. CASE RecordDone(p)
  BY <1>9 DEF RecordDone
<1>10. CASE ReturnIncomplete(p)
  BY <1>10 DEF ReturnIncomplete
<1>11. CASE Throw(p) \/ EndOfLoop(p)
  BY <1>11 DEF Throw, EndOfLoop, locals
<1>12. CASE ClearResume(p) \/ Publish(p) \/ PublishNothing(p)
  BY <1>12 DEF ClearResume, Publish, PublishNothing
<1> QED
  BY <1>3, <1>4, <1>5, <1>6, <1>7, <1>8, <1>9, <1>10, <1>11, <1>12 DEF Step

(* A run takes at most 3 * NMod + 6 steps, whatever its modules do and     *)
(* whatever runs beside it: for any registry and any number of runs, what  *)
(* is left of an invocation shrinks with each of its steps and never grows.*)
THEOREM RunsAreBounded == Spec => EndComesNearer
<1>1. IInv /\ [Next]_vars =>
        [\A p \in Proc :
           pc[p] \in Active => /\ Step(p) => StepsLeft(p)' < StepsLeft(p)
                               /\ StepsLeft(p)' <= StepsLeft(p)]_vars
  <2> SUFFICES ASSUME IInv, Next, NEW p \in Proc, pc[p] \in Active
               PROVE  /\ Step(p) => StepsLeft(p)' < StepsLeft(p)
                      /\ StepsLeft(p)' <= StepsLeft(p)
    OBVIOUS
  <2>1. TypeOK /\ AtSelected /\ TypeOK' /\ AtSelected'
    BY TypeStep, AtSelectedStep DEF IInv
  <2>2. StepsLeft(p) \in Nat /\ StepsLeft(p)' \in Nat
    <3>1. StepsLeft(p) \in 0..(3 * NMod + 6)
      BY <2>1, StepsLeftType
    <3>2. StepsLeft(p)' \in 0..(3 * NMod + 6)
      <4>1. NMod \in Nat /\ at'[p] \in 0..NMod /\ pc'[p] \in Active \cup Ended
        BY <2>1, NModAssumption DEF TypeOK, LocalsOK, ControlOK
      <4> QED
        BY <4>1 DEF StepsLeft, Remaining, Active, Ended
    <3> QED
      BY <3>1, <3>2, NModAssumption
  <2>3. ASSUME Step(p) PROVE StepsLeft(p)' < StepsLeft(p)
    BY <2>1, <2>3, OwnStepIsNearer
  <2>4. CASE UNCHANGED <<pc[p], at[p]>>
    <3>1. StepsLeft(p)' = StepsLeft(p)
      BY <2>4 DEF StepsLeft, Remaining
    <3> QED
      BY <3>1, <2>2, <2>3
  <2>5. CASE Kill(p)
    <3>1. pc'[p] = "killed"
      BY <2>1, <2>5 DEF Kill, End, TypeOK, ControlOK
    <3>2. StepsLeft(p)' = 0
      BY <3>1 DEF StepsLeft
    <3> QED
      BY <3>2, <2>2, <2>3
  <2>6. ~Start(p)
    BY DEF Start, StartDry, StartLocked, StartLockedOut, Fresh, Active, Ended
  <2>7. ASSUME NEW q \in Proc, q # p, Start(q) \/ Step(q) \/ Kill(q)
        PROVE  UNCHANGED <<pc[p], at[p]>>
    BY <2>1, <2>7, OthersLocal DEF Local
  <2>8. LoseManifest \/ Quiescent => UNCHANGED <<pc[p], at[p]>>
    BY DEF LoseManifest, Quiescent, locals, vars
  <2> QED
    BY <2>2, <2>3, <2>4, <2>5, <2>6, <2>7, <2>8 DEF Next
<1>2. QED
  BY <1>1, Inductive, PTL DEF Spec, EndComesNearer
=============================================================================
