---------------------------- MODULE MonitorProofs ----------------------------
(***************************************************************************)
(* fox-monitor, for any outputs, modes, artwork and number of overlapping  *)
(* or killed runs: an undisturbed reconcile puts everything right, and the *)
(* primary output is sticky.  The invariant follows what an undisturbed    *)
(* run can rely on from its first step to its last (Stage); of all other   *)
(* runs it only says what they may leave behind.                           *)
(***************************************************************************)
EXTENDS Monitor, TLAPS

-----------------------------------------------------------------------------
(* The types, with every counter unbounded.                                *)
RunStep == {"idle", "derive", "open", "write", "rename", "apply", "scan", "plan", "render", "again", "done"}
Reconcile == [pc : RunStep, layout : Layout, todo : SUBSET Picture, prune : SUBSET Picture,
              now : Picture \cup {NoOne}, made : Nat \cup {NoOne}, new : BOOLEAN, calm : BOOLEAN]
Version == [made : Nat, pub : Nat]

WorldShape ==
    /\ plugged \in [Output -> Res \cup {"off", "zero"}] /\ current \in Base
    /\ art \in [Base -> Nat] /\ world \in Nat /\ starts \in Nat /\ faults \in Nat
FileShape ==
    /\ sidecar \in Layout \cup {Torn} /\ tmp \in Layout \cup {NoOne, Torn}
    /\ fd \in [Run -> {"closed", "tmp", "sidecar", "gone"}]
PictureShape ==
    /\ variant \in [Picture -> {NoOne} \cup Version] /\ stamp \in BOOLEAN
    /\ screen \in [Output -> {NoOne} \cup (Base \X (Nat \cup {NoOne}))]
RunShape == run \in [Run -> Reconcile]
MonitorShape == WorldShape /\ FileShape /\ PictureShape /\ RunShape

(* A variant is never newer than its artwork, nor is the one being made.   *)
NotNewer(v) == variant[v] # NoOne => variant[v].made <= variant[v].pub /\ variant[v].pub <= art[v[1]]
Versions ==
    /\ \A v \in Picture : NotNewer(v)
    /\ \A p \in Run : At(p, "render") =>
          run[p].now \in Picture /\ run[p].made \in Nat /\ run[p].made <= art[run[p].now[1]]

(* A calm run is alone, and only a run that writes has the stream open.    *)
Alone == \A p \in Run : run[p].calm => \A q \in Run \ {p} : Over(q)
StreamsClosed == \A p \in Run : ~At(p, "write") => fd[p] = "closed"

LiveLayout(l) ==
    /\ l.res = [o \in Output |-> IF o \in ReadyOutputs THEN plugged[o] ELSE NoOne]
    /\ l.primary \in Live
KeptPrimary(l) == sidecar # Torn /\ sidecar.primary \in Live => l.primary = sidecar.primary
ScreenRight == \A o \in ReadyOutputs : screen[o] = Shown(o, plugged[o])
FreshPicture(v) == variant[v] # NoOne /\ (variant[v].made = art[v[1]] \/ variant[v].made < variant[v].pub)
Covered(l, owed) == \A r \in Wanted(l) : <<current, r>> \in owed \/ FreshPicture(<<current, r>>)

(* How far a calm run has come.                                            *)
Stage(p) ==
    LET r == run[p] IN
    r.calm =>
      /\ r.pc = "derive" /\ sidecar # Torn => r.layout.primary = sidecar.primary
      /\ r.pc \in {"open", "write", "rename"} => LiveLayout(r.layout) /\ KeptPrimary(r.layout)
      /\ r.pc = "write" => fd[p] = "tmp" /\ tmp = NoLayout
      /\ r.pc = "rename" => tmp = r.layout
      /\ r.pc \in {"apply", "scan", "plan", "render", "again"} => sidecar = r.layout /\ LiveLayout(r.layout)
      /\ r.pc = "scan" => ScreenRight
      /\ r.pc \in {"plan", "render"} => (r.new \/ ScreenRight) /\ \A v \in r.prune : v[2] \notin Wanted(r.layout)
      /\ r.pc = "plan" => Covered(r.layout, r.todo)
      /\ r.pc = "render" => Covered(r.layout, r.todo \cup {r.now})
      /\ r.pc = "again" => Covered(r.layout, {})
      /\ r.pc = "done" => RightNow

MonitorInv == MonitorShape /\ Versions /\ Alone /\ StreamsClosed /\ \A p \in Run : Stage(p)

-----------------------------------------------------------------------------
(* A step of a run at work: whoever is calm beside it is not, so that only *)
(* its own stage is at issue.                                              *)
LEMMA OwnStep ==
    ASSUME RunShape, Alone, NEW p \in Run, ~Over(p), NEW r \in Reconcile,
           run' = [run EXCEPT ![p] = r], r.calm => run[p].calm, Stage(p)'
    PROVE  RunShape' /\ Alone' /\ \A q \in Run : Stage(q)'
<1>1. RunShape'
  BY DEF RunShape
<1>2. \A q \in Run \ {p} : ~run[q].calm /\ run'[q] = run[q]
  BY DEF Alone, RunShape
<1>3. run'[p] = r
  BY DEF RunShape
<1>4. Alone'
  BY <1>2, <1>3 DEF Alone, Over
<1>5. \A q \in Run \ {p} : Stage(q)'
  BY <1>2 DEF Stage
<1> QED
  BY <1>1, <1>4, <1>5

LEMMA IdleShape == Idle \in Reconcile /\ NoLayout \in Layout /\ ~Idle.calm /\ Idle.pc = "idle"
  BY DEF Idle, Reconcile, RunStep, NoLayout, Layout, Picture

LEMMA MonitorStart == MonitorInit => MonitorInv
<1> SUFFICES ASSUME MonitorInit PROVE MonitorInv
  OBVIOUS
<1>1. run = [p \in Run |-> Idle] /\ fd = [p \in Run |-> "closed"] /\ variant = [v \in Picture |-> NoOne]
  BY DEF MonitorInit
<1>2. RunShape
  BY <1>1, IdleShape DEF RunShape
<1>3. \A p \in Run : run[p] = Idle /\ ~run[p].calm /\ run[p].pc = "idle"
  BY <1>1, IdleShape
<1>4. Alone /\ StreamsClosed /\ Versions /\ \A p \in Run : Stage(p)
  BY <1>1, <1>3 DEF Alone, StreamsClosed, Versions, NotNewer, Stage, At
<1>5. FileShape
  BY <1>1, IdleShape DEF MonitorInit, FileShape
<1>6. PictureShape
  BY <1>1 DEF MonitorInit, PictureShape
<1>7. WorldShape
  <2>1. PICK o \in Output : plugged = [x \in Output |-> IF x = o THEN CHOOSE r \in Res : TRUE ELSE "off"]
    BY DEF MonitorInit
  <2> QED
    BY <2>1, MonitorAssumption DEF MonitorInit, WorldShape
<1> QED
  BY <1>2, <1>4, <1>5, <1>6, <1>7 DEF MonitorInv, MonitorShape

-----------------------------------------------------------------------------
(* What changes outside leaves nobody calm.                                *)
LEMMA WorldStep ==
    ASSUME MonitorInv,
           \/ \E o \in Output, m \in Res \cup {"off", "zero"} : SetMode(o, m)
           \/ \E b \in Base : Rotate(b) \/ NewArt(b)
    PROVE  MonitorInv'
<1>0. MonitorShape /\ Versions /\ StreamsClosed
  BY DEF MonitorInv
<1>1. Happens
  BY DEF SetMode, Rotate, NewArt
<1>2. /\ run' \in [Run -> Reconcile]
      /\ \A p \in Run : /\ ~run'[p].calm /\ run'[p].pc = run[p].pc
                        /\ run'[p].now = run[p].now /\ run'[p].made = run[p].made
  BY <1>0, <1>1 DEF Happens, Disturbed, MonitorShape, RunShape, Reconcile
<1>3. /\ art' \in [Base -> Nat] /\ \A c \in Base : art[c] <= art'[c]
      /\ plugged' \in [Output -> Res \cup {"off", "zero"}] /\ current' \in Base
      /\ screen' \in [Output -> {NoOne} \cup (Base \X (Nat \cup {NoOne}))]
  BY <1>0 DEF SetMode, Rotate, NewArt, MonitorShape, WorldShape, PictureShape
<1>4. WorldShape' /\ FileShape' /\ PictureShape' /\ RunShape'
  BY <1>0, <1>1, <1>2, <1>3 DEF Happens, MonitorShape, WorldShape, FileShape, PictureShape, RunShape
<1>5. Versions'
  <2>1. ASSUME NEW v \in Picture, NotNewer(v) PROVE NotNewer(v)'
    <3>1. v[1] \in Base /\ variant' = variant
      BY <1>1 DEF Picture, Happens
    <3>2. variant[v] # NoOne => variant[v].made \in Nat /\ variant[v].pub \in Nat
      BY <1>0 DEF MonitorShape, PictureShape, Version
    <3>3. art[v[1]] \in Nat /\ art'[v[1]] \in Nat
      BY <1>0, <1>3, <3>1 DEF MonitorShape, WorldShape
    <3> QED
      BY <1>3, <2>1, <3>1, <3>2, <3>3 DEF NotNewer
  <2>2. ASSUME NEW p \in Run, At(p, "render")'
        PROVE  /\ run'[p].now \in Picture /\ run'[p].made \in Nat
               /\ run'[p].made <= art'[run'[p].now[1]]
    <3>1. run[p].now \in Picture /\ run[p].made \in Nat /\ run[p].made <= art[run[p].now[1]]
      BY <1>0, <1>2, <2>2 DEF Versions, At
    <3>2. run[p].now[1] \in Base
      BY <3>1 DEF Picture
    <3>3. art[run[p].now[1]] \in Nat /\ art'[run[p].now[1]] \in Nat
      BY <1>0, <1>3, <3>2 DEF MonitorShape, WorldShape
    <3> QED
      BY <1>2, <1>3, <3>1, <3>2, <3>3
  <2> QED
    BY <1>0, <2>1, <2>2 DEF Versions
<1>6. Alone' /\ StreamsClosed' /\ \A p \in Run : Stage(p)'
  BY <1>0, <1>1, <1>2 DEF Alone, StreamsClosed, Stage, At, Happens
<1> QED
  BY <1>4, <1>5, <1>6 DEF MonitorInv, MonitorShape

LEMMA StartStep == ASSUME MonitorInv, NEW p \in Run, StartRun(p) PROVE MonitorInv'
<1>0. MonitorShape /\ Versions /\ StreamsClosed
  BY DEF MonitorInv
<1>1. PICK known \in {l.primary : l \in Readings} :
         run' = [q \in Run |->
             IF q = p THEN [Idle EXCEPT !.pc = "derive", !.layout.primary = known,
                                        !.calm = \A x \in Run : Over(x)]
             ELSE [run[q] EXCEPT !.calm = FALSE]]
  BY DEF StartRun
<1>2. known \in Output \cup {NoOne} /\ (sidecar # Torn => known = sidecar.primary)
  BY <1>0, <1>1 DEF Readings, MonitorShape, FileShape, Layout
<1>3. run'[p] \in Reconcile /\ run'[p].pc = "derive" /\ run'[p].layout.primary = known
      /\ run'[p].calm = (\A x \in Run : Over(x))
  BY <1>1, <1>2 DEF Idle, NoLayout, Layout, Reconcile, RunStep, Picture
<1>4. \A q \in Run \ {p} : /\ run'[q] \in Reconcile /\ ~run'[q].calm
                           /\ run'[q].pc = run[q].pc /\ run'[q].now = run[q].now /\ run'[q].made = run[q].made
  BY <1>0, <1>1 DEF MonitorShape, RunShape, Reconcile
<1>5. RunShape'
  <2>1. run' = [q \in Run |-> run'[q]]
    BY <1>1, Zenon
  <2> QED
    BY <1>3, <1>4, <2>1 DEF RunShape
<1>6. MonitorShape'
  <2>1. WorldShape'
    <3>1. starts' = starts + 1 /\ UNCHANGED <<plugged, current, art, world, faults>>
      BY DEF StartRun
    <3> QED
      BY <1>0, <3>1 DEF MonitorShape, WorldShape
  <2>2. FileShape' /\ PictureShape'
    BY <1>0 DEF StartRun, MonitorShape, FileShape, PictureShape
  <2> QED
    BY <1>5, <2>1, <2>2 DEF MonitorShape
<1>7. Versions' /\ StreamsClosed'
  BY <1>0, <1>3, <1>4 DEF StartRun, Versions, NotNewer, StreamsClosed, At, Over
<1>8. Alone'
  BY <1>3, <1>4 DEF Alone, Over
<1>9. \A q \in Run : Stage(q)'
  BY <1>2, <1>3, <1>4 DEF StartRun, Stage
<1> QED
  BY <1>6, <1>7, <1>8, <1>9 DEF MonitorInv

(* A step of a run at work, in one place.                                  *)
LEMMA RunMoves ==
    ASSUME MonitorInv, NEW p \in Run, ~Over(p), NEW r \in Reconcile, Go(p, r),
           r.calm => run[p].calm, Stage(p)', art' = art, WorldShape', FileShape', PictureShape',
           \A v \in Picture : NotNewer(v)',
           r.pc = "render" => r.now \in Picture /\ r.made \in Nat /\ r.made <= art[r.now[1]],
           r.pc = "write" \/ fd'[p] = "closed",
           \A q \in Run \ {p} : fd[q] = "closed" => fd'[q] = "closed"
    PROVE  MonitorInv'
<1>0. MonitorShape /\ Versions /\ StreamsClosed /\ Alone
  BY DEF MonitorInv
<1>1. RunShape' /\ Alone' /\ \A q \in Run : Stage(q)'
  BY <1>0, OwnStep DEF MonitorShape, Go
<1>2. run'[p] = r /\ \A q \in Run \ {p} : run'[q] = run[q]
  BY <1>0 DEF Go, MonitorShape, RunShape
<1>3. StreamsClosed'
  BY <1>0, <1>2 DEF StreamsClosed, At
<1>4. ASSUME NEW q \in Run, At(q, "render")'
      PROVE  run'[q].now \in Picture /\ run'[q].made \in Nat /\ run'[q].made <= art'[run'[q].now[1]]
  BY <1>0, <1>2, <1>4 DEF Versions, At
<1> QED
  BY <1>1, <1>3, <1>4 DEF MonitorInv, MonitorShape, Versions

(* The same when only the run itself moves.                                *)
LEMMA RunOnlyMoves ==
    ASSUME MonitorInv, NEW p \in Run, ~Over(p), ~At(p, "write"), NEW r \in Reconcile, Go(p, r),
           r.calm => run[p].calm, Stage(p)',
           UNCHANGED <<worldVars, sidecar, tmp, fd, variant, stamp, screen>>,
           r.pc = "render" => r.now \in Picture /\ r.made \in Nat /\ r.made <= art[r.now[1]]
    PROVE  MonitorInv'
<1>1. WorldShape' /\ FileShape' /\ PictureShape' /\ art' = art /\ fd' = fd
  BY DEF MonitorInv, MonitorShape, WorldShape, FileShape, PictureShape, worldVars
<1>2. \A v \in Picture : NotNewer(v)'
  BY DEF MonitorInv, Versions, NotNewer, worldVars
<1>3. fd'[p] = "closed"
  BY <1>1 DEF MonitorInv, StreamsClosed
<1> QED
  BY <1>1, <1>2, <1>3, RunMoves

LEMMA DeriveStep == ASSUME MonitorInv, NEW p \in Run, Derive(p) PROVE MonitorInv'
<1>0. MonitorShape /\ Stage(p) /\ ~Over(p) /\ ~At(p, "write") /\ run[p] \in Reconcile
  BY DEF MonitorInv, Derive, At, Over, MonitorShape, RunShape
<1>1. UNCHANGED <<worldVars, sidecar, tmp, fd, variant, stamp, screen>>
  BY DEF Derive
<1>2. ASSUME NEW r \in Reconcile, Go(p, r), r.pc \in {"idle", "open"}, r.calm => run[p].calm, Stage(p)'
      PROVE  MonitorInv'
  BY <1>0, <1>1, <1>2, RunOnlyMoves
<1>3. CASE Go(p, Idle)
  <2>1. Stage(p)'
    BY <1>0, <1>3, IdleShape DEF Go, Stage, MonitorShape, RunShape
  <2> QED
    BY <1>2, <1>3, <2>1, IdleShape
<1>4. ASSUME NEW l \in Layout, NEW r \in Reconcile, Go(p, r), r.pc = "open", r.layout = l,
             r.calm = run[p].calm, LiveLayout(l), r.calm => KeptPrimary(l)
      PROVE  MonitorInv'
  <2>1. run'[p] = r
    BY <1>0, <1>4 DEF Go, MonitorShape, RunShape
  <2>2. LiveLayout(l)'
    BY <1>1, <1>4 DEF LiveLayout, Live, ReadyOutputs, worldVars
  <2>3. r.calm => KeptPrimary(l)'
    BY <1>1, <1>4 DEF KeptPrimary, Live, worldVars
  <2>4. Stage(p)'
    BY <1>4, <2>1, <2>2, <2>3 DEF Stage
  <2> QED
    BY <1>2, <1>4, <2>4
<1>5. ASSUME NEW first \in Live,
             Go(p, [run[p] EXCEPT !.pc = "open",
                      !.layout = [primary |-> IF @.primary \in Live THEN @.primary ELSE first,
                                  res |-> [o \in Output |-> IF o \in ReadyOutputs THEN plugged[o] ELSE NoOne]]])
      PROVE MonitorInv'
  <2> DEFINE l == [primary |-> IF run[p].layout.primary \in Live THEN run[p].layout.primary ELSE first,
                   res |-> [o \in Output |-> IF o \in ReadyOutputs THEN plugged[o] ELSE NoOne]]
             r == [run[p] EXCEPT !.pc = "open", !.layout = l]
  <2>1. l \in Layout /\ LiveLayout(l)
    BY DEF Layout, LiveLayout, Live, ReadyOutputs
  <2>2. r \in Reconcile /\ r.pc = "open" /\ r.calm = run[p].calm /\ r.layout = l
    BY <1>0, <2>1 DEF Reconcile, RunStep
  <2>3. Go(p, r)
    BY <1>5
  <2>4. r.calm => KeptPrimary(l)
    BY <1>0, <2>2 DEF Stage, KeptPrimary, Derive, At
  <2> HIDE DEF l, r
  <2> QED
    BY <1>4, <2>1, <2>2, <2>3, <2>4
<1> QED
  BY <1>3, <1>5 DEF Derive

LEMMA OpenStep == ASSUME MonitorInv, NEW p \in Run, OpenTmp(p) PROVE MonitorInv'
<1> DEFINE r == [run[p] EXCEPT !.pc = "write"]
<1>0. MonitorShape /\ Stage(p) /\ ~Over(p) /\ run[p] \in Reconcile /\ run[p].pc = "open"
  BY DEF MonitorInv, OpenTmp, At, Over, MonitorShape, RunShape
<1>1. r \in Reconcile /\ r.pc = "write" /\ r.calm = run[p].calm /\ r.layout = run[p].layout
  BY <1>0 DEF Reconcile, RunStep
<1>2. /\ Go(p, r) /\ tmp' = NoLayout /\ fd' = [fd EXCEPT ![p] = "tmp"]
      /\ UNCHANGED <<worldVars, sidecar, variant, stamp, screen>>
  BY DEF OpenTmp, To
<1> HIDE DEF r
<1>3. run'[p] = r /\ fd'[p] = "tmp" /\ \A q \in Run \ {p} : fd'[q] = fd[q]
  BY <1>0, <1>2 DEF Go, MonitorShape, RunShape, FileShape
<1>4. WorldShape' /\ FileShape' /\ PictureShape' /\ art' = art
  BY <1>0, <1>2, IdleShape DEF MonitorShape, WorldShape, FileShape, PictureShape, worldVars
<1>5. \A v \in Picture : NotNewer(v)'
  BY <1>2 DEF MonitorInv, Versions, NotNewer, worldVars
<1>6. \A l \in Layout : (LiveLayout(l) => LiveLayout(l)') /\ (KeptPrimary(l) => KeptPrimary(l)')
  BY <1>2 DEF LiveLayout, KeptPrimary, Live, ReadyOutputs, worldVars
<1>7. Stage(p)'
  <2>1. r.layout \in Layout
    BY <1>1 DEF Reconcile
  <2>2. r.calm => LiveLayout(r.layout) /\ KeptPrimary(r.layout)
    BY <1>0, <1>1 DEF Stage
  <2> QED
    BY <1>1, <1>2, <1>3, <1>6, <2>1, <2>2 DEF Stage
<1> QED
  BY <1>0, <1>1, <1>2, <1>3, <1>4, <1>5, <1>7, RunMoves

LEMMA WriteStep == ASSUME MonitorInv, NEW p \in Run, WriteTmp(p) PROVE MonitorInv'
<1> DEFINE r == [run[p] EXCEPT !.pc = "rename"]
<1>0. MonitorShape /\ Stage(p) /\ ~Over(p) /\ run[p] \in Reconcile /\ run[p].pc = "write"
  BY DEF MonitorInv, WriteTmp, At, Over, MonitorShape, RunShape
<1>1. r \in Reconcile /\ r.pc = "rename" /\ r.calm = run[p].calm /\ r.layout = run[p].layout
  BY <1>0 DEF Reconcile, RunStep
<1>2. /\ Go(p, r) /\ fd' = [fd EXCEPT ![p] = "closed"]
      /\ UNCHANGED <<worldVars, variant, stamp, screen>>
  BY DEF WriteTmp, To
<1>3. \/ fd[p] = "tmp" /\ tmp' \in Overwritten(tmp, run[p].layout) /\ UNCHANGED sidecar
      \/ fd[p] = "sidecar" /\ sidecar' \in Overwritten(sidecar, run[p].layout) /\ UNCHANGED tmp
      \/ fd[p] \notin {"tmp", "sidecar"} /\ UNCHANGED <<tmp, sidecar>>
  BY DEF WriteTmp
<1>4. \A old : Overwritten(old, run[p].layout) \subseteq {run[p].layout, Torn}
  BY DEF Overwritten
<1> HIDE DEF r
<1>5. run'[p] = r /\ fd'[p] = "closed" /\ \A q \in Run \ {p} : fd'[q] = fd[q]
  BY <1>0, <1>2 DEF Go, MonitorShape, RunShape, FileShape
<1>6. WorldShape' /\ FileShape' /\ PictureShape' /\ art' = art
  <2>1. run[p].layout \in Layout
    BY <1>0 DEF Reconcile
  <2>2. sidecar' \in Layout \cup {Torn} /\ tmp' \in Layout \cup {NoOne, Torn}
    BY <1>0, <1>3, <1>4, <2>1 DEF MonitorShape, FileShape
  <2> QED
    BY <1>0, <1>2, <2>2 DEF MonitorShape, WorldShape, FileShape, PictureShape, worldVars
<1>7. \A v \in Picture : NotNewer(v)'
  BY <1>2 DEF MonitorInv, Versions, NotNewer, worldVars
<1>8. Stage(p)'
  <2>1. run[p].calm => /\ LiveLayout(run[p].layout) /\ KeptPrimary(run[p].layout)
                       /\ fd[p] = "tmp" /\ tmp = NoLayout
    BY <1>0 DEF Stage
  <2>2. r.calm => tmp' = r.layout /\ sidecar' = sidecar
    BY <1>1, <1>3, <2>1 DEF Overwritten
  <2>3. ASSUME r.calm, NEW l \in Layout PROVE (LiveLayout(l) => LiveLayout(l)') /\ (KeptPrimary(l) => KeptPrimary(l)')
    BY <1>2, <2>2, <2>3 DEF LiveLayout, KeptPrimary, Live, ReadyOutputs, worldVars
  <2>4. r.calm => LiveLayout(r.layout) /\ KeptPrimary(r.layout) /\ r.layout \in Layout
    BY <1>1, <2>1 DEF Reconcile
  <2> QED
    BY <1>1, <1>5, <2>2, <2>3, <2>4 DEF Stage
<1> QED
  BY <1>0, <1>1, <1>2, <1>5, <1>6, <1>7, <1>8, RunMoves

LEMMA RenameStep == ASSUME MonitorInv, NEW p \in Run, RenameTmp(p) PROVE MonitorInv'
<1>0. MonitorShape /\ StreamsClosed /\ Stage(p) /\ ~Over(p) /\ run[p] \in Reconcile /\ run[p].pc = "rename"
      /\ ~At(p, "write")
  BY DEF MonitorInv, RenameTmp, At, Over, MonitorShape, RunShape
<1>1. UNCHANGED <<worldVars, variant, stamp, screen>>
  BY DEF RenameTmp
<1>2. CASE Go(p, Idle) /\ UNCHANGED <<sidecar, tmp, fd>>
  <2>1. Stage(p)'
    BY <1>0, <1>2, IdleShape DEF Go, Stage, MonitorShape, RunShape
  <2> QED
    BY <1>0, <1>1, <1>2, <2>1, IdleShape, RunOnlyMoves
<1>3. CASE /\ tmp # NoOne /\ sidecar' = tmp /\ tmp' = NoOne
           /\ fd' = [q \in Run |-> CASE fd[q] = "tmp" -> "sidecar" [] fd[q] = "sidecar" -> "gone" [] OTHER -> fd[q]]
           /\ To(p, "apply")
  <2> DEFINE r == [run[p] EXCEPT !.pc = "apply"]
  <2>1. r \in Reconcile /\ r.pc = "apply" /\ r.calm = run[p].calm /\ r.layout = run[p].layout
    BY <1>0 DEF Reconcile, RunStep
  <2>2. Go(p, r)
    BY <1>3 DEF To
  <2> HIDE DEF r
  <2>3. run'[p] = r
    BY <1>0, <2>2 DEF Go, MonitorShape, RunShape
  <2>4. /\ fd' \in [Run -> {"closed", "tmp", "sidecar", "gone"}]
        /\ \A q \in Run : fd[q] = "closed" => fd'[q] = "closed"
    BY <1>0, <1>3 DEF MonitorShape, FileShape
  <2>5. fd'[p] = "closed"
    BY <1>0, <2>4 DEF StreamsClosed
  <2>6. WorldShape' /\ FileShape' /\ PictureShape' /\ art' = art
    BY <1>0, <1>1, <1>3, <2>4 DEF MonitorShape, WorldShape, FileShape, PictureShape, worldVars
  <2>7. \A v \in Picture : NotNewer(v)'
    BY <1>1 DEF MonitorInv, Versions, NotNewer, worldVars
  <2>8. Stage(p)'
    <3>1. r.calm => sidecar' = r.layout /\ LiveLayout(r.layout)
      BY <1>0, <1>3, <2>1 DEF Stage
    <3>2. ASSUME NEW l, LiveLayout(l) PROVE LiveLayout(l)'
      BY <1>1, <3>2 DEF LiveLayout, Live, ReadyOutputs, worldVars
    <3> QED
      BY <2>1, <2>3, <3>1, <3>2 DEF Stage
  <2> QED
    BY <1>0, <2>1, <2>2, <2>4, <2>5, <2>6, <2>7, <2>8, RunMoves
<1> QED
  BY <1>2, <1>3 DEF RenameTmp

LEMMA KillStep == ASSUME MonitorInv, NEW p \in Run, KillRun(p) PROVE MonitorInv'
<1>0. MonitorShape /\ ~Over(p) /\ Go(p, Idle)
  BY DEF MonitorInv, KillRun
<1>1. /\ faults' = faults + 1 /\ fd' = [fd EXCEPT ![p] = "closed"]
      /\ UNCHANGED <<plugged, current, art, world, starts, sidecar, tmp, variant, stamp, screen>>
  BY DEF KillRun, Fault
<1>2. WorldShape' /\ FileShape' /\ PictureShape' /\ \A v \in Picture : NotNewer(v)'
  BY <1>0, <1>1 DEF MonitorInv, MonitorShape, WorldShape, FileShape, PictureShape, Versions, NotNewer
<1>3. Stage(p)'
  BY <1>0, IdleShape DEF Go, Stage, MonitorShape, RunShape
<1>4. fd'[p] = "closed" /\ \A q \in Run \ {p} : fd'[q] = fd[q]
  BY <1>0, <1>1 DEF MonitorShape, FileShape
<1> QED
  BY <1>0, <1>1, <1>2, <1>3, <1>4, IdleShape, RunMoves

(* The wallpaper is set, or the daemon does not answer.                    *)
LEMMA ApplyMoves ==
    ASSUME MonitorInv, NEW p \in Run, ~Over(p), ~At(p, "write"), NEW next \in Reconcile,
           next.pc \notin {"write", "render"}, next.calm => run[p].calm, ApplyTo(p, next),
           (/\ screen' = [o \in Output |->
                  IF o \in ReadyOutputs /\ run[p].layout.res[o] # NoOne
                    THEN Shown(o, run[p].layout.res[o]) ELSE screen[o]]
            /\ run'[p] = next /\ UNCHANGED <<worldVars, sidecar, variant>>) => Stage(p)'
    PROVE  MonitorInv'
<1>0. MonitorShape /\ StreamsClosed /\ run[p] \in Reconcile /\ fd[p] = "closed"
  BY DEF MonitorInv, MonitorShape, RunShape, StreamsClosed
<1>1. UNCHANGED <<sidecar, tmp, fd, variant, stamp>>
  BY DEF ApplyTo
<1>2. CASE Fault /\ Go(p, [next EXCEPT !.calm = FALSE]) /\ UNCHANGED screen
  <2> DEFINE r == [next EXCEPT !.calm = FALSE]
  <2>1. r \in Reconcile /\ ~r.calm /\ r.pc \notin {"write", "render"}
    BY DEF Reconcile
  <2>2. Go(p, r)
    BY <1>2
  <2> HIDE DEF r
  <2>3. Stage(p)'
    BY <1>0, <2>1, <2>2 DEF Go, Stage, MonitorShape, RunShape
  <2>4. faults' = faults + 1 /\ UNCHANGED <<plugged, current, art, world, starts>>
    BY <1>2 DEF Fault
  <2>5. WorldShape' /\ FileShape' /\ PictureShape' /\ \A v \in Picture : NotNewer(v)'
    BY <1>0, <1>1, <1>2, <2>4 DEF MonitorInv, MonitorShape, WorldShape, FileShape, PictureShape, Versions, NotNewer
  <2> QED
    BY <1>0, <1>1, <2>1, <2>2, <2>3, <2>4, <2>5, RunMoves
<1>3. CASE /\ screen' = [o \in Output |->
                  IF o \in ReadyOutputs /\ run[p].layout.res[o] # NoOne
                    THEN Shown(o, run[p].layout.res[o]) ELSE screen[o]]
           /\ Go(p, next) /\ UNCHANGED worldVars
  <2>1. run'[p] = next
    BY <1>0, <1>3 DEF Go, MonitorShape, RunShape
  <2>2. Stage(p)'
    BY <1>1, <1>3, <2>1
  <2>3. ASSUME NEW o \in Output, run[p].layout.res[o] # NoOne
        PROVE  Shown(o, run[p].layout.res[o]) \in Base \X (Nat \cup {NoOne})
    <3>1. <<current, run[p].layout.res[o]>> \in Picture /\ current \in Base
      BY <1>0, <2>3 DEF Reconcile, Layout, Picture, MonitorShape, WorldShape
    <3>2. variant[<<current, run[p].layout.res[o]>>] \in {NoOne} \cup Version
      BY <1>0, <3>1 DEF MonitorShape, PictureShape
    <3> QED
      BY <3>1, <3>2 DEF Shown, Version
  <2>4. PictureShape'
    BY <1>0, <1>1, <1>3, <2>3 DEF MonitorShape, PictureShape
  <2>5. WorldShape' /\ FileShape' /\ art' = art /\ \A v \in Picture : NotNewer(v)'
    BY <1>0, <1>1, <1>3 DEF MonitorInv, MonitorShape, WorldShape, FileShape, Versions, NotNewer, worldVars
  <2> QED
    BY <1>0, <1>1, <1>3, <2>2, <2>4, <2>5, RunMoves
<1> QED
  BY <1>2, <1>3 DEF ApplyTo

LEMMA ApplyStep == ASSUME MonitorInv, NEW p \in Run, Apply(p) PROVE MonitorInv'
<1> DEFINE r == [run[p] EXCEPT !.pc = "scan"]
<1>0. MonitorShape /\ Stage(p) /\ ~Over(p) /\ ~At(p, "write") /\ run[p] \in Reconcile /\ run[p].pc = "apply"
  BY DEF MonitorInv, Apply, At, Over, MonitorShape, RunShape
<1>1. r \in Reconcile /\ r.pc = "scan" /\ r.calm = run[p].calm /\ r.layout = run[p].layout
  BY <1>0 DEF Reconcile, RunStep
<1>2. ApplyTo(p, r)
  BY DEF Apply
<1> HIDE DEF r
<1>3. ASSUME screen' = [o \in Output |->
                  IF o \in ReadyOutputs /\ run[p].layout.res[o] # NoOne
                    THEN Shown(o, run[p].layout.res[o]) ELSE screen[o]],
             run'[p] = r, UNCHANGED <<worldVars, sidecar, variant>>
      PROVE  Stage(p)'
  <2>1. r.calm => sidecar = r.layout /\ LiveLayout(r.layout)
    BY <1>0, <1>1 DEF Stage
  <2>2. ASSUME NEW l, LiveLayout(l) PROVE LiveLayout(l)'
    BY <1>3, <2>2 DEF LiveLayout, Live, ReadyOutputs, worldVars
  <2>3. ASSUME r.calm PROVE ScreenRight'
    <3>1. ReadyOutputs' = ReadyOutputs /\ plugged' = plugged /\ \A o, res : Shown(o, res)' = Shown(o, res)
      BY <1>3 DEF ReadyOutputs, Shown, worldVars
    <3>2. \A o \in ReadyOutputs : o \in Output /\ run[p].layout.res[o] = plugged[o] /\ plugged[o] # NoOne
      BY <1>1, <2>1, <2>3, MonitorAssumption DEF LiveLayout, ReadyOutputs
    <3> QED
      BY <1>3, <3>1, <3>2 DEF ScreenRight
  <2> QED
    BY <1>1, <1>3, <2>1, <2>2, <2>3 DEF Stage
<1> QED
  BY <1>0, <1>1, <1>2, <1>3, ApplyMoves

(* What a run leaves right: nothing is wanted that it has not made, and    *)
(* what is there is shown.                                                 *)
LEMMA Settled ==
    ASSUME MonitorShape, Versions, NEW l, sidecar = l, LiveLayout(l), Covered(l, {}), ScreenRight
    PROVE  RightNow
<1>1. ASSUME NEW o \in ReadyOutputs
      PROVE LET v == variant[<<current, plugged[o]>>]
            IN /\ v # NoOne /\ screen[o] = <<current, v.made>>
               /\ v.made = art[current] \/ v.made < v.pub
  <2>1. plugged[o] \in Wanted(l)
    BY MonitorAssumption DEF LiveLayout, Wanted, ReadyOutputs
  <2>2. FreshPicture(<<current, plugged[o]>>)
    BY <2>1 DEF Covered
  <2> QED
    BY <2>2 DEF FreshPicture, ScreenRight, Shown
<1> QED
  BY <1>1 DEF RightNow, LiveLayout

LEMMA ApplyAgainStep == ASSUME MonitorInv, NEW p \in Run, ApplyAgain(p) PROVE MonitorInv'
<1> DEFINE r == Done(p)
<1>0. MonitorShape /\ Versions /\ Stage(p) /\ ~Over(p) /\ ~At(p, "write") /\ run[p] \in Reconcile /\ run[p].pc = "again"
  BY DEF MonitorInv, ApplyAgain, At, Over, MonitorShape, RunShape
<1>1. r \in Reconcile /\ r.pc = "done" /\ r.calm = run[p].calm
  BY <1>0, IdleShape DEF Reconcile, RunStep, Done, Idle
<1>2. ApplyTo(p, r)
  BY DEF ApplyAgain
<1> HIDE DEF r
<1>3. ASSUME screen' = [o \in Output |->
                  IF o \in ReadyOutputs /\ run[p].layout.res[o] # NoOne
                    THEN Shown(o, run[p].layout.res[o]) ELSE screen[o]],
             run'[p] = r, UNCHANGED <<worldVars, sidecar, variant>>
      PROVE  Stage(p)'
  <2> SUFFICES ASSUME r.calm PROVE RightNow'
    BY <1>1, <1>3 DEF Stage
  <2> DEFINE l == run[p].layout
  <2>1. sidecar = l /\ LiveLayout(l) /\ Covered(l, {})
    BY <1>0, <1>1 DEF Stage
  <2>2. ASSUME NEW o \in ReadyOutputs
        PROVE LET v == variant[<<current, plugged[o]>>]
              IN /\ v # NoOne /\ screen'[o] = <<current, v.made>>
                 /\ v.made = art[current] \/ v.made < v.pub
    <3>1. o \in Output /\ l.res[o] = plugged[o] /\ plugged[o] # NoOne /\ plugged[o] \in Wanted(l)
      BY <2>1, MonitorAssumption DEF LiveLayout, Wanted, ReadyOutputs
    <3>2. FreshPicture(<<current, plugged[o]>>)
      BY <2>1, <3>1 DEF Covered
    <3>3. screen'[o] = Shown(o, plugged[o])
      BY <1>3, <3>1
    <3> QED
      BY <3>2, <3>3 DEF FreshPicture, Shown
  <2>3. sidecar.primary \in Live /\ sidecar.res = [o \in Output |-> IF o \in ReadyOutputs THEN plugged[o] ELSE NoOne]
    BY <2>1 DEF LiveLayout
  <2>4. /\ plugged' = plugged /\ current' = current /\ art' = art
        /\ ReadyOutputs' = ReadyOutputs /\ Live' = Live /\ sidecar' = sidecar /\ variant' = variant
    BY <1>3 DEF worldVars, ReadyOutputs, Live
  <2> QED
    BY <2>2, <2>3, <2>4 DEF RightNow
<1> QED
  BY <1>0, <1>1, <1>2, <1>3, ApplyMoves

LEMMA ScanStep == ASSUME MonitorInv, NEW p \in Run, Scan(p) PROVE MonitorInv'
<1> DEFINE want == Wanted(run[p].layout)
           fits(v) == stamp /\ variant[v] # NoOne /\ variant[v].pub >= art[v[1]]
           planned == {v \in {current} \X want : ~fits(v)}
           stale == {v \in Picture : stamp /\ variant[v] # NoOne /\ v[2] \notin want}
<1>0. MonitorShape /\ Versions /\ Stage(p) /\ ~Over(p) /\ ~At(p, "write") /\ run[p] \in Reconcile /\ run[p].pc = "scan"
  BY DEF MonitorInv, Scan, At, Over, MonitorShape, RunShape
<1>1. UNCHANGED <<worldVars, sidecar, tmp, fd, variant, stamp, screen>>
  BY DEF Scan
<1>2. /\ UNCHANGED <<plugged, current, art, sidecar, variant, screen>>
      /\ \A l : (LiveLayout(l) => LiveLayout(l)') /\ Wanted(l)' = Wanted(l)
      /\ ScreenRight => ScreenRight'
      /\ RightNow => RightNow'
  BY <1>1 DEF worldVars, LiveLayout, Wanted, ScreenRight, RightNow, Live, ReadyOutputs, Shown
<1>3. run[p].calm => sidecar = run[p].layout /\ LiveLayout(run[p].layout) /\ ScreenRight
  BY <1>0 DEF Stage
<1>4. want \subseteq Res
  BY <1>0 DEF Reconcile, Layout, Wanted
<1>5. CASE want = {} /\ Go(p, Done(p))
  <2> DEFINE r == Done(p)
  <2>1. r \in Reconcile /\ r.pc = "done" /\ r.calm = run[p].calm
    BY <1>0, IdleShape DEF Reconcile, RunStep, Done, Idle
  <2>2. Go(p, r)
    BY <1>5
  <2> HIDE DEF r
  <2>3. run[p].calm => RightNow
    BY <1>0, <1>3, <1>5, Settled DEF Covered
  <2>4. Stage(p)'
    BY <1>0, <1>2, <2>1, <2>2, <2>3 DEF Stage, Go, MonitorShape, RunShape
  <2> QED
    BY <1>0, <1>1, <2>1, <2>2, <2>4, RunOnlyMoves
<1>6. CASE Go(p, [run[p] EXCEPT !.pc = "plan", !.todo = planned, !.prune = stale])
  <2> DEFINE r == [run[p] EXCEPT !.pc = "plan", !.todo = planned, !.prune = stale]
  <2>0. planned \subseteq Picture /\ stale \subseteq Picture
    BY <1>0, <1>4 DEF Picture, MonitorShape, WorldShape
  <2> HIDE DEF want, planned, stale
  <2>1. /\ r \in Reconcile /\ r.pc = "plan" /\ r.calm = run[p].calm /\ r.layout = run[p].layout
        /\ r.todo = planned /\ r.prune = stale
    BY <1>0, <2>0 DEF Reconcile, RunStep
  <2>2. Go(p, r)
    BY <1>6
  <2>3. run'[p] = r
    BY <1>0, <2>2 DEF Go, MonitorShape, RunShape
  <2> HIDE DEF r
  <2>4. \A v \in r.prune : v[2] \notin Wanted(r.layout)
    BY <2>1 DEF stale, want
  <2>5. Covered(r.layout, r.todo)
    <3> SUFFICES ASSUME NEW x \in want, <<current, x>> \notin planned PROVE FreshPicture(<<current, x>>)
      BY <2>1 DEF Covered, want
    <3> DEFINE v == <<current, x>>
    <3>1. v \in Picture /\ v[1] = current /\ current \in Base
      BY <1>0, <1>4 DEF Picture, MonitorShape, WorldShape
    <3>2. fits(v)
      BY DEF planned
    <3>3. NotNewer(v) /\ variant[v] \in Version /\ art[current] \in Nat
      BY <1>0, <3>1, <3>2 DEF Versions, MonitorShape, PictureShape, WorldShape
    <3> QED
      BY <3>1, <3>2, <3>3 DEF NotNewer, FreshPicture, Version
  <2>6. \A l, owed : Covered(l, owed) => Covered(l, owed)'
    BY <1>2 DEF Covered, FreshPicture
  <2>7. Stage(p)'
    BY <1>2, <1>3, <2>1, <2>3, <2>4, <2>5, <2>6 DEF Stage
  <2> QED
    BY <1>0, <1>1, <2>1, <2>2, <2>7, RunOnlyMoves
<1> QED
  BY <1>5, <1>6 DEF Scan

LEMMA RenderStep == ASSUME MonitorInv, NEW p \in Run, Render(p) PROVE MonitorInv'
<1> DEFINE v == CHOOSE x \in run[p].todo : TRUE
           r == [run[p] EXCEPT !.pc = "render", !.todo = @ \ {v}, !.now = v, !.made = art[v[1]]]
<1>0. MonitorShape /\ Stage(p) /\ ~Over(p) /\ ~At(p, "write") /\ run[p] \in Reconcile /\ run[p].pc = "plan"
      /\ run[p].todo # {}
  BY DEF MonitorInv, Render, At, Over, MonitorShape, RunShape
<1>1. Go(p, r) /\ UNCHANGED <<worldVars, sidecar, tmp, fd, variant, stamp, screen>>
  BY DEF Render
<1>2. v \in run[p].todo /\ v \in Picture
  BY <1>0 DEF Reconcile
<1>3. art[v[1]] \in Nat
  BY <1>0, <1>2 DEF Picture, MonitorShape, WorldShape
<1> HIDE DEF v
<1>4. /\ r \in Reconcile /\ r.pc = "render" /\ r.calm = run[p].calm /\ r.layout = run[p].layout
      /\ r.now = v /\ r.made = art[v[1]] /\ r.new = run[p].new /\ r.prune = run[p].prune
      /\ r.todo = run[p].todo \ {v}
  BY <1>0, <1>2, <1>3 DEF Reconcile, RunStep
<1> HIDE DEF r
<1>5. run'[p] = r
  BY <1>0, <1>1 DEF Go, MonitorShape, RunShape
<1>6. /\ sidecar' = sidecar /\ (ScreenRight => ScreenRight')
      /\ \A l : LiveLayout(l) => LiveLayout(l)'
      /\ \A l, owed : Covered(l, owed) => Covered(l, owed)'
  BY <1>1 DEF worldVars, LiveLayout, ScreenRight, Live, ReadyOutputs, Shown, Covered, FreshPicture
<1>7. Stage(p)'
  <2>1. r.calm => /\ sidecar = r.layout /\ LiveLayout(r.layout) /\ (r.new \/ ScreenRight)
                  /\ \A x \in r.prune : x[2] \notin Wanted(r.layout)
                  /\ Covered(r.layout, run[p].todo)
    BY <1>0, <1>4 DEF Stage
  <2>2. r.todo \cup {r.now} = run[p].todo
    BY <1>2, <1>4
  <2>3. r.calm => Covered(r.layout, r.todo \cup {r.now})
    BY <2>1, <2>2
  <2> QED
    BY <1>4, <1>5, <1>6, <2>1, <2>3 DEF Stage
<1> QED
  BY <1>0, <1>1, <1>2, <1>3, <1>4, <1>7, RunOnlyMoves

LEMMA PublishStep == ASSUME MonitorInv, NEW p \in Run, PublishVariant(p) PROVE MonitorInv'
<1> DEFINE v == run[p].now
           new == [made |-> run[p].made, pub |-> art[v[1]]]
           next == [run[p] EXCEPT !.pc = "plan", !.now = NoOne, !.made = NoOne, !.new = TRUE]
<1>0. MonitorShape /\ Versions /\ Stage(p) /\ StreamsClosed /\ ~Over(p) /\ run[p] \in Reconcile /\ run[p].pc = "render"
  BY DEF MonitorInv, PublishVariant, At, Over, MonitorShape, RunShape
<1>1. /\ Go(p, next) /\ variant' = [variant EXCEPT ![v] = new]
      /\ UNCHANGED <<worldVars, sidecar, tmp, fd, stamp, screen>>
  BY DEF PublishVariant
<1>2. v \in Picture /\ run[p].made \in Nat /\ run[p].made <= art[v[1]] /\ fd[p] = "closed"
  BY <1>0 DEF Versions, At, StreamsClosed
<1>3. v[1] \in Base /\ art[v[1]] \in Nat
  BY <1>0, <1>2 DEF Picture, MonitorShape, WorldShape
<1>4. new \in Version /\ new # NoOne
  BY <1>2, <1>3, MonitorAssumption DEF Version
<1>5. PICK r \in Reconcile :
         /\ Go(p, r) /\ r.pc = "plan" /\ r.calm = run[p].calm /\ r.layout = run[p].layout
         /\ r.new /\ r.prune = run[p].prune /\ r.todo = run[p].todo
  <2>1. /\ next \in Reconcile /\ next.pc = "plan" /\ next.calm = run[p].calm /\ next.layout = run[p].layout
        /\ next.new /\ next.prune = run[p].prune /\ next.todo = run[p].todo
    BY <1>0 DEF Reconcile, RunStep
  <2> HIDE DEF next
  <2> QED
    BY <1>1, <2>1
<1>6. run'[p] = r
  BY <1>0, <1>5 DEF Go, MonitorShape, RunShape
<1>7. variant'[v] = new /\ \A x \in Picture \ {v} : variant'[x] = variant[x]
  BY <1>0, <1>1, <1>2 DEF MonitorShape, PictureShape
<1>8. WorldShape' /\ FileShape' /\ PictureShape' /\ art' = art
  BY <1>0, <1>1, <1>4 DEF MonitorShape, WorldShape, FileShape, PictureShape, worldVars
<1>9. \A x \in Picture : NotNewer(x)'
  BY <1>0, <1>2, <1>3, <1>7, <1>8 DEF Versions, NotNewer
<1>10. Stage(p)'
  <2>1. r.calm => /\ sidecar = r.layout /\ LiveLayout(r.layout)
                  /\ \A x \in r.prune : x[2] \notin Wanted(r.layout)
                  /\ Covered(r.layout, r.todo \cup {v})
    BY <1>0, <1>5 DEF Stage
  <2>2. sidecar' = sidecar /\ current' = current /\ \A l : LiveLayout(l) => LiveLayout(l)'
    BY <1>1 DEF worldVars, LiveLayout, Live, ReadyOutputs
  <2>3. \A x \in Picture : x = v \/ FreshPicture(x) => FreshPicture(x)'
    BY <1>2, <1>3, <1>4, <1>7, <1>8 DEF FreshPicture
  <2>4. ASSUME r.calm, NEW x \in Wanted(r.layout), <<current, x>> \notin r.todo PROVE FreshPicture(<<current, x>>)'
    <3>1. x \in Res /\ current \in Base
      BY <1>0, <1>5, <2>4 DEF Reconcile, Layout, Wanted, MonitorShape, WorldShape
    <3>2. <<current, x>> = v \/ FreshPicture(<<current, x>>)
      BY <2>1, <2>4 DEF Covered
    <3> QED
      BY <2>2, <2>3, <3>1, <3>2 DEF Picture
  <2>5. r.calm => Covered(r.layout, r.todo)'
    BY <2>2, <2>4 DEF Covered, Wanted, FreshPicture
  <2> QED
    BY <1>5, <1>6, <2>1, <2>2, <2>5 DEF Stage
<1> QED
  BY <1>0, <1>1, <1>2, <1>5, <1>8, <1>9, <1>10, RunMoves

LEMMA FailStep == ASSUME MonitorInv, NEW p \in Run, RenderFails(p) PROVE MonitorInv'
<1> DEFINE r == [run[p] EXCEPT !.pc = "plan", !.now = NoOne, !.made = NoOne, !.calm = FALSE]
<1>0. MonitorShape /\ StreamsClosed /\ ~Over(p) /\ run[p] \in Reconcile /\ run[p].pc = "render" /\ fd[p] = "closed"
  BY DEF MonitorInv, RenderFails, At, Over, MonitorShape, RunShape, StreamsClosed
<1>1. /\ Go(p, r) /\ faults' = faults + 1
      /\ UNCHANGED <<plugged, current, art, world, starts, sidecar, tmp, fd, variant, stamp, screen>>
  BY DEF RenderFails, Fault
<1>2. r \in Reconcile /\ r.pc = "plan" /\ ~r.calm
  BY <1>0 DEF Reconcile, RunStep
<1> HIDE DEF r
<1>3. WorldShape' /\ FileShape' /\ PictureShape' /\ \A v \in Picture : NotNewer(v)'
  BY <1>0, <1>1 DEF MonitorInv, MonitorShape, WorldShape, FileShape, PictureShape, Versions, NotNewer
<1>4. Stage(p)'
  BY <1>0, <1>1, <1>2 DEF Go, Stage, MonitorShape, RunShape
<1> QED
  BY <1>0, <1>1, <1>2, <1>3, <1>4, RunMoves

LEMMA FinishStep == ASSUME MonitorInv, NEW p \in Run, FinishVariants(p) PROVE MonitorInv'
<1>0. MonitorShape /\ Versions /\ Stage(p) /\ StreamsClosed /\ ~Over(p) /\ run[p] \in Reconcile /\ run[p].pc = "plan"
      /\ fd[p] = "closed" /\ run[p].todo = {}
  BY DEF MonitorInv, FinishVariants, At, Over, MonitorShape, RunShape, StreamsClosed
<1>1. /\ variant' = [v \in Picture |-> IF v \in run[p].prune THEN NoOne ELSE variant[v]] /\ stamp' = TRUE
      /\ UNCHANGED <<worldVars, sidecar, tmp, fd, screen>>
  BY DEF FinishVariants
<1>2. PICK r \in Reconcile :
         /\ Go(p, r) /\ r.calm = run[p].calm
         /\ \/ r.pc = "again" /\ r.layout = run[p].layout
            \/ r.pc = "done" /\ ~run[p].new
  <2>1. CASE run[p].new /\ To(p, "again")
    <3>1. [run[p] EXCEPT !.pc = "again"] \in Reconcile
      BY <1>0 DEF Reconcile, RunStep
    <3>2. /\ [run[p] EXCEPT !.pc = "again"].calm = run[p].calm
          /\ [run[p] EXCEPT !.pc = "again"].pc = "again"
          /\ [run[p] EXCEPT !.pc = "again"].layout = run[p].layout
      BY <1>0 DEF Reconcile
    <3>3. Go(p, [run[p] EXCEPT !.pc = "again"])
      BY <2>1 DEF To
    <3> DEFINE s == [run[p] EXCEPT !.pc = "again"]
    <3>4. s \in Reconcile /\ Go(p, s) /\ s.calm = run[p].calm /\ s.pc = "again" /\ s.layout = run[p].layout
      BY <3>1, <3>2, <3>3
    <3> HIDE DEF s
    <3> QED
      BY <3>4
  <2>2. CASE ~run[p].new /\ Go(p, Done(p))
    <3>1. Done(p) \in Reconcile /\ Done(p).pc = "done" /\ Done(p).calm = run[p].calm
      BY <1>0, IdleShape DEF Reconcile, RunStep, Done, Idle
    <3> QED
      BY <2>2, <3>1
  <2> QED
    BY <2>1, <2>2 DEF FinishVariants
<1>3. run'[p] = r
  BY <1>0, <1>2 DEF Go, MonitorShape, RunShape
<1>4. WorldShape' /\ FileShape' /\ PictureShape' /\ art' = art
  BY <1>0, <1>1 DEF MonitorShape, WorldShape, FileShape, PictureShape, worldVars
<1>5. \A v \in Picture : NotNewer(v)'
  BY <1>0, <1>1, <1>4 DEF Versions, NotNewer
<1>6. Stage(p)'
  <2>0. PICK l \in Layout : run[p].layout = l
    BY <1>0 DEF Reconcile
  <2>1. run[p].calm => /\ sidecar = l /\ LiveLayout(l) /\ (run[p].new \/ ScreenRight)
                       /\ Covered(l, {}) /\ \A v \in run[p].prune : v[2] \notin Wanted(l)
    BY <1>0, <2>0 DEF Stage
  <2>2. /\ sidecar' = sidecar /\ current' = current /\ plugged' = plugged /\ screen' = screen
        /\ ReadyOutputs' = ReadyOutputs /\ Live' = Live
        /\ \A k : (LiveLayout(k) => LiveLayout(k)') /\ Wanted(k)' = Wanted(k)
    BY <1>1 DEF worldVars, LiveLayout, Live, ReadyOutputs, Wanted
  <2>3. ASSUME run[p].calm, NEW x \in Wanted(l) PROVE variant'[<<current, x>>] = variant[<<current, x>>]
    <3>1. <<current, x>> \in Picture
      BY <1>0, <2>3 DEF Layout, Wanted, MonitorShape, WorldShape, Picture
    <3>2. <<current, x>> \notin run[p].prune
      BY <2>1, <2>3
    <3> QED
      BY <1>1, <3>1, <3>2
  <2>4. run[p].calm => \A x \in Wanted(l) : FreshPicture(<<current, x>>)'
    BY <1>4, <2>1, <2>2, <2>3 DEF Covered, FreshPicture
  <2>5. ASSUME run[p].calm, ScreenRight PROVE ScreenRight'
    <3> SUFFICES ASSUME NEW o \in ReadyOutputs PROVE screen[o] = Shown(o, plugged[o])'
      BY <2>2 DEF ScreenRight
    <3>1. plugged[o] \in Wanted(l)
      BY <2>1, <2>5, MonitorAssumption DEF LiveLayout, Wanted, ReadyOutputs
    <3>2. screen[o] = Shown(o, plugged[o])
      BY <2>5 DEF ScreenRight
    <3> QED
      BY <2>2, <2>3, <2>5, <3>1, <3>2 DEF Shown
  <2>6. CASE r.pc = "again" /\ r.layout = l
    <3>1. r.calm => Covered(r.layout, {})'
      BY <1>2, <2>2, <2>4, <2>6 DEF Covered
    <3> QED
      BY <1>2, <1>3, <2>1, <2>2, <2>6, <3>1 DEF Stage
  <2>7. CASE r.pc = "done" /\ ~run[p].new
    <3> SUFFICES ASSUME r.calm PROVE RightNow'
      BY <1>3, <2>7 DEF Stage
    <3>1. sidecar = l /\ LiveLayout(l) /\ ScreenRight' /\ \A x \in Wanted(l) : FreshPicture(<<current, x>>)'
      BY <1>2, <2>1, <2>4, <2>5, <2>7
    <3>2. ASSUME NEW o \in ReadyOutputs
          PROVE LET v == variant'[<<current, plugged[o]>>]
                IN /\ v # NoOne /\ screen'[o] = <<current, v.made>>
                   /\ v.made = art'[current] \/ v.made < v.pub
      <4>1. plugged[o] \in Wanted(l)
        BY <3>1, MonitorAssumption DEF LiveLayout, Wanted, ReadyOutputs
      <4>2. FreshPicture(<<current, plugged[o]>>)'
        BY <2>2, <3>1, <4>1 DEF FreshPicture
      <4>3. screen'[o] = Shown(o, plugged[o])'
        BY <2>2, <3>1 DEF ScreenRight
      <4> QED
        BY <2>2, <4>2, <4>3 DEF FreshPicture, Shown
    <3> QED
      BY <2>2, <3>1, <3>2 DEF RightNow, LiveLayout
  <2> QED
    BY <1>2, <2>0, <2>6, <2>7
<1> QED
  BY <1>0, <1>1, <1>2, <1>4, <1>5, <1>6, RunMoves

LEMMA MonitorStep == MonitorInv /\ [MonitorNext]_monitorVars => MonitorInv'
<1> SUFFICES ASSUME MonitorInv, [MonitorNext]_monitorVars PROVE MonitorInv'
  OBVIOUS
<1>2. ASSUME NEW o \in Output, NEW m \in Res \cup {"off", "zero"}, SetMode(o, m) PROVE MonitorInv'
  BY <1>2, WorldStep
<1>3. ASSUME NEW c \in Base, Rotate(c) \/ NewArt(c) PROVE MonitorInv'
  BY <1>3, WorldStep
<1>4. ASSUME NEW p \in Run, StartRun(p) \/ Derive(p) \/ OpenTmp(p) \/ WriteTmp(p) \/ RenameTmp(p) \/ Apply(p) \/ Scan(p)
      PROVE  MonitorInv'
  BY <1>4, StartStep, DeriveStep, OpenStep, WriteStep, RenameStep, ApplyStep, ScanStep
<1>5. ASSUME NEW p \in Run, Render(p) \/ PublishVariant(p) \/ RenderFails(p) \/ FinishVariants(p) \/ ApplyAgain(p) \/ KillRun(p)
      PROVE  MonitorInv'
  BY <1>5, RenderStep, PublishStep, FailStep, FinishStep, ApplyAgainStep, KillStep
<1>6. CASE UNCHANGED monitorVars
  BY <1>6 DEF monitorVars, MonitorInv, MonitorShape, WorldShape, FileShape, PictureShape, RunShape, Versions, NotNewer,
     Alone, StreamsClosed, Stage, At, Over, LiveLayout, KeptPrimary, ScreenRight, Covered, FreshPicture, Wanted, Shown, RightNow,
     Live, ReadyOutputs
<1> QED
  BY <1>2, <1>3, <1>4, <1>5, <1>6 DEF MonitorNext

(* An undisturbed reconcile leaves everything right, whatever the runs     *)
(* before it left, for any outputs, modes, artwork and number of runs.     *)
THEOREM ReconcilesSettle == MonitorSpec => []ReconcileSettles
<1>1. MonitorInv => ReconcileSettles
  BY DEF MonitorInv, Stage, ReconcileSettles, At
<1> QED
  BY <1>1, MonitorStart, MonitorStep, PTL DEF MonitorSpec

(* A run with no other beside it keeps the primary on record while that    *)
(* output is there, for any outputs and number of runs.                    *)
THEOREM PrimaryIsSticky == MonitorSpec => PrimarySticks
<1>1. ASSUME MonitorInv, [MonitorNext]_monitorVars, NEW p \in Run,
             At(p, "rename"), run[p].calm, sidecar # Torn, sidecar' # sidecar, sidecar.primary \in Live
      PROVE  sidecar'.primary = sidecar.primary
  <2>1. PICK q \in Run : WriteTmp(q) \/ RenameTmp(q)
    BY <1>1 DEF MonitorNext, monitorVars, SetMode, Rotate, NewArt, Happens, StartRun, Derive, OpenTmp, Apply, ApplyAgain,
       ApplyTo, Scan, Render, PublishVariant, RenderFails, FinishVariants, KillRun
  <2>2. q = p
    BY <1>1, <2>1 DEF MonitorInv, Alone, Over, WriteTmp, RenameTmp, At
  <2>3. RenameTmp(p)
    BY <1>1, <2>1, <2>2 DEF WriteTmp, At
  <2>4. sidecar' = tmp
    BY <1>1, <2>3 DEF RenameTmp
  <2> QED
    BY <1>1, <2>4 DEF MonitorInv, Stage, KeptPrimary, At
<1>2. MonitorInv /\ [MonitorNext]_monitorVars =>
        [\A p \in Run :
          At(p, "rename") /\ run[p].calm /\ sidecar # Torn /\ sidecar' # sidecar /\ sidecar.primary \in Live
             => sidecar'.primary = sidecar.primary]_monitorVars
  BY <1>1
<1> QED
  BY <1>2, MonitorStart, MonitorStep, PTL DEF MonitorSpec, PrimarySticks

-----------------------------------------------------------------------------
(* Every version is one of the world's, so the bounds of the model hold    *)
(* for the pictures, the outputs and the runs as well.                     *)
Ages == 0..MaxWorld \cup {NoOne}
Sights == {NoOne} \cup (Base \X Ages)
MonitorBounds ==
    /\ world \in 0..MaxWorld /\ starts \in 0..MaxStarts /\ faults \in 0..MaxFaults
    /\ \A b \in Base : art[b] <= world
    /\ screen \in [Output -> Sights]
    /\ \A p \in Run : run[p].made \in Ages

LEMMA AgesOfPictures ==
  ASSUME MonitorInv, MonitorBounds
  PROVE  /\ \A b \in Base : art[b] \in 0..MaxWorld
         /\ \A v \in Picture : variant[v] # NoOne =>
               variant[v].made \in 0..MaxWorld /\ variant[v].pub \in 0..MaxWorld
<1>1. ASSUME NEW b \in Base PROVE art[b] \in 0..MaxWorld
  BY MonitorAssumption DEF MonitorInv, MonitorShape, WorldShape, MonitorBounds
<1>2. ASSUME NEW v \in Picture, variant[v] # NoOne
      PROVE  variant[v].made \in 0..MaxWorld /\ variant[v].pub \in 0..MaxWorld
  <2>1. v[1] \in Base /\ variant[v] \in Version
    BY <1>2 DEF Picture, MonitorInv, MonitorShape, PictureShape
  <2>2. variant[v].made <= variant[v].pub /\ variant[v].pub <= art[v[1]]
    BY <1>2 DEF MonitorInv, Versions, NotNewer
  <2>3. variant[v].made \in Nat /\ variant[v].pub \in Nat
    BY <2>1 DEF Version
  <2> QED
    BY <1>1, <2>1, <2>2, <2>3, MonitorAssumption
<1> QED
  BY <1>1, <1>2

LEMMA ShownIsASight ==
  ASSUME MonitorInv, MonitorBounds, NEW o \in Output, NEW r \in Res
  PROVE  Shown(o, r) \in Sights
<1>1. current \in Base /\ <<current, r>> \in Picture
  BY DEF MonitorInv, MonitorShape, WorldShape, Picture
<1>2. variant[<<current, r>>] # NoOne => variant[<<current, r>>].made \in 0..MaxWorld
  BY <1>1, AgesOfPictures
<1> QED
  BY <1>1, <1>2 DEF Shown, Sights, Ages

(* A step of one run that changes no version and shows no new sight.       *)
LEMMA AgesOfRuns ==
  ASSUME MonitorInv, MonitorBounds, NEW p \in Run, NEW r, Go(p, r), r.made \in Ages,
         UNCHANGED <<world, starts, art>>, faults' \in 0..MaxFaults, screen' \in [Output -> Sights]
  PROVE  MonitorBounds'
<1>1. \A q \in Run : run'[q] = IF q = p THEN r ELSE run[q]
  BY DEF Go, MonitorInv, MonitorShape, RunShape
<1> QED
  BY <1>1 DEF MonitorBounds

LEMMA FaultIsBounded == ASSUME MonitorBounds, Fault PROVE faults' \in 0..MaxFaults
BY MonitorAssumption DEF MonitorBounds, Fault

LEMMA ApplyIsBounded ==
  ASSUME MonitorInv, MonitorBounds, NEW p \in Run, NEW next \in Reconcile, ApplyTo(p, next), next.made \in Ages
  PROVE  MonitorBounds'
<1>1. CASE Fault /\ Go(p, [next EXCEPT !.calm = FALSE]) /\ UNCHANGED screen
  <2>1. [next EXCEPT !.calm = FALSE].made = next.made
    BY DEF Reconcile
  <2> DEFINE r == [next EXCEPT !.calm = FALSE]
  <2> HIDE DEF r
  <2>2. Go(p, r) /\ r.made \in Ages
    BY <1>1, <2>1 DEF r
  <2>3. faults' \in 0..MaxFaults /\ screen' \in [Output -> Sights] /\ UNCHANGED <<world, starts, art>>
    BY <1>1, FaultIsBounded DEF MonitorBounds, Fault
  <2> QED
    BY <2>2, <2>3, AgesOfRuns
<1>2. CASE /\ screen' = [o \in Output |->
                IF o \in ReadyOutputs /\ run[p].layout.res[o] # NoOne
                  THEN Shown(o, run[p].layout.res[o]) ELSE screen[o]]
           /\ Go(p, next) /\ UNCHANGED worldVars
  <2>1. ASSUME NEW o \in Output, run[p].layout.res[o] # NoOne PROVE run[p].layout.res[o] \in Res
    BY <2>1 DEF MonitorInv, MonitorShape, RunShape, Reconcile, Layout
  <2>2. screen \in [Output -> Sights]
    BY DEF MonitorBounds
  <2>3. screen' \in [Output -> Sights]
    BY <1>2, <2>1, <2>2, ShownIsASight
  <2> QED
    BY <1>2, <2>3, AgesOfRuns DEF MonitorBounds, worldVars
<1> QED
  BY <1>1, <1>2 DEF ApplyTo

LEMMA BoundsInductive == MonitorInv /\ MonitorBounds /\ [MonitorNext]_monitorVars => MonitorBounds'
<1> SUFFICES ASSUME MonitorInv, MonitorBounds, [MonitorNext]_monitorVars PROVE MonitorBounds'
  OBVIOUS
<1> USE MonitorAssumption
<1>0. /\ run \in [Run -> Reconcile] /\ \A p \in Run : run[p] \in Reconcile /\ run[p].made \in Ages
      /\ \A b \in Base : art[b] \in Nat /\ art \in [Base -> Nat]
      /\ screen \in [Output -> Sights] /\ NoOne \in Ages /\ Idle.made \in Ages
      /\ world \in 0..MaxWorld /\ starts \in 0..MaxStarts /\ faults \in 0..MaxFaults
  BY DEF MonitorInv, MonitorShape, WorldShape, RunShape, MonitorBounds, Ages, Idle
<1>1. ASSUME Happens, screen' \in [Output -> Sights], art' \in [Base -> Nat],
             \A b \in Base : art'[b] <= art[b] + 1
      PROVE  MonitorBounds'
  <2>1. world' \in 0..MaxWorld /\ world' = world + 1 /\ UNCHANGED <<starts, faults>>
    BY <1>0, <1>1 DEF Happens
  <2>2. \A b \in Base : art'[b] <= world'
    BY <1>0, <1>1, <2>1 DEF MonitorBounds
  <2>3. \A p \in Run : run'[p].made = run[p].made
    BY <1>0, <1>1 DEF Happens, Disturbed, Reconcile
  <2> QED
    BY <1>0, <1>1, <2>1, <2>2, <2>3 DEF MonitorBounds
<1>2. ASSUME NEW o \in Output, NEW m \in Res \cup {"off", "zero"}, SetMode(o, m) PROVE MonitorBounds'
  <2>1. screen' \in [Output -> Sights]
    BY <1>0, <1>2 DEF SetMode, Sights
  <2>2. Happens /\ art' = art
    BY <1>2 DEF SetMode
  <2> QED
    BY <1>0, <1>1, <2>1, <2>2
<1>3. ASSUME NEW b \in Base, Rotate(b) PROVE MonitorBounds'
  <2>1. Happens /\ art' = art /\ screen' = screen
    BY <1>3 DEF Rotate
  <2> QED
    BY <1>0, <1>1, <2>1
<1>4. ASSUME NEW b \in Base, NewArt(b) PROVE MonitorBounds'
  <2>1. Happens /\ screen' = screen /\ art' = [art EXCEPT ![b] = art[b] + 1]
    BY <1>4 DEF NewArt
  <2>2. art' \in [Base -> Nat] /\ \A c \in Base : art'[c] <= art[c] + 1
    BY <1>0, <2>1
  <2> QED
    BY <1>0, <1>1, <2>1, <2>2
<1>5. ASSUME NEW p \in Run, StartRun(p) PROVE MonitorBounds'
  <2>1. PICK known \in {l.primary : l \in Readings} :
          run' = [q \in Run |->
             IF q = p THEN [Idle EXCEPT !.pc = "derive", !.layout.primary = known,
                                        !.calm = \A x \in Run : Over(x)]
             ELSE [run[q] EXCEPT !.calm = FALSE]]
    BY <1>5 DEF StartRun
  <2>2. \A q \in Run : run'[q].made \in Ages
    BY <1>0, <2>1 DEF Idle, Reconcile
  <2>3. starts' \in 0..MaxStarts /\ UNCHANGED <<world, faults, art, screen>>
    <3>1. starts < MaxStarts /\ starts' = starts + 1 /\ UNCHANGED <<world, faults, art, screen>>
      BY <1>5 DEF StartRun
    <3> QED
      BY <1>0, <3>1
  <2> QED
    BY <1>0, <2>2, <2>3 DEF MonitorBounds
<1>6. ASSUME NEW p \in Run, NEW r, Go(p, r), r.made \in Ages, UNCHANGED <<worldVars, screen>> PROVE MonitorBounds'
  BY <1>0, <1>6, AgesOfRuns DEF worldVars
<1>7. ASSUME NEW p \in Run, NEW pc, To(p, pc), UNCHANGED <<worldVars, screen>> PROVE MonitorBounds'
  <2>1. [run[p] EXCEPT !.pc = pc].made = run[p].made
    BY <1>0 DEF Reconcile
  <2> QED
    BY <1>0, <1>6, <1>7, <2>1 DEF To
<1>8. ASSUME NEW p \in Run, Derive(p) PROVE MonitorBounds'
  <2>1. CASE Go(p, Idle)
    BY <1>0, <1>6, <1>8, <2>1 DEF Derive
  <2>2. CASE \E first \in Live :
              Go(p, [run[p] EXCEPT !.pc = "open",
                        !.layout = [primary |-> IF @.primary \in Live THEN @.primary ELSE first,
                                    res |-> [o \in Output |-> IF o \in ReadyOutputs THEN plugged[o] ELSE NoOne]]])
    <3>1. PICK l : Go(p, [run[p] EXCEPT !.pc = "open", !.layout = l])
      BY <2>2
    <3>2. [run[p] EXCEPT !.pc = "open", !.layout = l].made = run[p].made
      BY <1>0 DEF Reconcile
    <3> QED
      BY <1>0, <1>6, <1>8, <3>1, <3>2 DEF Derive
  <2> QED
    BY <1>8, <2>1, <2>2 DEF Derive
<1>9. ASSUME NEW p \in Run, OpenTmp(p) PROVE MonitorBounds'
  BY <1>7, <1>9 DEF OpenTmp
<1>10. ASSUME NEW p \in Run, WriteTmp(p) PROVE MonitorBounds'
  BY <1>7, <1>10 DEF WriteTmp
<1>11. ASSUME NEW p \in Run, RenameTmp(p) PROVE MonitorBounds'
  <2>1. Go(p, Idle) \/ To(p, "apply")
    BY <1>11 DEF RenameTmp
  <2> QED
    BY <1>0, <1>6, <1>7, <1>11, <2>1 DEF RenameTmp
<1>12. ASSUME NEW p \in Run, Apply(p) PROVE MonitorBounds'
  <2> DEFINE r == [run[p] EXCEPT !.pc = "scan"]
  <2>1. r \in Reconcile /\ r.made = run[p].made
    BY <1>0 DEF Reconcile, RunStep
  <2>2. ApplyTo(p, r)
    BY <1>12 DEF Apply
  <2> HIDE DEF r
  <2> QED
    BY <1>0, <2>1, <2>2, ApplyIsBounded
<1>13. ASSUME NEW p \in Run PROVE Done(p) \in Reconcile /\ Done(p).made \in Ages
  BY <1>0, IdleShape DEF Done, Reconcile, RunStep, Idle
<1>14. ASSUME NEW p \in Run, ApplyAgain(p) PROVE MonitorBounds'
  BY <1>13, <1>14, ApplyIsBounded DEF ApplyAgain
<1>15. ASSUME NEW p \in Run, Scan(p) PROVE MonitorBounds'
  <2>1. Go(p, Done(p)) \/ \E t, u : Go(p, [run[p] EXCEPT !.pc = "plan", !.todo = t, !.prune = u])
    BY <1>15 DEF Scan
  <2>2. \A t, u : [run[p] EXCEPT !.pc = "plan", !.todo = t, !.prune = u].made = run[p].made
    BY <1>0 DEF Reconcile
  <2>3. UNCHANGED <<worldVars, screen>>
    BY <1>15 DEF Scan
  <2> QED
    BY <1>0, <1>6, <1>13, <2>1, <2>2, <2>3
<1>16. ASSUME NEW p \in Run, Render(p) PROVE MonitorBounds'
  <2> DEFINE v == CHOOSE x \in run[p].todo : TRUE
             r == [run[p] EXCEPT !.pc = "render", !.todo = @ \ {v}, !.now = v, !.made = art[v[1]]]
  <2>1. v \in Picture
    BY <1>0, <1>16 DEF Render, Reconcile
  <2>2. Go(p, r) /\ UNCHANGED <<worldVars, screen>>
    BY <1>16 DEF Render
  <2> HIDE DEF v
  <2>3. art[v[1]] \in Ages
    BY <2>1, AgesOfPictures DEF Picture, Ages
  <2>4. r.made = art[v[1]]
    BY <1>0 DEF Reconcile
  <2> HIDE DEF r
  <2> QED
    BY <1>6, <2>2, <2>3, <2>4
<1>17. ASSUME NEW p \in Run, PublishVariant(p) PROVE MonitorBounds'
  <2>1. [run[p] EXCEPT !.pc = "plan", !.now = NoOne, !.made = NoOne, !.new = TRUE].made = NoOne
    BY <1>0 DEF Reconcile
  <2> QED
    BY <1>0, <1>6, <1>17, <2>1 DEF PublishVariant
<1>18. ASSUME NEW p \in Run, NEW r, Go(p, r), r.made \in Ages, Fault, UNCHANGED screen PROVE MonitorBounds'
  BY <1>0, <1>18, AgesOfRuns, FaultIsBounded DEF Fault
<1>19. ASSUME NEW p \in Run, RenderFails(p) PROVE MonitorBounds'
  <2>1. [run[p] EXCEPT !.pc = "plan", !.now = NoOne, !.made = NoOne, !.calm = FALSE].made = NoOne
    BY <1>0 DEF Reconcile
  <2> QED
    BY <1>0, <1>18, <1>19, <2>1 DEF RenderFails
<1>20. ASSUME NEW p \in Run, FinishVariants(p) PROVE MonitorBounds'
  <2>1. (To(p, "again") \/ Go(p, Done(p))) /\ UNCHANGED <<worldVars, screen>>
    BY <1>20 DEF FinishVariants
  <2> QED
    BY <1>6, <1>7, <1>13, <2>1
<1>21. ASSUME NEW p \in Run, KillRun(p) PROVE MonitorBounds'
  BY <1>0, <1>18, <1>21 DEF KillRun
<1>22. ASSUME UNCHANGED monitorVars PROVE MonitorBounds'
  BY <1>22 DEF monitorVars, MonitorBounds
<1> QED
  BY <1>2, <1>3, <1>4, <1>5, <1>8, <1>9, <1>10, <1>11, <1>12, <1>14, <1>15, <1>16, <1>17, <1>19, <1>20, <1>21, <1>22
  DEF MonitorNext

(* The state of the outputs, the files, the pictures and the runs keeps    *)
(* its type: no version is ever one that the artwork did not have.         *)
THEOREM MonitorTypes == MonitorSpec => []MonitorTypeOK
<1>1. MonitorInit => MonitorBounds
  <2> SUFFICES ASSUME MonitorInit PROVE MonitorBounds
    OBVIOUS
  <2>1. \A p \in Run : run[p].made = NoOne
    BY DEF MonitorInit, Idle
  <2> QED
    BY <2>1, MonitorAssumption DEF MonitorInit, MonitorBounds, Ages, Sights
<1>2. MonitorInv /\ MonitorBounds => MonitorTypeOK
  <2> SUFFICES ASSUME MonitorInv, MonitorBounds PROVE MonitorTypeOK
    OBVIOUS
  <2>1. art \in [Base -> 0..MaxWorld]
    BY AgesOfPictures DEF MonitorInv, MonitorShape, WorldShape
  <2>2. variant \in [Picture -> {NoOne} \cup [made: 0..MaxWorld, pub: 0..MaxWorld]]
    <3>1. variant \in [Picture -> {NoOne} \cup Version]
      BY DEF MonitorInv, MonitorShape, PictureShape
    <3>2. \A v \in Picture : variant[v] \in {NoOne} \cup [made: 0..MaxWorld, pub: 0..MaxWorld]
      BY <3>1, AgesOfPictures DEF Version
    <3> QED
      BY <3>1, <3>2
  <2>3. ASSUME NEW p \in Run
        PROVE  /\ run[p].pc \in RunStep /\ run[p].layout \in Layout
               /\ run[p].todo \subseteq Picture /\ run[p].prune \subseteq Picture
               /\ run[p].now \in Picture \cup {NoOne} /\ run[p].made \in Ages
               /\ run[p].new \in BOOLEAN /\ run[p].calm \in BOOLEAN
    <3>1. run[p] \in Reconcile
      BY DEF MonitorInv, MonitorShape, RunShape
    <3> QED
      BY <3>1 DEF Reconcile, MonitorBounds
  <2> QED
    BY <2>1, <2>2, <2>3 DEF MonitorInv, MonitorShape, WorldShape, FileShape, PictureShape, MonitorBounds, MonitorTypeOK,
                            Ages, Sights, RunStep
<1> QED
  BY <1>1, <1>2, MonitorStart, MonitorStep, BoundsInductive, PTL DEF MonitorSpec
=============================================================================
