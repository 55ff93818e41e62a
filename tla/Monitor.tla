------------------------------ MODULE Monitor ------------------------------
(***************************************************************************)
(* fox-monitor: after a monitor event it derives the layout from the live  *)
(* compositor, publishes it in a sidecar file, shows the current wallpaper *)
(* on every output, renders the variants that are missing (which can take  *)
(* minutes) and shows the finished ones.  fox-pulse starts one run per     *)
(* event, so runs overlap; each may be killed at any point.                *)
(*                                                                         *)
(* A wallpaper is its version, that is the mtime of its source; a variant  *)
(* is the version it was made from and the one of the day it was finished. *)
(***************************************************************************)
EXTENDS Integers

CONSTANTS Output, Res, Base, NoOne, Torn,
    MaxWorld,     \* bound: plugs, mode changes, rotations and new artwork
    MaxStarts,    \* bound: runs started
    MaxFaults,    \* bound: renderers that fail, a wallpaper daemon that is silent, kills
    MaxOverlap    \* bound: runs at a time

ASSUME MonitorAssumption ==
    /\ Res # {} /\ Base # {}
    /\ NoOne \notin Output \cup Res \cup Base /\ NoOne \notin [made: Nat, pub: Nat]
    /\ MaxWorld \in Nat /\ MaxStarts \in Nat /\ MaxFaults \in Nat /\ MaxOverlap \in Nat

Run == 1..MaxOverlap
Layout == [primary: Output \cup {NoOne}, res: [Output -> Res \cup {NoOne}]]
Picture == Base \X Res
NoLayout == [primary |-> NoOne, res |-> [o \in Output |-> NoOne]]   \* no file, or an empty one
Idle == [pc |-> "idle", layout |-> NoLayout, todo |-> {}, prune |-> {}, now |-> NoOne, made |-> NoOne, new |-> FALSE, calm |-> FALSE]

VARIABLES
    plugged,     \* per output "off", "zero" (mid-modeset) or its resolution
    current,     \* the .current symlink
    art,         \* per base the version of its source
    world, starts, faults,  \* changes, runs started and faults so far
    sidecar,     \* monitor-layout.conf: a layout, or Torn
    tmp,         \* monitor-layout.conf.foxin.tmp: NoOne, a layout, or Torn
    fd,          \* per run the file its open stream writes to
    variant,     \* per picture NoOne or its versions
    stamp,       \* .variant-recipe holds RECIPE_VERSION
    screen,      \* per output NoOne, or the base shown and the version (NoOne: the cropped source)
    run          \* per run its program counter and locals

worldVars == <<plugged, current, art, world, starts, faults>>
monitorVars == <<plugged, current, art, world, starts, faults, sidecar, tmp, fd, variant, stamp, screen, run>>

MonitorTypeOK ==
    /\ plugged \in [Output -> Res \cup {"off", "zero"}] /\ current \in Base
    /\ art \in [Base -> 0..MaxWorld] /\ world \in 0..MaxWorld /\ starts \in 0..MaxStarts /\ faults \in 0..MaxFaults
    /\ sidecar \in Layout \cup {Torn} /\ tmp \in Layout \cup {NoOne, Torn}
    /\ fd \in [Run -> {"closed", "tmp", "sidecar", "gone"}]
    /\ variant \in [Picture -> {NoOne} \cup [made: 0..MaxWorld, pub: 0..MaxWorld]]
    /\ stamp \in BOOLEAN
    /\ screen \in [Output -> {NoOne} \cup (Base \X (0..MaxWorld \cup {NoOne}))]
    /\ \A p \in Run :
          /\ run[p].pc \in {"idle", "derive", "open", "write", "rename", "apply", "scan",
                            "plan", "render", "again", "done"}
          /\ run[p].layout \in Layout
          /\ run[p].todo \subseteq Picture /\ run[p].prune \subseteq Picture
          /\ run[p].now \in Picture \cup {NoOne} /\ run[p].made \in 0..MaxWorld \cup {NoOne}
          /\ run[p].new \in BOOLEAN /\ run[p].calm \in BOOLEAN

MonitorInit ==
    /\ \E o \in Output : plugged = [x \in Output |-> IF x = o THEN CHOOSE r \in Res : TRUE ELSE "off"]
    /\ current = CHOOSE b \in Base : TRUE
    /\ art = [b \in Base |-> 0] /\ world = 0 /\ starts = 0 /\ faults = 0
    /\ sidecar = NoLayout /\ tmp = NoOne /\ fd = [p \in Run |-> "closed"]
    /\ variant = [v \in Picture |-> NoOne]
    /\ stamp = FALSE /\ screen = [o \in Output |-> NoOne]
    /\ run = [p \in Run |-> Idle]

-----------------------------------------------------------------------------
Disturbed == [p \in Run |-> [run[p] EXCEPT !.calm = FALSE]]
Happens ==
    /\ world < MaxWorld /\ world' = world + 1
    /\ run' = Disturbed
    /\ UNCHANGED <<starts, faults, sidecar, tmp, fd, variant, stamp>>

(* A monitor is plugged, unplugged, or changes its mode.                   *)
SetMode(o, m) ==
    /\ Happens /\ plugged[o] # m
    /\ plugged' = [plugged EXCEPT ![o] = m]
    /\ screen' = [screen EXCEPT ![o] = NoOne]
    /\ UNCHANGED <<current, art>>

Rotate(b) ==
    /\ Happens /\ b # current /\ current' = b
    /\ UNCHANGED <<plugged, art, screen>>

NewArt(b) ==
    /\ Happens /\ art' = [art EXCEPT ![b] = @ + 1]
    /\ UNCHANGED <<plugged, current, screen>>

-----------------------------------------------------------------------------
At(p, pc) == run[p].pc = pc
Go(p, r) == run' = [run EXCEPT ![p] = r]
Fault ==
    /\ faults < MaxFaults /\ faults' = faults + 1
    /\ UNCHANGED <<plugged, current, art, world, starts>>
Over(p) == run[p].pc \in {"idle", "done"}
Done(p) == [Idle EXCEPT !.pc = "done", !.calm = run[p].calm]
To(p, pc) == Go(p, [run[p] EXCEPT !.pc = pc])
Live == {o \in Output : plugged[o] # "off"}
ReadyOutputs == {o \in Output : plugged[o] \in Res}
Readings == IF sidecar = Torn THEN Layout ELSE {sidecar}
Wanted(l) == {l.res[o] : o \in Output} \ {NoOne}

(* A run starts and reads the sidecar for the primary it names.            *)
StartRun(p) ==
    /\ Over(p) /\ starts < MaxStarts /\ starts' = starts + 1
    /\ \A q \in Run : q < p => ~Over(q)
    /\ \E known \in {l.primary : l \in Readings} :
         run' = [q \in Run |->
             IF q = p THEN [Idle EXCEPT !.pc = "derive", !.layout.primary = known,
                                        !.calm = \A x \in Run : Over(x)]
             ELSE [run[q] EXCEPT !.calm = FALSE]]
    /\ UNCHANGED <<plugged, current, art, world, faults, sidecar, tmp, fd, variant, stamp, screen>>

(* Fault: the primary is whatever the compositor reports first.            *)
DeriveFirst(p) ==
    /\ At(p, "derive")
    /\ IF Live = {} THEN Go(p, Idle)
       ELSE \E first \in Live :
              Go(p, [run[p] EXCEPT !.pc = "open",
                        !.layout = [primary |-> first,
                                    res |-> [o \in Output |-> IF o \in ReadyOutputs THEN plugged[o] ELSE NoOne]]])
    /\ UNCHANGED <<worldVars, sidecar, tmp, fd, variant, stamp, screen>>

(* hyprctl's answer, taken when every mode is committed or the tries are   *)
(* used up: a monitor without a mode is left out, a recorded primary that  *)
(* is still listed is kept.                                                *)
Derive(p) ==
    /\ At(p, "derive")
    /\ IF Live = {} THEN Go(p, Idle)
       ELSE \E first \in Live :
              Go(p, [run[p] EXCEPT !.pc = "open",
                        !.layout = [primary |-> IF @.primary \in Live THEN @.primary ELSE first,
                                    res |-> [o \in Output |-> IF o \in ReadyOutputs THEN plugged[o] ELSE NoOne]]])
    /\ UNCHANGED <<worldVars, sidecar, tmp, fd, variant, stamp, screen>>

(* sidecar::write, over one temporary name for all runs: the stream        *)
(* truncates the file, writes to whatever its inode is called by then, and *)
(* the rename publishes what the name holds.                               *)
OpenTmp(p) ==
    /\ At(p, "open") /\ To(p, "write")
    /\ tmp' = NoLayout /\ fd' = [fd EXCEPT ![p] = "tmp"]
    /\ UNCHANGED <<worldVars, sidecar, variant, stamp, screen>>

Overwritten(old, l) == IF old \in {NoLayout, l} THEN {l} ELSE {l, Torn}

WriteTmp(p) ==
    /\ At(p, "write") /\ To(p, "rename")
    /\ fd' = [fd EXCEPT ![p] = "closed"]
    /\ CASE fd[p] = "tmp" -> tmp' \in Overwritten(tmp, run[p].layout) /\ UNCHANGED sidecar
         [] fd[p] = "sidecar" -> sidecar' \in Overwritten(sidecar, run[p].layout) /\ UNCHANGED tmp
         [] OTHER -> UNCHANGED <<tmp, sidecar>>
    /\ UNCHANGED <<worldVars, variant, stamp, screen>>

RenameTmp(p) ==
    /\ At(p, "rename")
    /\ IF tmp = NoOne
         THEN Go(p, Idle) /\ UNCHANGED <<sidecar, tmp, fd>>
         ELSE /\ sidecar' = tmp
              /\ tmp' = NoOne
              /\ fd' = [q \in Run |-> CASE fd[q] = "tmp" -> "sidecar" [] fd[q] = "sidecar" -> "gone" [] OTHER -> fd[q]]
              /\ To(p, "apply")
    /\ UNCHANGED <<worldVars, variant, stamp, screen>>

(* apply_current: on every output of the layout the variant, or the source *)
(* cropped.  The wallpaper daemon may not answer.                          *)
Shown(o, r) == IF variant[<<current, r>>] = NoOne THEN <<current, NoOne>> ELSE <<current, variant[<<current, r>>].made>>

ApplyTo(p, next) ==
    /\ \/ /\ screen' = [o \in Output |->
                IF o \in ReadyOutputs /\ run[p].layout.res[o] # NoOne
                  THEN Shown(o, run[p].layout.res[o]) ELSE screen[o]]
          /\ Go(p, next) /\ UNCHANGED worldVars
       \/ Fault /\ Go(p, [next EXCEPT !.calm = FALSE]) /\ UNCHANGED screen
    /\ UNCHANGED <<sidecar, tmp, fd, variant, stamp>>

Apply(p) == At(p, "apply") /\ ApplyTo(p, [run[p] EXCEPT !.pc = "scan"])
ApplyAgain(p) == At(p, "again") /\ ApplyTo(p, Done(p))

(* generate: what to render and what to remove, from one look at the       *)
(* directory.  A changed recipe looks at no variant at all. *)
Scan(p) ==
    /\ At(p, "scan")
    /\ LET want == Wanted(run[p].layout)
           fits(v) == stamp /\ variant[v] # NoOne /\ variant[v].pub >= art[v[1]]
       IN IF want = {} THEN Go(p, Done(p))
          ELSE Go(p, [run[p] EXCEPT !.pc = "plan",
                         !.todo = {v \in {current} \X want : ~fits(v)},
                         !.prune = {v \in Picture : stamp /\ variant[v] # NoOne /\ v[2] \notin want}])
    /\ UNCHANGED <<worldVars, sidecar, tmp, fd, variant, stamp, screen>>

(* A variant is rendered under a name of the run's own, then published.    *)
Render(p) ==
    /\ At(p, "plan") /\ run[p].todo # {}
    /\ LET v == CHOOSE x \in run[p].todo : TRUE IN
         Go(p, [run[p] EXCEPT !.pc = "render", !.todo = @ \ {v}, !.now = v, !.made = art[v[1]]])
    /\ UNCHANGED <<worldVars, sidecar, tmp, fd, variant, stamp, screen>>

PublishVariant(p) ==
    /\ At(p, "render")
    /\ variant' = [variant EXCEPT ![run[p].now] = [made |-> run[p].made, pub |-> art[run[p].now[1]]]]
    /\ Go(p, [run[p] EXCEPT !.pc = "plan", !.now = NoOne, !.made = NoOne, !.new = TRUE])
    /\ UNCHANGED <<worldVars, sidecar, tmp, fd, stamp, screen>>

RenderFails(p) ==
    /\ At(p, "render") /\ Fault
    /\ Go(p, [run[p] EXCEPT !.pc = "plan", !.now = NoOne, !.made = NoOne, !.calm = FALSE])
    /\ UNCHANGED <<sidecar, tmp, fd, variant, stamp, screen>>

(* Fault: the finished variants are not shown until the next event.        *)
FinishUnshown(p) ==
    /\ At(p, "plan") /\ run[p].todo = {}
    /\ variant' = [v \in Picture |-> IF v \in run[p].prune THEN NoOne ELSE variant[v]]
    /\ stamp' = TRUE
    /\ Go(p, Done(p))
    /\ UNCHANGED <<worldVars, sidecar, tmp, fd, screen>>

(* What no output wants any more is removed, the recipe is stamped, and    *)
(* what is new is shown.                                                   *)
FinishVariants(p) ==
    /\ At(p, "plan") /\ run[p].todo = {}
    /\ variant' = [v \in Picture |-> IF v \in run[p].prune THEN NoOne ELSE variant[v]]
    /\ stamp' = TRUE
    /\ IF run[p].new THEN To(p, "again") ELSE Go(p, Done(p))
    /\ UNCHANGED <<worldVars, sidecar, tmp, fd, screen>>

KillRun(p) ==
    /\ ~Over(p) /\ Fault /\ Go(p, Idle)
    /\ fd' = [fd EXCEPT ![p] = "closed"]
    /\ UNCHANGED <<sidecar, tmp, variant, stamp, screen>>

MonitorNext ==
    \/ \E o \in Output, m \in Res \cup {"off", "zero"} : SetMode(o, m)
    \/ \E b \in Base : Rotate(b) \/ NewArt(b)
    \/ \E p \in Run :
         \/ StartRun(p) \/ Derive(p) \/ OpenTmp(p) \/ WriteTmp(p) \/ RenameTmp(p) \/ Apply(p) \/ Scan(p)
         \/ Render(p) \/ PublishVariant(p) \/ RenderFails(p) \/ FinishVariants(p) \/ ApplyAgain(p) \/ KillRun(p)

MonitorSpec == MonitorInit /\ [][MonitorNext]_monitorVars

-----------------------------------------------------------------------------
(* One undisturbed reconcile puts everything right, whatever overlapping   *)
(* or killed runs have left behind (a torn sidecar, stale or missing       *)
(* variants): the sidecar is the live layout and every output with a mode  *)
(* shows the current wallpaper in its own size, made from the artwork of   *)
(* now, unless that changed while the picture was being rendered           *)
(* (cmd_reconcile).                                                        *)
RightNow ==
    /\ sidecar.res = [o \in Output |-> IF o \in ReadyOutputs THEN plugged[o] ELSE NoOne]
    /\ sidecar.primary \in Live
    /\ \A o \in ReadyOutputs :
          LET v == variant[<<current, plugged[o]>>]
          IN /\ v # NoOne /\ screen[o] = <<current, v.made>>
             /\ v.made = art[current] \/ v.made < v.pub

ReconcileSettles ==
    \A p \in Run : At(p, "done") /\ run[p].calm => RightNow

(* The primary output is sticky: a run with no other beside it moves it    *)
(* only when the one on record is no longer there, also after a crash left *)
(* the temporary file behind (from_hyprctl_json, sidecar::write).          *)
PrimarySticks ==
    [][\A p \in Run :
          At(p, "rename") /\ run[p].calm /\ sidecar # Torn /\ sidecar' # sidecar /\ sidecar.primary \in Live
             => sidecar'.primary = sidecar.primary]_monitorVars
=============================================================================
