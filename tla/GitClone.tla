------------------------------ MODULE GitClone ------------------------------
(***************************************************************************)
(* git_clone::ensure makes a folder a checkout of a repository over a      *)
(* network that drops, and run_llama_turbo, one of its callers, brings the *)
(* checkout to the pinned commit and builds it.  Any step may be the last  *)
(* of its run; a rename of a folder that is there succeeds.  The user      *)
(* works in the same place, but not in a clone that git is just making.    *)
(***************************************************************************)
EXTENDS Naturals

CONSTANTS Rev, NoRev,
          Tries,                          \* Runner::tries
          MaxJobs, MaxMeddling, MaxPins   \* bounds: runs, steps of the user, new pins

ASSUME CloneAssumption ==
    NoRev \notin Rev /\ Rev # {} /\ Tries \in Nat \ {0} /\ MaxJobs \in Nat /\ MaxMeddling \in Nat /\ MaxPins \in Nat

(* A folder without .git, a fresh "git init" with files beside it, a       *)
(* repository git refuses to read; a clone that has no commit yet; one     *)
(* whose files are not all there; a finished one, also with changes.       *)
Own == {"folder", "init", "refused"}
Valid == {"torn", "checkout", "edited"}          \* HEAD is a commit
Site == {"absent", "partial"} \cup Own \cup Valid
Flavour == {"cuda", "cpu"}                       \* build-cuda and build-cpu

VARIABLES
    site, head,      \* what is at the target, and the commit it is at
    asides,          \* what was moved to <name>.broken-<time>
    build,           \* per flavour the commit bin/llama-server was built of, inside the checkout
    pin,             \* llama-turbo.pin
    job,             \* the run: pc, attempt, outcome, the pin it has read, and its has_nvidia
    jobs, meddling, pins,
    settled,         \* history: what is there was there when the run looked
    cutShort,        \* history: a run was killed with the files half written
    leftBehind       \* history: the builds that a checkout of another commit did not take away

cloneVars == <<site, head, asides, build, pin, job, jobs, meddling, pins, settled, cutShort, leftBehind>>
cloneBounds == <<jobs, meddling, pins>>

NoJob == [pc |-> "none", attempt |-> 0, outcome |-> "none", pin |-> NoRev, flavour |-> "cpu"]
NoBuild == [v \in Flavour |-> NoRev]
Old == {v \in Flavour : build[v] # NoRev}

CloneTypeOK ==
    /\ site \in Site /\ head \in Rev \cup {NoRev} /\ asides \subseteq Site \ {"absent"}
    /\ build \in [Flavour -> Rev \cup {NoRev}] /\ pin \in Rev
    /\ job \in [pc : {"none", "look", "aside", "attempt", "cloning", "leftover", "sync", "clear", "make", "built", "over"},
                attempt : 0..Tries, outcome : {"none", "Present", "Cloned", "Repaired", "NotARepo", "Failed"},
                pin : Rev \cup {NoRev}, flavour : Flavour]
    /\ jobs \in 0..MaxJobs /\ meddling \in 0..MaxMeddling /\ pins \in 0..MaxPins
    /\ settled \in BOOLEAN /\ cutShort \in BOOLEAN /\ leftBehind \subseteq Flavour
    /\ build # NoBuild => site \in Valid

CloneInit ==
    /\ site = "absent" /\ head = NoRev /\ asides = {} /\ build = NoBuild
    /\ pin = CHOOSE c \in Rev : TRUE
    /\ job = NoJob /\ jobs = 0 /\ meddling = 0 /\ pins = 0
    /\ settled = FALSE /\ cutShort = FALSE /\ leftBehind = {}

-----------------------------------------------------------------------------
InJob(pc) == job.pc = pc
Proceed(pc) == job' = [job EXCEPT !.pc = pc]
Answer(outcome) == job' = [job EXCEPT !.pc = "over", !.outcome = outcome]
Quiet == job.pc \in {"none", "over", "built"}

(* The folder gets another content, or none; a build goes with it.         *)
Becomes(s) ==
    /\ site' = s
    /\ build' = IF s \in {"checkout", "edited"} /\ site \in {"checkout", "edited"} THEN build ELSE NoBuild
    /\ cutShort' = (cutShort /\ s = site)
    /\ leftBehind' = leftBehind \cap {v \in Flavour : build'[v] # NoRev}

Meddle ==
    /\ ~InJob("cloning") /\ meddling < MaxMeddling /\ meddling' = meddling + 1
    /\ settled' = FALSE
    /\ UNCHANGED <<asides, pin, job, jobs, pins>>

UserCreates(s) == site = "absent" /\ s \in Own /\ Becomes(s) /\ Meddle /\ UNCHANGED head
UserRemoves == site # "absent" /\ Becomes("absent") /\ head' = NoRev /\ Meddle
UserWorks == site = "partial" /\ Becomes("init") /\ Meddle /\ UNCHANGED head
UserEditsClone == site = "checkout" /\ Becomes("edited") /\ Meddle /\ UNCHANGED head

NewPin(c) ==
    /\ c # pin /\ pins < MaxPins /\ pins' = pins + 1 /\ pin' = c
    /\ UNCHANGED <<site, head, asides, build, job, jobs, meddling, settled, cutShort, leftBehind>>

-----------------------------------------------------------------------------
StartJob ==
    /\ Quiet /\ jobs < MaxJobs /\ jobs' = jobs + 1
    /\ \E v \in Flavour :
         job' = [pc |-> "look", attempt |-> 0, outcome |-> "none", pin |-> pin, flavour |-> v]
    /\ settled' = FALSE
    /\ UNCHANGED <<site, head, asides, build, pin, meddling, pins, cutShort, leftBehind>>

(* Fault: any repository without a commit counts as a dropped clone.       *)
DroppedOrFresh == site \in {"partial", "init"}

(* partial_clone: what a dropped clone leaves, and nothing beside it.      *)
Dropped == site = "partial"

Look ==
    /\ InJob("look")
    /\ CASE site = "absent" -> job' = [job EXCEPT !.pc = "attempt", !.outcome = "Cloned"]
         [] site \in Valid -> job' = [job EXCEPT !.pc = "sync", !.outcome = "Present"]
         [] Dropped -> Proceed("aside")
         [] OTHER -> Answer("NotARepo")
    /\ settled' = TRUE
    /\ UNCHANGED <<site, head, asides, build, pin, cloneBounds, cutShort, leftBehind>>

MovedAside ==
    /\ asides' = asides \cup {site}
    /\ Becomes("absent") /\ head' = NoRev

MoveAside ==
    /\ InJob("aside")
    /\ IF site = "absent"
         THEN Answer("Failed") /\ UNCHANGED <<site, head, asides, build, cutShort, leftBehind>>
         ELSE job' = [job EXCEPT !.pc = "attempt", !.outcome = "Repaired"] /\ MovedAside
    /\ UNCHANGED <<pin, cloneBounds, settled>>

(* git refuses a folder that is not empty.                                 *)
Attempt ==
    /\ InJob("attempt")
    /\ job' = [job EXCEPT !.pc = IF site = "absent" THEN "cloning" ELSE "leftover", !.attempt = @ + 1]
    /\ IF site = "absent" THEN Becomes("partial")
       ELSE UNCHANGED <<site, build, cutShort, leftBehind>>
    /\ UNCHANGED <<head, asides, pin, cloneBounds, settled>>

(* HEAD is a commit before its files are there.                            *)
GitFetches ==
    /\ InJob("cloning") /\ site = "partial"
    /\ Becomes("torn") /\ head' \in Rev
    /\ UNCHANGED <<asides, pin, job, cloneBounds, settled>>

GitFinishes ==
    /\ InJob("cloning") /\ site = "torn"
    /\ Becomes("checkout") /\ Proceed("sync")
    /\ UNCHANGED <<head, asides, pin, cloneBounds, settled>>

(* git removes what it fetched, or cannot; files it wrote stay.            *)
GitFails ==
    /\ InJob("cloning") /\ Proceed("leftover")
    /\ \E s \in {site} \cup {x \in {"absent"} : site = "partial"} : Becomes(s)
    /\ UNCHANGED <<head, asides, pin, cloneBounds, settled>>

NextTry == IF job.attempt < Tries THEN Proceed("attempt") ELSE Answer("Failed")

(* Fault: what a failed attempt leaves stays where it is.                  *)
LeftoverStays ==
    /\ InJob("leftover") /\ NextTry
    /\ UNCHANGED <<site, head, asides, build, pin, cloneBounds, settled, cutShort, leftBehind>>

(* The attempt's own leftovers are moved out of the way.                   *)
Leftover ==
    /\ InJob("leftover") /\ NextTry
    /\ IF site # "absent" THEN MovedAside ELSE UNCHANGED <<site, head, asides, build, cutShort, leftBehind>>
    /\ UNCHANGED <<pin, cloneBounds, settled>>

-----------------------------------------------------------------------------
(* run_llama_turbo: to the pin, without touching local changes.  The build *)
(* of the other flavour stays where it is.                                 *)
Sync ==
    /\ InJob("sync")
    /\ \/ head = job.pin /\ Proceed("make") /\ UNCHANGED <<head, leftBehind>>
       \/ head # job.pin /\ Answer(job.outcome) /\ UNCHANGED <<head, leftBehind>>   \* changes, or the fetch failed
       \/ /\ head # job.pin /\ site = "checkout" /\ Proceed("clear") /\ head' = job.pin
          /\ leftBehind' = leftBehind \cup (Old \ {job.flavour})
    /\ UNCHANGED <<site, asides, build, pin, cloneBounds, settled, cutShort>>

(* Fault: the build of the other commit stays.                             *)
ClearNothing ==
    /\ InJob("clear") /\ Proceed("make")
    /\ UNCHANGED <<site, head, asides, build, pin, cloneBounds, settled, cutShort, leftBehind>>

(* This run's flavour only, and nobody looks whether it went.              *)
Clear ==
    /\ InJob("clear") /\ Proceed("make")
    /\ \/ build' = [build EXCEPT ![job.flavour] = NoRev] /\ leftBehind' = leftBehind \ {job.flavour}
       \/ leftBehind' = leftBehind \cup (Old \cap {job.flavour}) /\ UNCHANGED build
    /\ UNCHANGED <<site, head, asides, pin, cloneBounds, settled, cutShort>>

(* A server that is there is taken for one of this commit; a failed build  *)
(* may leave one.                                                          *)
Makes(c) == build' = [build EXCEPT ![job.flavour] = c]
Make ==
    /\ InJob("make")
    /\ \/ build[job.flavour] # NoRev /\ Proceed("built") /\ UNCHANGED build
       \/ /\ build[job.flavour] = NoRev /\ site \in {"checkout", "edited"}
          /\ Proceed("built") /\ Makes(head)
       \/ /\ build[job.flavour] = NoRev /\ Answer(job.outcome)
          /\ \E c \in {NoRev} \cup {x \in {head} : site \in {"checkout", "edited"}} : Makes(c)
    /\ UNCHANGED <<site, head, asides, pin, cloneBounds, settled, cutShort, leftBehind>>

KillJob ==
    /\ ~Quiet /\ job' = NoJob
    /\ cutShort' = (cutShort \/ site = "torn")
    /\ leftBehind' = leftBehind \cup {v \in Old : InJob("clear") /\ v = job.flavour}
    /\ UNCHANGED <<site, head, asides, build, pin, cloneBounds, settled>>

CloneNext ==
    \/ \E s \in Own : UserCreates(s)
    \/ UserRemoves \/ UserWorks \/ UserEditsClone
    \/ \E c \in Rev : NewPin(c)
    \/ StartJob \/ Look \/ MoveAside \/ Attempt \/ GitFetches \/ GitFinishes \/ GitFails \/ Leftover
    \/ Sync \/ Clear \/ Make \/ KillJob

CloneSpec == CloneInit /\ [][CloneNext]_cloneVars

-----------------------------------------------------------------------------
(* A clone whose files are not all there never outlives the attempt that   *)
(* made it, unless the run was killed then: no later run takes it for a    *)
(* checkout (the leftovers of ensure).                                     *)
HalfClonesGo == site = "torn" => cutShort \/ job.pc \in {"cloning", "leftover"}

(* What the user has where a clone should go, and had when the run looked, *)
(* stays; what turned up later may be moved, and is kept (partial_clone).  *)
OwnFilesStay ==
    [][job' # job /\ site' # site /\ site \in Own => ~settled /\ site \in asides']_cloneVars

(* The server a run calls built is of the commit it was to build, whatever *)
(* pins, flavours and failed runs came before, unless a checkout had left  *)
(* that very build behind: in a run of the other flavour (has_nvidia),     *)
(* which does not look at it, in one killed before it removed the build,   *)
(* or in one whose remove_all failed (run_llama_turbo).                    *)
BuiltIsPinned ==
    InJob("built") /\ site \in {"checkout", "edited"} /\ job.flavour \notin leftBehind
        => build[job.flavour] = job.pin
=============================================================================
