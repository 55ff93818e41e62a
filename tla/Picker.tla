------------------------------- MODULE Picker -------------------------------
(***************************************************************************)
(* fox-drawer pick: a process that asks the user through another one.  It  *)
(* makes a directory with a request and an empty response.json, watches    *)
(* the directory, hands the request to the Quickshell drawer and sleeps    *)
(* until an answer, a signal or a deadline of 15 minutes.  The drawer      *)
(* shows one request at a time and writes the answer by renaming a file    *)
(* into the directory.                                                     *)
(***************************************************************************)
EXTENDS Naturals

CONSTANTS Pick, NoPick,
          MaxCrashes       \* bound: crashes of the drawer
ASSUME PickAssumption == NoPick \notin Pick /\ MaxCrashes \in Nat

VARIABLES
    pick,        \* each process: pc, picker_stopped, deadline passed, inotify event pending, exit
    reply,       \* response.json: "none" without the directory, "empty", "cancel" or "chosen"
    onscreen,       \* the drawer's active request
    up, crashes, \* the drawer runs; how often it crashed
    lost         \* history: the processes whose request a crash took from the screen

pickVars == <<pick, reply, onscreen, up, crashes, lost>>
screenVars == <<onscreen, up, crashes, lost>>

Asleep == {"loop", "read", "poll", "drain"}
PickOver == {"done", "killed"}
Process == [pc : {"new", "made", "ready", "watched", "call", "cancel"} \cup Asleep \cup PickOver,
            stop : BOOLEAN, late : BOOLEAN, event : BOOLEAN,
            exit : {"none", "chosen", "cancelled", "failed"}]

PickTypeOK ==
    /\ pick \in [Pick -> Process]
    /\ reply \in [Pick -> {"none", "empty", "cancel", "chosen"}]
    /\ onscreen \in Pick \cup {NoPick} /\ up \in BOOLEAN /\ crashes \in 0..MaxCrashes
    /\ lost \subseteq Pick
    /\ onscreen # NoPick => up

PickInit ==
    /\ pick = [p \in Pick |-> [pc |-> "new", stop |-> FALSE, late |-> FALSE, event |-> FALSE, exit |-> "none"]]
    /\ reply = [p \in Pick |-> "none"]
    /\ onscreen = NoPick /\ up = FALSE /\ crashes = 0 /\ lost = {}

-----------------------------------------------------------------------------
PickAt(p, pc) == pick[p].pc = pc
PickTo(p, pc) == pick' = [pick EXCEPT ![p].pc = pc]

(* ~Request: the directory goes with whatever is in it.                    *)
Exit(p, code) ==
    /\ pick' = [pick EXCEPT ![p].pc = "done", ![p].exit = code]
    /\ reply' = [reply EXCEPT ![p] = "none"]

(* finishPicker: the answer of the active request replaces its             *)
(* response.json, if the process has not taken the directory away.         *)
Answered(p) == p # NoPick /\ reply[p] # "none"

(* Fault: only a close after writing is watched for, not the rename.       *)
WokenByClose(p) == pick

Woken(p) == IF Answered(p) THEN [pick EXCEPT ![p].event = @ \/ pick[p].pc \in Asleep \cup {"watched", "call", "cancel"}] ELSE pick

Reply(p, answer) == IF Answered(p) THEN [reply EXCEPT ![p] = answer] ELSE reply

-----------------------------------------------------------------------------
MakeDirectory(p) ==
    /\ PickAt(p, "new") /\ PickTo(p, "made")
    /\ UNCHANGED <<reply, screenVars>>

(* Handlers for SIGINT and SIGTERM, then response.json and request.json.   *)
WriteRequest(p) ==
    /\ PickAt(p, "made") /\ PickTo(p, "ready")
    /\ reply' = [reply EXCEPT ![p] = "empty"]
    /\ UNCHANGED screenVars

AddWatch(p) ==
    /\ PickAt(p, "ready") /\ PickTo(p, "watched")
    /\ UNCHANGED <<reply, screenVars>>

(* A write, inotify or the menu's start fails.                             *)
PickFails(p) ==
    /\ pick[p].pc \in {"made", "ready", "watched"} /\ Exit(p, "failed")
    /\ UNCHANGED screenVars

(* fox-desktop-menu --start                                                *)
StartDrawer(p) ==
    /\ PickAt(p, "watched") /\ PickTo(p, "call")
    /\ up' = TRUE
    /\ UNCHANGED <<reply, onscreen, crashes, lost>>

(* Fault: a request replaces the one on screen without a word.             *)
CallDrawerSilently(p) ==
    /\ PickAt(p, "call")
    /\ IF up THEN PickTo(p, "loop") /\ onscreen' = p /\ UNCHANGED reply
             ELSE Exit(p, "failed") /\ UNCHANGED onscreen
    /\ UNCHANGED <<up, crashes, lost>>

(* The call returns when showPicker has cancelled the request before.      *)
CallDrawer(p) ==
    /\ PickAt(p, "call")
    /\ IF up
         THEN /\ pick' = [Woken(onscreen) EXCEPT ![p].pc = "loop"]
              /\ reply' = Reply(onscreen, "cancel")
              /\ onscreen' = p
         ELSE Exit(p, "failed") /\ UNCHANGED onscreen
    /\ UNCHANGED <<up, crashes, lost>>

-----------------------------------------------------------------------------
CheckStop(p) ==
    /\ PickAt(p, "loop")
    /\ PickTo(p, IF pick[p].stop \/ pick[p].late THEN "cancel" ELSE "read")
    /\ UNCHANGED <<reply, screenVars>>

ReadReply(p) ==
    /\ PickAt(p, "read")
    /\ CASE reply[p] = "empty" -> PickTo(p, "poll") /\ UNCHANGED reply
         [] reply[p] = "chosen" -> Exit(p, "chosen")
         [] OTHER -> Exit(p, "cancelled")
    /\ UNCHANGED screenVars

(* Fault: poll without a timeout.                                          *)
PollForever(p) ==
    /\ PickAt(p, "poll") /\ pick[p].event
    /\ PickTo(p, "drain")
    /\ UNCHANGED <<reply, screenVars>>

(* poll ends with an event, at the deadline, or (Signal) with EINTR.       *)
Poll(p) ==
    /\ PickAt(p, "poll") /\ (pick[p].event \/ pick[p].late)
    /\ PickTo(p, "drain")
    /\ UNCHANGED <<reply, screenVars>>

Drain(p) ==
    /\ PickAt(p, "drain")
    /\ pick' = [pick EXCEPT ![p].pc = "loop", ![p].event = FALSE]
    /\ UNCHANGED <<reply, screenVars>>

CancelPicker(p) ==
    /\ PickAt(p, "cancel") /\ Exit(p, "cancelled")
    /\ onscreen' = IF onscreen = p THEN NoPick ELSE onscreen
    /\ UNCHANGED <<up, crashes, lost>>

-----------------------------------------------------------------------------
(* SIGINT or SIGTERM: fatal before the handlers are set, afterwards a      *)
(* flag, and the end of a poll that has begun.                             *)
StopSignal(p) ==
    /\ pick[p].pc \notin PickOver /\ ~pick[p].stop
    /\ pick' = [pick EXCEPT ![p].stop = TRUE,
                            ![p].pc = CASE @ \in {"new", "made"} -> "killed"
                                        [] @ = "poll" -> "drain"
                                        [] OTHER -> @]
    /\ UNCHANGED <<reply, screenVars>>

KillPick(p) ==
    /\ pick[p].pc \notin PickOver /\ PickTo(p, "killed")
    /\ UNCHANGED <<reply, screenVars>>

Deadline(p) ==
    /\ pick[p].pc \in Asleep /\ ~pick[p].late
    /\ pick' = [pick EXCEPT ![p].late = TRUE]
    /\ UNCHANGED <<reply, screenVars>>

(* The user chooses, or the drawer is closed or shows something else.      *)
UserAnswers(answer) ==
    /\ onscreen # NoPick /\ onscreen' = NoPick
    /\ pick' = Woken(onscreen) /\ reply' = Reply(onscreen, answer)
    /\ UNCHANGED <<up, crashes, lost>>

DrawerCrashes ==
    /\ up /\ crashes < MaxCrashes
    /\ up' = FALSE /\ onscreen' = NoPick /\ crashes' = crashes + 1
    /\ lost' = lost \cup ({onscreen} \ {NoPick})
    /\ UNCHANGED <<pick, reply>>

PickStep(p) ==
    \/ MakeDirectory(p) \/ WriteRequest(p) \/ AddWatch(p) \/ PickFails(p) \/ StartDrawer(p) \/ CallDrawer(p)
    \/ CheckStop(p) \/ ReadReply(p) \/ Poll(p) \/ Drain(p) \/ CancelPicker(p)

PickNext ==
    \/ \E p \in Pick : PickStep(p) \/ StopSignal(p) \/ KillPick(p) \/ Deadline(p)
    \/ \E answer \in {"chosen", "cancel"} : UserAnswers(answer)
    \/ DrawerCrashes

PickFairness == \A p \in Pick : WF_pickVars(PickStep(p)) /\ WF_pickVars(Deadline(p))
PickSpec == PickInit /\ [][PickNext]_pickVars /\ PickFairness

-----------------------------------------------------------------------------
(* No process sleeps on an answer it has not read: the event of the rename *)
(* is still pending whenever it has passed its look at the reply.          *)
AnswerWakes ==
    \A p \in Pick : pick[p].pc = "poll" /\ reply[p] # "empty" => pick[p].event

(* A process that waits is on the screen, has its answer, or has lost its  *)
(* request to a crash: a later request never leaves an earlier one hanging.*)
NobodyIsForgotten ==
    \A p \in Pick : pick[p].pc \in Asleep => onscreen = p \/ reply[p] # "empty" \/ p \in lost

(* Every process that has asked returns, also after a crash.               *)
EveryPickReturns ==
    \A p \in Pick : pick[p].pc = "loop" ~> pick[p].pc \in PickOver
=============================================================================
