------------------------------- MODULE Pulse -------------------------------
(***************************************************************************)
(* fox-pulse: one epoll loop that hears Hyprland's event socket and an     *)
(* inotify watch, lets every class of events settle behind a timer and     *)
(* then starts that class's handler.  The compositor may come and go.      *)
(*                                                                         *)
(* Lines of one class that wait in the socket are one element of lines:    *)
(* drain() re-arms the same timer for each.  Time is "the timer expires"   *)
(* and "the reconnect interval is over"; fork() succeeds.                  *)
(***************************************************************************)
EXTENDS Integers

CONSTANTS MaxChanges, MaxExits     \* bounds: changes of all classes, exits of the compositor

ASSUME BoundAssumption == MaxChanges \in Nat /\ MaxExits \in Nat

HyprClass == {"focus", "monitor"}
Class == HyprClass \cup {"config"}
Source == Class \cup {"inotify", "hypr", "signal"}   \* what epoll watches: timers and fds

VARIABLES
    changed,     \* how often each class's subject has changed
    exits,       \* how often the compositor has exited
    peer,        \* the Hyprland instance the daemon's environment names listens
    conn,        \* hypr.fd(): "none", "open", or "eof" when the peer has closed
    lines,       \* classes of the unread lines in the socket
    watched,     \* the config directory existed when the daemon started
    inotify,     \* unread inotify events
    timer,       \* per class: "off", "armed" or "expired"
    due,         \* HYPR_RECONNECT_MS have passed since last_reconnect
    sig,         \* SIGINT or SIGTERM is pending
    running, pc, batch,  \* the loop; the ready sources still to be handled
    heard,       \* history: the last change of a class that reached the daemon's fds
    seen,        \* history: the last change each class's handler can have seen
    credit       \* history: triggers not yet paid by a handler run, up to 2

outside == <<changed, exits, peer>>
hearing == <<conn, lines, watched, inotify, sig>>
loop == <<running, pc, batch>>
vars == <<changed, exits, peer, conn, lines, watched, inotify, timer, due, sig,
          running, pc, batch, heard, seen, credit>>

TypeOK ==
    /\ changed \in [Class -> 0..MaxChanges] /\ exits \in 0..MaxExits /\ peer \in BOOLEAN
    /\ conn \in {"none", "open", "eof"} /\ lines \subseteq HyprClass
    /\ conn = "open" => peer
    /\ conn = "none" => lines = {}
    /\ watched \in BOOLEAN /\ inotify \in BOOLEAN /\ sig \in BOOLEAN /\ due \in BOOLEAN
    /\ timer \in [Class -> {"off", "armed", "expired"}]
    /\ running \in BOOLEAN /\ pc \in {"wait", "reconnect", "batch", "stopped"}
    /\ batch \subseteq Source
    /\ heard \in [Class -> 0..MaxChanges] /\ seen \in [Class -> 0..MaxChanges]
    /\ credit \in [Class -> 0..2]

-----------------------------------------------------------------------------
More(n) == IF n < 2 THEN n + 1 ELSE 2
Trigger(cs) ==
    /\ timer' = [c \in Class |-> IF c \in cs THEN "armed" ELSE timer[c]]
    /\ credit' = [c \in Class |-> IF c \in cs THEN More(credit[c]) ELSE credit[c]]

(* The daemon has set up its fds and tried to connect once.                *)
Init ==
    /\ changed = [c \in Class |-> 0] /\ exits = 0
    /\ peer \in BOOLEAN /\ watched \in BOOLEAN
    /\ conn = IF peer THEN "open" ELSE "none"
    /\ timer = [c \in Class |-> IF c = "monitor" /\ peer THEN "armed" ELSE "off"]
    /\ credit = [c \in Class |-> IF c = "monitor" /\ peer THEN 1 ELSE 0]
    /\ lines = {} /\ inotify = FALSE /\ due = FALSE /\ sig = FALSE
    /\ running = TRUE /\ pc = "wait" /\ batch = {}
    /\ heard = [c \in Class |-> 0] /\ seen = [c \in Class |-> 0]

-----------------------------------------------------------------------------
(***************************************************************************)
(* Around the daemon.                                                      *)
(***************************************************************************)
Changes == changed["focus"] + changed["monitor"] + changed["config"]

Change(c) ==
    /\ Changes < MaxChanges
    /\ c \in HyprClass => peer
    /\ changed' = [changed EXCEPT ![c] = @ + 1]
    /\ IF c \in HyprClass
         THEN /\ lines' = IF conn = "open" THEN lines \cup {c} ELSE lines
              /\ UNCHANGED inotify
         ELSE inotify' = (inotify \/ watched) /\ UNCHANGED lines
    /\ heard' = IF (c \in HyprClass /\ conn = "open") \/ (c = "config" /\ watched)
                  THEN [heard EXCEPT ![c] = changed[c] + 1] ELSE heard
    /\ UNCHANGED <<exits, peer, conn, watched, timer, due, sig, loop, seen, credit>>

(* A monitor may be plugged while no compositor runs.                      *)
PlugUnseen ==
    /\ ~peer /\ Changes < MaxChanges
    /\ changed' = [changed EXCEPT !["monitor"] = @ + 1]
    /\ UNCHANGED <<exits, peer, hearing, timer, due, loop, heard, seen, credit>>

PeerExits ==
    /\ peer /\ exits < MaxExits
    /\ exits' = exits + 1
    /\ peer' = FALSE
    /\ conn' = IF conn = "open" THEN "eof" ELSE conn
    /\ UNCHANGED <<changed, lines, watched, inotify, timer, due, sig, loop, heard, seen, credit>>

PeerStarts ==
    /\ ~peer /\ peer' = TRUE
    /\ UNCHANGED <<changed, exits, hearing, timer, due, loop, heard, seen, credit>>

Expire(c) ==
    /\ timer[c] = "armed" /\ timer' = [timer EXCEPT ![c] = "expired"]
    /\ UNCHANGED <<outside, hearing, due, loop, heard, seen, credit>>

IntervalOver ==
    /\ conn = "none" /\ ~due /\ due' = TRUE
    /\ UNCHANGED <<outside, hearing, timer, loop, heard, seen, credit>>

Signal ==
    /\ running /\ ~sig /\ sig' = TRUE
    /\ UNCHANGED <<outside, conn, lines, watched, inotify, timer, due, loop, heard, seen, credit>>

-----------------------------------------------------------------------------
(***************************************************************************)
(* The loop.                                                               *)
(***************************************************************************)
Ready ==
    {c \in Class : timer[c] = "expired"}
    \cup {s \in {"inotify"} : inotify}
    \cup {s \in {"hypr"} : conn = "eof" \/ (conn = "open" /\ lines # {})}
    \cup {s \in {"signal"} : sig}

(* epoll_wait; without a connection it also returns after the interval.    *)
Wait ==
    /\ pc = "wait" /\ running
    /\ Ready # {} \/ (conn = "none" /\ due)
    /\ batch' = Ready
    /\ pc' = "reconnect"
    /\ UNCHANGED <<outside, hearing, timer, due, running, heard, seen, credit>>

(* Fault: a new connection is taken to bring all news itself.              *)
ReconnectQuietly ==
    /\ pc = "reconnect" /\ pc' = "batch"
    /\ IF conn = "none" /\ due
         THEN /\ due' = FALSE
              /\ conn' = IF peer THEN "open" ELSE "none"
              /\ lines' = {}
              /\ UNCHANGED <<timer, credit>>
         ELSE UNCHANGED <<due, conn, lines, timer, credit>>
    /\ UNCHANGED <<outside, watched, inotify, sig, running, batch, heard, seen>>

Reconnect ==
    /\ pc = "reconnect" /\ pc' = "batch"
    /\ IF conn = "none" /\ due
         THEN /\ due' = FALSE
              /\ conn' = IF peer THEN "open" ELSE "none"
              /\ lines' = {}
              /\ Trigger(IF peer THEN {"monitor"} ELSE {})
         ELSE UNCHANGED <<due, conn, lines, timer, credit>>
    /\ UNCHANGED <<outside, watched, inotify, sig, running, batch, heard, seen>>

Handle(s) == pc = "batch" /\ s \in batch /\ batch' = batch \ {s} /\ UNCHANGED pc

(* Fault: the expiration is not read, so the timer stays readable.         *)
HandleTimerUnread(c) ==
    /\ Handle(c)
    /\ seen' = [seen EXCEPT ![c] = changed[c]]
    /\ credit' = [credit EXCEPT ![c] = IF @ = 0 THEN 0 ELSE @ - 1]
    /\ UNCHANGED <<outside, hearing, timer, due, running, heard>>

(* read_and_consume, then the handler starts: also when an event earlier   *)
(* in this batch has re-armed the timer, whose read then finds nothing.    *)
HandleTimer(c) ==
    /\ Handle(c)
    /\ timer' = [timer EXCEPT ![c] = IF @ = "expired" THEN "off" ELSE @]
    /\ seen' = [seen EXCEPT ![c] = changed[c]]
    /\ credit' = [credit EXCEPT ![c] = IF @ = 0 THEN 0 ELSE @ - 1]
    /\ UNCHANGED <<outside, hearing, due, running, heard>>

HandleInotify ==
    /\ Handle("inotify")
    /\ inotify' = FALSE
    /\ Trigger({"config"})
    /\ UNCHANGED <<outside, conn, lines, watched, sig, due, running, heard, seen>>

(* Fault: a connection the peer has closed is dropped unread.              *)
HandleHyprUnread ==
    /\ Handle("hypr")
    /\ lines' = IF conn = "eof" THEN lines ELSE {}
    /\ Trigger(IF conn = "eof" THEN {} ELSE lines)
    /\ IF conn = "eof" THEN conn' = "none" /\ due' = FALSE ELSE UNCHANGED <<conn, due>>
    /\ UNCHANGED <<outside, watched, inotify, sig, running, heard, seen>>

(* drain reads every line, then notices that the peer has closed.          *)
HandleHypr ==
    /\ Handle("hypr")
    /\ lines' = {}
    /\ Trigger(lines)
    /\ IF conn = "eof" THEN conn' = "none" /\ due' = FALSE ELSE UNCHANGED <<conn, due>>
    /\ UNCHANGED <<outside, watched, inotify, sig, running, heard, seen>>

HandleSignal ==
    /\ Handle("signal")
    /\ sig' = FALSE /\ running' = FALSE
    /\ UNCHANGED <<outside, conn, lines, watched, inotify, timer, due, heard, seen, credit>>

EndBatch ==
    /\ pc = "batch" /\ batch = {}
    /\ pc' = IF running THEN "wait" ELSE "stopped"
    /\ UNCHANGED <<outside, hearing, timer, due, running, batch, heard, seen, credit>>

(* The daemon sleeps, or is gone.                                          *)
Quiet ==
    /\ pc = "stopped" \/ (pc = "wait" /\ Ready = {} /\ ~(conn = "none" /\ due))
    /\ UNCHANGED vars

World == (\E c \in Class : Change(c)) \/ PlugUnseen \/ PeerExits \/ PeerStarts \/ Signal
Clock == (\E c \in Class : Expire(c)) \/ IntervalOver
Daemon ==
    \/ Wait \/ Reconnect \/ HandleInotify \/ HandleHypr \/ HandleSignal \/ EndBatch
    \/ \E c \in Class : HandleTimer(c)

Next == World \/ Clock \/ Daemon \/ Quiet

Spec == Init /\ [][Next]_vars

(* The kernel schedules the daemon and its timers expire.                  *)
FairSpec ==
    /\ Spec
    /\ WF_vars(Daemon)
    /\ \A c \in Class : WF_vars(Expire(c))
    /\ WF_vars(IntervalOver)

-----------------------------------------------------------------------------
(***************************************************************************)
(* What must hold.                                                         *)
(***************************************************************************)
(* Nothing that reached the daemon falls through: a change its handler has *)
(* not seen is in the socket, in inotify's queue, or behind a timer that   *)
(* has yet to fire, through reconnections, re-armed timers and batches     *)
(* (the event loop of main).                                               *)
NothingFallsThrough ==
    \A c \in Class :
       heard[c] > seen[c] =>
          \/ timer[c] # "off" \/ c \in batch
          \/ c \in lines /\ conn # "none"
          \/ c = "config" /\ inotify

(* As long as the daemon is connected, a monitor change the handler has    *)
(* not seen is on its way, also one that happened while it was not         *)
(* connected (mon_db.trigger() after connect_now).                         *)
MonitorsAreCovered ==
    conn = "open" /\ changed["monitor"] > seen["monitor"] =>
       timer["monitor"] # "off" \/ "monitor" \in lines \cup batch

(* Every handler run is paid for by a trigger: a burst, a batch or a       *)
(* reconnection starts no endless series of runs.                          *)
RunsArePaid == [][\A c \in Class : c \in batch /\ c \notin batch' => credit[c] > 0]_vars

(* What the daemon hears is eventually handled, unless it is stopped.      *)
HeardIsHandled ==
    \A c \in Class : (heard[c] > seen[c]) ~> (seen[c] >= heard[c] \/ ~running)

(* A monitor plugged at any time is eventually reconciled, if the          *)
(* compositor is there to stay.                                            *)
MonitorsCatchUp ==
    <>[]peer => [](changed["monitor"] > 0 => <>(seen["monitor"] = changed["monitor"] \/ ~running))
=============================================================================
