---------------------------- MODULE PulseProofs ----------------------------
(***************************************************************************)
(* Pulse, for any number of changes and compositor exits: no event the     *)
(* daemon has heard falls through its loop, and no monitor change stays    *)
(* uncovered while it is connected.                                        *)
(***************************************************************************)
EXTENDS Pulse, TLAPS

(* The batch of an earlier round is used up before the next is fetched,    *)
(* and nothing is heard that did not happen.                               *)
Rounds ==
    /\ pc \in {"wait", "stopped"} => batch = {}
    /\ \A c \in Class : heard[c] <= changed[c]

IInv == TypeOK /\ Rounds /\ NothingFallsThrough /\ MonitorsAreCovered

USE DEF Class, HyprClass, Source, outside, hearing, loop, Trigger, More, Handle

LEMMA InitIInv == Init => IInv
<1> SUFFICES ASSUME Init PROVE IInv
  OBVIOUS
<1> USE DEF Init
<1>1. TypeOK
  <2>1. /\ 0 \in 0..MaxChanges /\ 0 \in 0..MaxExits
        /\ peer \in BOOLEAN /\ watched \in BOOLEAN
    BY BoundAssumption
  <2>2. /\ conn \in {"none", "open", "eof"}
        /\ conn = "open" => peer
    OBVIOUS
  <2>3. /\ timer \in [Class -> {"off", "armed", "expired"}]
        /\ credit \in [Class -> 0..2]
    OBVIOUS
  <2>4. /\ changed \in [Class -> 0..MaxChanges] /\ exits \in 0..MaxExits
        /\ heard \in [Class -> 0..MaxChanges] /\ seen \in [Class -> 0..MaxChanges]
    BY <2>1
  <2> QED
    BY <2>1, <2>2, <2>3, <2>4 DEF TypeOK
<1>2. Rounds
  BY DEF Rounds
<1>3. NothingFallsThrough /\ MonitorsAreCovered
  BY DEF NothingFallsThrough, MonitorsAreCovered
<1> QED
  BY <1>1, <1>2, <1>3 DEF IInv

(* Triggering keeps the timers and the history in range.                   *)
LEMMA TriggerType ==
    ASSUME TypeOK, NEW cs, Trigger(cs)
    PROVE  /\ timer' \in [Class -> {"off", "armed", "expired"}]
           /\ credit' \in [Class -> 0..2]
<1>1. timer' \in [Class -> {"off", "armed", "expired"}]
  BY DEF TypeOK
<1>2. \A n \in 0..2 : More(n) \in 0..2
  OBVIOUS
<1>3. credit' \in [Class -> 0..2]
  BY <1>2 DEF TypeOK
<1> QED
  BY <1>1, <1>3

(* The bound on all changes bounds the changes of each class.              *)
LEMMA RoomForOneMore ==
  ASSUME TypeOK, Changes < MaxChanges, NEW c \in Class
  PROVE  changed[c] + 1 \in 0..MaxChanges
<1>1. /\ changed["focus"] \in Nat /\ changed["monitor"] \in Nat /\ changed["config"] \in Nat
  BY BoundAssumption DEF TypeOK, Class, HyprClass
<1>2. c = "focus" \/ c = "monitor" \/ c = "config"
  BY DEF Class, HyprClass
<1>3. changed[c] \in Nat /\ changed[c] + 1 <= MaxChanges
  BY <1>1, <1>2, BoundAssumption DEF Changes
<1> QED
  BY <1>3, BoundAssumption

LEMMA StepType == TypeOK /\ [Next]_vars => TypeOK'
<1> SUFFICES ASSUME TypeOK, [Next]_vars PROVE TypeOK'
  OBVIOUS
<1> USE BoundAssumption DEF TypeOK
<1>1. ASSUME NEW c \in Class, Change(c) PROVE TypeOK'
  <2>1. /\ changed[c] + 1 \in 0..MaxChanges
        /\ changed' \in [Class -> 0..MaxChanges]
        /\ heard' \in [Class -> 0..MaxChanges]
    BY <1>1, RoomForOneMore DEF Change
  <2>2. lines' \subseteq HyprClass /\ (conn = "none" => lines' = {})
    BY <1>1 DEF Change
  <2>3. inotify' \in BOOLEAN
    BY <1>1 DEF Change
  <2> QED
    BY <1>1, <2>1, <2>2, <2>3 DEF Change
<1>2. CASE PlugUnseen
  <2>1. "monitor" \in Class
    BY DEF Class, HyprClass
  <2>2. changed["monitor"] + 1 \in 0..MaxChanges
    BY <1>2, <2>1, RoomForOneMore DEF PlugUnseen
  <2> QED
    BY <1>2, <2>2 DEF PlugUnseen
<1>3. CASE PeerExits
  <2>1. exits' \in 0..MaxExits
    BY <1>3 DEF PeerExits
  <2>2. conn' \in {"none", "open", "eof"} /\ conn' # "open"
    BY <1>3 DEF PeerExits
  <2>3. conn' = "none" => lines' = {}
    BY <1>3 DEF PeerExits
  <2>4. peer' \in BOOLEAN
    BY <1>3 DEF PeerExits
  <2> QED
    BY <1>3, <2>1, <2>2, <2>3, <2>4 DEF PeerExits
<1>4. CASE PeerStarts
  BY <1>4 DEF PeerStarts
<1>5. CASE Signal
  BY <1>5 DEF Signal
<1>6. CASE IntervalOver
  BY <1>6 DEF IntervalOver
<1>7. ASSUME NEW c \in Class, Expire(c) PROVE TypeOK'
  BY <1>7 DEF Expire
<1>8. CASE Wait
  BY <1>8 DEF Wait, Ready
<1>9. CASE Reconnect
  <2>1. /\ timer' \in [Class -> {"off", "armed", "expired"}]
        /\ credit' \in [Class -> 0..2]
    <3>1. CASE conn = "none" /\ due
      BY <1>9, <3>1, TriggerType DEF Reconnect
    <3>2. CASE ~(conn = "none" /\ due)
      BY <1>9, <3>2 DEF Reconnect
    <3> QED
      BY <3>1, <3>2
  <2>2. /\ conn' \in {"none", "open", "eof"} /\ lines' \subseteq HyprClass
        /\ conn' = "open" => peer
        /\ conn' = "none" => lines' = {}
        /\ due' \in BOOLEAN
    BY <1>9 DEF Reconnect
  <2> QED
    BY <1>9, <2>1, <2>2 DEF Reconnect
<1>10. ASSUME NEW c \in Class, HandleTimer(c) PROVE TypeOK'
  BY <1>10 DEF HandleTimer
<1>11. CASE HandleInotify
  <2>1. /\ timer' \in [Class -> {"off", "armed", "expired"}]
        /\ credit' \in [Class -> 0..2]
    BY <1>11, TriggerType DEF HandleInotify
  <2> QED
    BY <1>11, <2>1 DEF HandleInotify
<1>12. CASE HandleHypr
  <2>1. /\ timer' \in [Class -> {"off", "armed", "expired"}]
        /\ credit' \in [Class -> 0..2]
    BY <1>12, TriggerType DEF HandleHypr
  <2>2. /\ conn' \in {"none", "open", "eof"} /\ lines' = {}
        /\ conn' = "open" => peer
        /\ due' \in BOOLEAN
    BY <1>12 DEF HandleHypr
  <2> QED
    BY <1>12, <2>1, <2>2 DEF HandleHypr
<1>13. CASE HandleSignal \/ EndBatch
  BY <1>13 DEF HandleSignal, EndBatch
<1>14. CASE UNCHANGED vars
  BY <1>14 DEF vars
<1> QED
  BY <1>1, <1>2, <1>3, <1>4, <1>5, <1>6, <1>7, <1>8, <1>9, <1>10, <1>11, <1>12, <1>13, <1>14
     DEF Next, World, Clock, Daemon, Quiet

LEMMA StepRounds == TypeOK /\ Rounds /\ [Next]_vars => Rounds'
<1> SUFFICES ASSUME TypeOK, Rounds, [Next]_vars PROVE Rounds'
  OBVIOUS
<1> USE DEF TypeOK, Rounds
<1>1. ASSUME NEW c \in Class, Change(c) PROVE Rounds'
  BY <1>1 DEF Change
<1>2. CASE PlugUnseen \/ PeerExits \/ PeerStarts \/ Signal \/ IntervalOver
  <2>1. CASE PlugUnseen
    BY <2>1 DEF PlugUnseen
  <2>2. CASE PeerExits \/ PeerStarts \/ Signal \/ IntervalOver
    BY <2>2 DEF PeerExits, PeerStarts, Signal, IntervalOver
  <2> QED
    BY <1>2, <2>1, <2>2
<1>3. ASSUME NEW c \in Class, Expire(c) \/ HandleTimer(c) PROVE Rounds'
  BY <1>3 DEF Expire, HandleTimer
<1>4. CASE Wait \/ Reconnect \/ HandleInotify \/ HandleHypr \/ HandleSignal \/ EndBatch
  BY <1>4 DEF Wait, Reconnect, HandleInotify, HandleHypr, HandleSignal, EndBatch
<1>5. CASE UNCHANGED vars
  BY <1>5 DEF vars
<1> QED
  BY <1>1, <1>2, <1>3, <1>4, <1>5 DEF Next, World, Clock, Daemon, Quiet

LEMMA StepFallsThrough ==
    TypeOK /\ Rounds /\ NothingFallsThrough /\ [Next]_vars => NothingFallsThrough'
<1> SUFFICES ASSUME TypeOK, Rounds, NothingFallsThrough, [Next]_vars PROVE NothingFallsThrough'
  OBVIOUS
<1> USE DEF TypeOK, Rounds, NothingFallsThrough
<1>1. ASSUME NEW c \in Class, Change(c) PROVE NothingFallsThrough'
  BY <1>1 DEF Change
<1>2. CASE PlugUnseen \/ PeerExits \/ PeerStarts \/ Signal \/ IntervalOver
  BY <1>2 DEF PlugUnseen, PeerExits, PeerStarts, Signal, IntervalOver
<1>3. ASSUME NEW c \in Class, Expire(c) \/ HandleTimer(c) PROVE NothingFallsThrough'
  BY <1>3 DEF Expire, HandleTimer
<1>4. CASE Wait \/ EndBatch \/ HandleSignal
  BY <1>4 DEF Wait, EndBatch, HandleSignal
<1>5. CASE Reconnect
  BY <1>5 DEF Reconnect
<1>6. CASE HandleInotify \/ HandleHypr
  BY <1>6 DEF HandleInotify, HandleHypr
<1>7. CASE UNCHANGED vars
  BY <1>7 DEF vars
<1> QED
  BY <1>1, <1>2, <1>3, <1>4, <1>5, <1>6, <1>7 DEF Next, World, Clock, Daemon, Quiet

LEMMA StepCovered ==
    TypeOK /\ Rounds /\ MonitorsAreCovered /\ [Next]_vars => MonitorsAreCovered'
<1> SUFFICES ASSUME TypeOK, Rounds, MonitorsAreCovered, [Next]_vars PROVE MonitorsAreCovered'
  OBVIOUS
<1> USE DEF TypeOK, Rounds, MonitorsAreCovered
<1>1. ASSUME NEW c \in Class, Change(c) PROVE MonitorsAreCovered'
  BY <1>1 DEF Change
<1>2. CASE PlugUnseen \/ PeerExits \/ PeerStarts \/ Signal \/ IntervalOver
  BY <1>2 DEF PlugUnseen, PeerExits, PeerStarts, Signal, IntervalOver
<1>3. ASSUME NEW c \in Class, Expire(c) \/ HandleTimer(c) PROVE MonitorsAreCovered'
  BY <1>3 DEF Expire, HandleTimer
<1>4. CASE Wait \/ EndBatch \/ HandleSignal
  BY <1>4 DEF Wait, EndBatch, HandleSignal
<1>5. CASE Reconnect
  BY <1>5 DEF Reconnect
<1>6. CASE HandleInotify \/ HandleHypr
  BY <1>6 DEF HandleInotify, HandleHypr
<1>7. CASE UNCHANGED vars
  BY <1>7 DEF vars
<1> QED
  BY <1>1, <1>2, <1>3, <1>4, <1>5, <1>6, <1>7 DEF Next, World, Clock, Daemon, Quiet

(* The invariant holds in every reachable state, whatever the bounds.      *)
THEOREM Inductive == Spec => []IInv
<1>1. Init => IInv
  BY InitIInv
<1>2. IInv /\ [Next]_vars => IInv'
  BY StepType, StepRounds, StepFallsThrough, StepCovered DEF IInv
<1> QED
  BY <1>1, <1>2, PTL DEF Spec

(* The daemon's timers, batches and connections keep their types whatever  *)
(* the order of changes, reconnects and expiries, for every bound.         *)
THEOREM TypeCorrect == Spec => []TypeOK
  BY Inductive, PTL DEF IInv

(* Every event that reached the daemon's sockets is still on its way to    *)
(* its handler or has been handled.                                        *)
THEOREM NoEventFallsThrough == Spec => []NothingFallsThrough
  BY Inductive, PTL DEF IInv

(* While the daemon is connected, every monitor change is on its way to    *)
(* the reconciler, also one made while it was not.                         *)
THEOREM MonitorsStayCovered == Spec => []MonitorsAreCovered
  BY Inductive, PTL DEF IInv

-----------------------------------------------------------------------------
(* A timer that is set holds a trigger not yet paid for; a class in the    *)
(* batch has its timer set, and a timer re-armed meanwhile holds two.      *)
PaidFor ==
    \A c \in Class :
       /\ timer[c] # "off" => credit[c] >= 1
       /\ c \in batch => timer[c] # "off"
       /\ c \in batch /\ timer[c] = "armed" => credit[c] = 2

LEMMA StepPaidFor == TypeOK /\ PaidFor /\ [Next]_vars => PaidFor'
<1> SUFFICES ASSUME TypeOK, PaidFor, [Next]_vars PROVE PaidFor'
  OBVIOUS
<1> USE DEF TypeOK, PaidFor
<1>1. ASSUME NEW c \in Class, Change(c) PROVE PaidFor'
  BY <1>1 DEF Change
<1>2. CASE PlugUnseen \/ PeerExits \/ PeerStarts \/ Signal \/ IntervalOver
  BY <1>2 DEF PlugUnseen, PeerExits, PeerStarts, Signal, IntervalOver
<1>3. ASSUME NEW c \in Class, Expire(c) PROVE PaidFor'
  BY <1>3 DEF Expire
<1>4. CASE Wait
  BY <1>4 DEF Wait, Ready
<1>5. CASE EndBatch \/ HandleSignal
  BY <1>5 DEF EndBatch, HandleSignal
<1>6. ASSUME NEW cs, Trigger(cs), \A c \in Class : c \in batch' => c \in batch
      PROVE PaidFor'
  <2>1. \A n \in 0..2 : More(n) >= 1 /\ (n >= 1 => More(n) = 2)
    OBVIOUS
  <2>2. ASSUME NEW c \in Class, c \in cs
        PROVE  timer'[c] = "armed" /\ credit'[c] >= 1 /\ (c \in batch => credit'[c] = 2)
    BY <1>6, <2>1, <2>2
  <2>3. ASSUME NEW c \in Class, c \notin cs
        PROVE  timer'[c] = timer[c] /\ credit'[c] = credit[c]
    BY <1>6, <2>3
  <2> QED
    BY <1>6, <2>2, <2>3
<1>7. CASE Reconnect
  BY <1>6, <1>7 DEF Reconnect
<1>8. ASSUME NEW c \in Class, HandleTimer(c) PROVE PaidFor'
  BY <1>8 DEF HandleTimer
<1>9. CASE HandleInotify \/ HandleHypr
  BY <1>6, <1>9 DEF HandleInotify, HandleHypr
<1>10. CASE UNCHANGED vars
  BY <1>10 DEF vars
<1> QED
  BY <1>1, <1>2, <1>3, <1>4, <1>5, <1>7, <1>8, <1>9, <1>10 DEF Next, World, Clock, Daemon, Quiet

(* Every run of a handler was caused by a trigger of its own.              *)
THEOREM EveryRunIsPaid == Spec => RunsArePaid
<1>1. Init => PaidFor
  BY DEF Init, PaidFor
<1>2. TypeOK /\ PaidFor /\ [Next]_vars
      => (\A c \in Class : c \in batch /\ c \notin batch' => credit[c] > 0)
  <2> SUFFICES ASSUME TypeOK, PaidFor, NEW c \in Class, c \in batch PROVE credit[c] > 0
    OBVIOUS
  <2> QED
    BY DEF TypeOK, PaidFor
<1>3. IInv => TypeOK
  BY DEF IInv
<1> QED
  BY <1>1, <1>2, <1>3, StepPaidFor, Inductive, PTL DEF Spec, RunsArePaid
=============================================================================
